---------------------------- MODULE EventConsumer ----------------------------
(***************************************************************************)
(* services/events/consumer.py: the cycle fetch - handle - commit that     *)
(* every worker of one consumer group runs, driven by                      *)
(* workers/runtime/base_worker.py (ConsumerWorker._work).  Each group      *)
(* member is one process; its handler is a coroutine, so a rebalance can   *)
(* fall between any two of its steps.                                      *)
(*                                                                         *)
(* The broker and aiokafka are external.  They are modelled by what the    *)
(* runtime uses: a log per partition, one owner per partition, a committed *)
(* offset, and a fetch position that belongs to an assignment: the eager   *)
(* rebalance of aiokafka replaces the whole assignment, and every position *)
(* restarts at the committed offset.  seek() and commit() refuse a         *)
(* partition that is not assigned to the caller with a KafkaError.         *)
(***************************************************************************)
EXTENDS Naturals, FiniteSets

CONSTANTS
  Consumers,      \* processes of the group
  Partitions,
  LogLen,         \* messages per partition
  BatchSize,      \* max_records of one getmany
  MaxAttempts,    \* max_attempts of _deliver
  Poison,         \* <<p, o>>: the handler fails on it at every attempt
  Garbled,        \* <<p, o>>: cannot be decoded, or a newer envelope version
  DlqEnabled,     \* dlq_enabled
  DlqTopic,       \* the consumed topic is itself the dead-letter topic
  MaxCrashes,     \* bound: processes that die or are cancelled
  MaxRebalances,  \* bound: rebalances nobody's death explains
  None            \* no partition, no consumer

ASSUME ConsumerAssumption ==
  /\ LogLen \in Nat
  /\ BatchSize \in Nat \ {0}
  /\ MaxAttempts \in Nat \ {0}
  /\ MaxCrashes \in Nat
  /\ MaxRebalances \in Nat
  /\ DlqEnabled \in BOOLEAN
  /\ DlqTopic \in BOOLEAN
  /\ None \notin Partitions
  /\ None \notin Consumers

VARIABLES
  committed,   \* broker: committed[p]
  owner,       \* broker: the consumer p is assigned to, or None
  position,    \* position[c][p]: next offset getmany hands to c
  phase,       \* phase[c]: "down", "poll", "batch" or "commit"
  lo, hi,      \* the batch of c holds the records lo[c][p] .. hi[c][p]-1 of p
  mark,        \* commits.get(p, first offset of the batch) of run_once
  todo,        \* partitions of the batch the loop has not finished
  at,          \* the partition being worked through, or None
  off,         \* the record being handled
  tries,       \* deliveries of that record that failed
  settled,     \* history: handled, parked, or skipped on the DLQ topic
  crashes, rebalances

broker  == <<committed, owner>>
batch   == <<lo, hi, mark, todo, at, off, tries>>
budget  == <<crashes, rebalances>>
vars    == <<committed, owner, position, phase, lo, hi, mark, todo, at, off,
             tries, settled, crashes, rebalances>>

Offsets == 0 .. LogLen - 1
Below(n) == {o \in Offsets : o < n}
Live     == {c \in Consumers : phase[c] # "down"}
Owned(c) == {p \in Partitions : owner[p] = c}
Batch(c) == {p \in Partitions : lo[c][p] < hi[c][p]}
Marked(c) == {p \in Partitions : mark[c][p] # lo[c][p]}

TypeOK ==
  /\ committed \in [Partitions -> 0 .. LogLen]
  /\ owner \in [Partitions -> Consumers \cup {None}]
  /\ position \in [Consumers -> [Partitions -> 0 .. LogLen]]
  /\ phase \in [Consumers -> {"down", "poll", "batch", "commit"}]
  /\ lo \in [Consumers -> [Partitions -> 0 .. LogLen]]
  /\ hi \in [Consumers -> [Partitions -> 0 .. LogLen]]
  /\ mark \in [Consumers -> [Partitions -> 0 .. LogLen]]
  /\ todo \in [Consumers -> SUBSET Partitions]
  /\ at \in [Consumers -> Partitions \cup {None}]
  /\ off \in [Consumers -> 0 .. LogLen]
  /\ tries \in [Consumers -> 0 .. MaxAttempts]
  /\ settled \in [Partitions -> SUBSET Offsets]
  /\ crashes \in 0 .. MaxCrashes
  /\ rebalances \in 0 .. MaxRebalances

Init ==
  /\ committed = [p \in Partitions |-> 0]
  /\ owner     = [p \in Partitions |-> None]
  /\ position  = [c \in Consumers |-> [p \in Partitions |-> 0]]
  /\ phase     = [c \in Consumers |-> "down"]
  /\ lo        = [c \in Consumers |-> [p \in Partitions |-> 0]]
  /\ hi        = [c \in Consumers |-> [p \in Partitions |-> 0]]
  /\ mark      = [c \in Consumers |-> [p \in Partitions |-> 0]]
  /\ todo      = [c \in Consumers |-> {}]
  /\ at        = [c \in Consumers |-> None]
  /\ off       = [c \in Consumers |-> 0]
  /\ tries     = [c \in Consumers |-> 0]
  /\ settled   = [p \in Partitions |-> {}]
  /\ crashes = 0 /\ rebalances = 0

-----------------------------------------------------------------------------
(* The process and its group membership.                                   *)

Idle(c) ==          \* the stack of run_once is gone
  /\ lo'    = [lo    EXCEPT ![c] = [p \in Partitions |-> 0]]
  /\ hi'    = [hi    EXCEPT ![c] = [p \in Partitions |-> 0]]
  /\ mark'  = [mark  EXCEPT ![c] = [p \in Partitions |-> 0]]
  /\ todo'  = [todo  EXCEPT ![c] = {}]
  /\ at'    = [at    EXCEPT ![c] = None]
  /\ off'   = [off   EXCEPT ![c] = 0]
  /\ tries' = [tries EXCEPT ![c] = 0]

Start(c) ==
  /\ phase[c] = "down"
  /\ phase' = [phase EXCEPT ![c] = "poll"]
  /\ UNCHANGED <<broker, position, batch, settled, budget>>

\* The worker dies or is cancelled by the drain timeout, anywhere.  What the
\* exception path rewinds is the position of a client about to be closed.
Crash(c) ==
  /\ phase[c] # "down" /\ crashes < MaxCrashes
  /\ crashes' = crashes + 1
  /\ phase' = [phase EXCEPT ![c] = "down"]
  /\ owner' = [p \in Partitions |-> IF owner[p] = c THEN None ELSE owner[p]]
  /\ position' = [position EXCEPT ![c] = [p \in Partitions |-> 0]]
  /\ Idle(c)
  /\ UNCHANGED <<committed, settled, rebalances>>

\* The group is reassigned: because a partition has no owner, or because a
\* member joined, left or was presumed dead.  All positions restart.
Rebalance ==
  /\ Live # {}
  /\ \/ /\ \E p \in Partitions : owner[p] = None
        /\ UNCHANGED rebalances
     \/ /\ rebalances < MaxRebalances
        /\ rebalances' = rebalances + 1
  /\ owner' \in [Partitions -> Live]
  /\ position' = [c \in Consumers |->
                    [p \in Partitions |-> IF owner'[p] = c THEN committed[p] ELSE 0]]
  /\ UNCHANGED <<committed, phase, batch, settled, crashes>>

-----------------------------------------------------------------------------
(* run_once: fetch and pause.                                              *)

\* getmany hands out at most BatchSize records of the partitions assigned to c
\* and moves its position past them.
Fetch(c) ==
  /\ phase[c] = "poll"
  /\ \E n \in [Partitions -> 0 .. BatchSize] :
       /\ \A p \in Partitions : n[p] > 0 => p \in Owned(c)
       /\ \A p \in Partitions : position[c][p] + n[p] <= LogLen
       /\ \E p \in Partitions : n[p] > 0
       /\ Cardinality({r \in Partitions \X (1 .. BatchSize) : r[2] <= n[r[1]]})
            <= BatchSize
       /\ LET first == [p \in Partitions |-> IF n[p] > 0 THEN position[c][p] ELSE 0]
          IN  /\ lo'   = [lo   EXCEPT ![c] = first]
              /\ mark' = [mark EXCEPT ![c] = first]
              /\ hi'   = [hi EXCEPT ![c] = [p \in Partitions |-> first[p] + n[p]]]
       /\ position' = [position EXCEPT ![c] =
                         [p \in Partitions |-> position[c][p] + n[p]]]
       /\ todo' = [todo EXCEPT ![c] = {p \in Partitions : n[p] > 0}]
  /\ phase' = [phase EXCEPT ![c] = "batch"]
  /\ UNCHANGED <<broker, at, off, tries, settled, budget>>

\* getmany finds nothing: run_once returns an empty outcome.
EmptyPoll(c) ==
  /\ phase[c] = "poll"
  /\ \A p \in Owned(c) : position[c][p] = LogLen
  /\ UNCHANGED vars

\* The outer loop takes up the next partition of the batch.
Begin(c) ==
  /\ phase[c] = "batch" /\ at[c] = None
  /\ \E p \in todo[c] :
       /\ at' = [at EXCEPT ![c] = p]
       /\ off' = [off EXCEPT ![c] = lo[c][p]]
  /\ tries' = [tries EXCEPT ![c] = 0]
  /\ UNCHANGED <<broker, position, phase, lo, hi, mark, todo, settled, budget>>

-----------------------------------------------------------------------------
(* run_once: one record.                                                   *)

Current(c) == <<at[c], off[c]>>
Busy(c)    == phase[c] = "batch" /\ at[c] # None
Decodable(c) == Current(c) \notin Garbled

\* The inner loop ends for at[c]: n is the offset commits[partition] gets, or
\* the first offset of the batch when no record advanced.
LeavePartition(c, n) ==
  /\ mark' = [mark EXCEPT ![c][at[c]] = n]
  /\ todo' = [todo EXCEPT ![c] = @ \ {at[c]}]
  /\ at'   = [at EXCEPT ![c] = None]
  /\ off'  = [off EXCEPT ![c] = 0]
  /\ tries' = [tries EXCEPT ![c] = 0]

NextRecord(c) ==
  /\ off' = [off EXCEPT ![c] = @ + 1]
  /\ tries' = [tries EXCEPT ![c] = 0]
  /\ UNCHANGED <<mark, todo, at>>

\* _Disposition.ADVANCE: the record is settled, the loop moves on.
Advance(c) ==
  /\ settled' = [settled EXCEPT ![at[c]] = @ \cup {off[c]}]
  /\ IF off[c] + 1 < hi[c][at[c]] THEN NextRecord(c)
                                   ELSE LeavePartition(c, hi[c][at[c]])
  /\ UNCHANGED <<broker, position, phase, lo, hi, budget>>

Handle(c) ==
  /\ Busy(c) /\ Decodable(c) /\ tries[c] < MaxAttempts
  /\ Current(c) \notin Poison
  /\ Advance(c)

\* Mutant: one attempt more than max_attempts.
HandlerFailsOnceMore(c) ==
  /\ Busy(c) /\ Decodable(c) /\ tries[c] <= MaxAttempts
  /\ tries' = [tries EXCEPT ![c] = @ + 1]
  /\ UNCHANGED <<broker, position, phase, lo, hi, mark, todo, at, off, settled,
                 budget>>

HandlerFails(c) ==
  /\ Busy(c) /\ Decodable(c) /\ tries[c] < MaxAttempts
  /\ tries' = [tries EXCEPT ![c] = @ + 1]
  /\ UNCHANGED <<broker, position, phase, lo, hi, mark, todo, at, off, settled,
                 budget>>

Exhausted(c) == Busy(c) /\ (~Decodable(c) \/ tries[c] = MaxAttempts)

\* _park publishes to the DLQ, or declines to when the topic is the DLQ.
Park(c) ==
  /\ Exhausted(c) /\ DlqEnabled
  /\ Advance(c)

\* Mutant: the exception path raises without rewinding.
RewindNothing(c, r) ==
  /\ phase' = [phase EXCEPT ![c] = "poll"]
  /\ Idle(c)
  /\ UNCHANGED position

\* _rewind over the batch of c, to the offsets r.  It goes partition by
\* partition and seek() raises on the first one that is no longer assigned, so
\* the ones behind it are not sought.  Either way run_once is over.
Rewind(c, r) ==
  \E S \in SUBSET (Batch(c) \cap Owned(c)) :
    /\ Batch(c) \subseteq Owned(c) => S = Batch(c)
    /\ position' = [position EXCEPT ![c] =
                      [p \in Partitions |-> IF p \in S THEN r[p] ELSE @[p]]]
    /\ phase' = [phase EXCEPT ![c] = "poll"]
    /\ Idle(c)

\* Mutant: a failed DLQ publish advances as a successful one does.
BlockAdvances(c) ==
  /\ Exhausted(c)
  /\ IF off[c] + 1 < hi[c][at[c]] THEN NextRecord(c)
                                  ELSE LeavePartition(c, hi[c][at[c]])
  /\ UNCHANGED <<broker, position, phase, lo, hi, settled, budget>>

\* Mutant: the blocked record is set aside and the ones behind it handled.
BlockOvertaken(c) ==
  /\ Exhausted(c)
  /\ IF off[c] + 1 < hi[c][at[c]]
     THEN NextRecord(c) /\ UNCHANGED position
     ELSE /\ position' = [position EXCEPT ![c][at[c]] = lo[c][at[c]]]
          /\ LeavePartition(c, lo[c][at[c]])
  /\ UNCHANGED <<broker, phase, lo, hi, settled, budget>>

\* Mutant: the blocked record is not sought.
BlockWithoutSeek(c) ==
  /\ Exhausted(c)
  /\ LeavePartition(c, off[c])
  /\ UNCHANGED <<broker, position, phase, lo, hi, settled, budget>>

\* _Disposition.BLOCK: the DLQ is disabled or refused the message.  The record
\* is sought and the rest of its partition is left alone; when the partition
\* is gone the seek raises and the exception path rewinds the batch.
Block(c) ==
  /\ Exhausted(c)
  /\ ~DlqEnabled \/ ~DlqTopic
  /\ IF owner[at[c]] = c
     THEN /\ position' = [position EXCEPT ![c][at[c]] = off[c]]
          /\ LeavePartition(c, off[c])
          /\ UNCHANGED <<phase, lo, hi>>
     ELSE Rewind(c, mark[c])
  /\ UNCHANGED <<broker, settled, budget>>

-----------------------------------------------------------------------------
(* run_once: commit and resume.                                            *)

Finished(c) == phase[c] = "batch" /\ at[c] = None /\ todo[c] = {}

\* Nothing advanced: no commit, the partitions are resumed.
NoCommit(c) ==
  /\ Finished(c) /\ Marked(c) = {}
  /\ phase' = [phase EXCEPT ![c] = "poll"]
  /\ Idle(c)
  /\ UNCHANGED <<broker, position, settled, budget>>

SendCommit(c) ==
  /\ Finished(c) /\ Marked(c) # {}
  /\ phase' = [phase EXCEPT ![c] = "commit"]
  /\ UNCHANGED <<broker, position, batch, settled, budget>>

\* The broker records the marks of c.
Record(c) ==
  /\ Marked(c) \subseteq Owned(c)
  /\ committed' = [p \in Partitions |->
                     IF p \in Marked(c) THEN mark[c][p] ELSE committed[p]]

CommitOk(c) ==
  /\ phase[c] = "commit"
  /\ Record(c)
  /\ phase' = [phase EXCEPT ![c] = "poll"]
  /\ Idle(c)
  /\ UNCHANGED <<owner, position, settled, budget>>

\* commit() raises: refused because a partition is gone, not delivered, or
\* delivered and the answer lost.  _commit clears commits and rewinds.
CommitFails(c) ==
  /\ phase[c] = "commit"
  /\ Record(c) \/ UNCHANGED committed
  /\ Rewind(c, lo[c])
  /\ UNCHANGED <<owner, settled, budget>>

-----------------------------------------------------------------------------
Work(c) ==
  \/ EmptyPoll(c) \/ Fetch(c) \/ Begin(c) \/ Handle(c) \/ HandlerFails(c)
  \/ Park(c) \/ Block(c) \/ NoCommit(c) \/ SendCommit(c) \/ CommitOk(c) \/ CommitFails(c)

Next == Rebalance \/ \E c \in Consumers : Start(c) \/ Crash(c) \/ Work(c)

Spec == Init /\ [][Next]_vars

\* The event loop runs a ready coroutine; the orchestrator restarts a worker
\* and the coordinator reassigns; the DLQ and the commit do not fail forever.
Fairness ==
  /\ WF_vars(Rebalance /\ UNCHANGED rebalances)
  /\ \A c \in Consumers :
       /\ WF_vars(Start(c))
       /\ WF_vars(Work(c))
       /\ SF_vars(Park(c))
       /\ SF_vars(CommitOk(c))

FairSpec == Spec /\ Fairness

-----------------------------------------------------------------------------
(* Properties.                                                             *)

\* No loss: an offset is committed only past messages that a handler accepted
\* or that are parked, whatever dies, is reassigned or fails to be recorded
\* (consumer.py, "commit after the handler, never before").
NoLoss == \A p \in Partitions : Below(committed[p]) \subseteq settled[p]

\* No message is out of sight: between two batches a member's fetch position
\* has not moved past a message that is not settled, so nothing waits for the
\* next rebalance to be seen (_rewind, and the seek of a blocked message).
NothingSkipped ==
  \A c \in Consumers : \A p \in Owned(c) :
     phase[c] = "poll" => Below(position[c][p]) \subseteq settled[p]

\* While the assignment stands, a member between two batches never reads ahead
\* of what the broker has recorded: after a failed commit the work is arranged
\* to be done again (_commit, _rewind).  A rebalance during a batch breaks it
\* (see EndReached).
NothingUncommitted ==
  crashes + rebalances = 0 =>
    \A c \in Consumers : \A p \in Owned(c) :
       phase[c] = "poll" => position[c][p] <= committed[p]

\* The group implements at-least-once delivery in partition order.
D == INSTANCE Delivery WITH settled <- settled, committed <- committed
ImplementsDelivery == D!Spec

\* A poison message does not stop the partition: with a DLQ that accepts a
\* message in the end, the commits of every partition reach its end.  They need
\* not stay there: the batch of a member that lived through a rebalance may
\* still commit its older offset, which costs a redelivery.
EndReached == \A p \in Partitions : <>(committed[p] = LogLen)
=============================================================================
