---------------------------- MODULE ConnectorRuntime ----------------------------
(***************************************************************************)
(* One connector account being synchronised: the provider whose records    *)
(* keep changing, the template every connector runs under                  *)
(* (connectors/base.py), the runtime that makes a page durable before it   *)
(* moves the resume cursor (services/connector_service.py), and the shared *)
(* seen-set in Redis.  How a connector pages is left to the module that    *)
(* extends this one: SalesforceSync.                                       *)
(*                                                                         *)
(* A version is a pair <<record, modification stamp>>.  Each one that      *)
(* becomes queryable must be published, parked or skipped before the       *)
(* committed cursor puts it out of the reach of every later run.           *)
(***************************************************************************)
EXTENDS Integers, FiniteSets

CONSTANTS
  Records,      \* provider records, numbered
  Runners,      \* processes that may run this account at the same time
  KeyedByRevision, \* whether the connector's dedup key names the revision
  Malformed,    \* versions whose normalize() raises NormalizationError
  Unarchivable, \* versions whose payload the archive refuses for good
  Overlap,      \* overlap_seconds, in ticks of the provider's clock
  Lag,          \* ticks a change may take to become queryable
  PageSize,     \* records a provider page holds
  MaxPages,     \* SyncContext.max_pages
  MaxAttempts,  \* BackoffPolicy.max_attempts
  MaxTime,      \* bound: ticks of the provider's clock
  MaxFaults     \* bound: failures of the provider, the broker, Redis, a process

ASSUME Numbers == /\ Records \subseteq Nat /\ IsFiniteSet(Records)
                  /\ {Overlap, Lag, MaxFaults} \subseteq Nat
                  /\ {PageSize, MaxPages, MaxAttempts, MaxTime} \subseteq Nat \ {0}
ASSUME LagIsCovered == Lag <= Overlap
ASSUME Keys == KeyedByRevision \in BOOLEAN

VARIABLES
  clock,      \* the provider's time
  stamp,      \* [Records -> stamp of its latest version], 0 before it exists
  index,      \* [Records -> the version queries see], 0 before it is queryable
  cursor,     \* the committed cursor, a row of connector_cursors
  seen,       \* dedup keys present in Redis
  published,  \* versions the broker acknowledged on records.raw
  parked,     \* versions on omnisense.dlq
  skipped,    \* versions normalize() failed on: counted, and sent nowhere
  shadowed,   \* versions dropped as duplicates although never published
  run,        \* [Runners -> the state of its run]
  faults

provider == <<clock, stamp, index>>
sinks    == <<published, parked, skipped, shadowed>>
vars     == <<provider, cursor, seen, sinks, run, faults>>

Versions == Records \X (1..MaxTime)

(***************************************************************************)
(* Cursors.  A watermark of 0 stands for None; a connector's private       *)
(* checkpoint is empty here (SalesforceSync keeps none).                   *)
(***************************************************************************)
Cursors == [wm : Int, readable : BOOLEAN]
NoCursor == [wm |-> 0, readable |-> TRUE]

WatermarkFloor(c) == IF c.readable THEN c.wm ELSE 0

GuardWatermark(c, floor) ==
  IF floor = 0 \/ c.wm >= floor THEN c ELSE [c EXCEPT !.wm = floor]

EffectiveStart(c) ==
  IF ~c.readable THEN NoCursor
  ELSE IF c.wm = 0 THEN c
  ELSE [c EXCEPT !.wm = c.wm - Overlap]

\* Mutant of Advances: the runtime trusts the clamp of the template.
AdvancesAlways(candidate, committed) == TRUE

Advances(candidate, committed) ==
  committed.wm = 0 \/ candidate.wm >= committed.wm

(***************************************************************************)
(* What the provider's query answers: versions stamped at or after `since`. *)
(***************************************************************************)
Queryable == {<<r, index[r]>> : r \in {q \in Records : index[q] # 0}}
Matching(since) == {v \in Queryable : v[2] >= since}

\* The newest stamp of a page, and what an empty page reports instead.
Newest(S, default) ==
  IF S = {} THEN {default}
  ELSE {t \in {v[2] : v \in S} : \A v \in S : v[2] <= t}

(***************************************************************************)
(* One run: the generator of base.py and the runtime that drains it.       *)
(***************************************************************************)
Idle == [phase |-> "idle", committed |-> NoCursor, floor |-> 0, start |-> NoCursor,
         rest |-> {}, todo |-> {}, batch |-> {}, events |-> {},
         next |-> NoCursor, last |-> FALSE, pages |-> 0, attempts |-> 0]

\* A (re)started drain: nothing asked yet, resuming from the cursor c.
Attempt(c, n) ==
  [Idle EXCEPT !.phase = "query", !.committed = c, !.floor = WatermarkFloor(c),
               !.start = EffectiveStart(c), !.next = EffectiveStart(c),
               !.attempts = n]

Key(v) == IF KeyedByRevision THEN v ELSE <<v[1], 0>>

Settled == published \cup parked \cup skipped

Init ==
  /\ clock = 1
  /\ stamp = [r \in Records |-> 0]
  /\ index = [r \in Records |-> 0]
  /\ cursor = NoCursor
  /\ seen = {} /\ published = {} /\ parked = {} /\ skipped = {} /\ shadowed = {}
  /\ run = [p \in Runners |-> Idle]
  /\ faults = 0

-----------------------------------------------------------------------------
\* The provider (external).  A change becomes queryable within Lag ticks.

Tick ==
  /\ clock < MaxTime
  /\ \A r \in Records : stamp[r] # index[r] => clock + 1 - stamp[r] <= Lag
  /\ clock' = clock + 1
  /\ UNCHANGED <<stamp, index, cursor, seen, sinks, run, faults>>

\* A record is created or revised.
Revise(r) ==
  /\ stamp[r] = index[r] /\ stamp[r] < clock
  /\ stamp' = [stamp EXCEPT ![r] = clock]
  /\ UNCHANGED <<clock, index, cursor, seen, sinks, run, faults>>

BecomeQueryable(r) ==
  /\ index[r] # stamp[r]
  /\ index' = [index EXCEPT ![r] = stamp[r]]
  /\ UNCHANGED <<clock, stamp, cursor, seen, sinks, run, faults>>

-----------------------------------------------------------------------------
\* ConnectorRuntime.run loads the cursor and starts the first drain.
Begin(p) ==
  /\ run[p].phase = "idle"
  /\ run' = [run EXCEPT ![p] = Attempt(cursor, 0)]
  /\ UNCHANGED <<provider, cursor, seen, sinks, faults>>

\* A page is received: P are its records, rest what the pager still holds.
Receive(p, P, rest, next, last) ==
  /\ run' = [run EXCEPT ![p] =
               [run[p] EXCEPT !.phase = "page", !.todo = P, !.rest = rest,
                         !.next = next, !.last = last, !.pages = @ + 1]]
  /\ UNCHANGED <<provider, cursor, seen, sinks, faults>>

-----------------------------------------------------------------------------
\* Mutant of Skip: a malformed record fails the page.
SkipAborts(p, v) ==
  /\ v \in Malformed
  /\ run' = [run EXCEPT ![p] = Idle]
  /\ UNCHANGED <<seen, skipped, shadowed, faults>>

\* A record normalize() cannot map is counted, and the page goes on.
Skip(p, v) ==
  /\ v \in Malformed
  /\ skipped' = skipped \cup {v}
  /\ run' = [run EXCEPT ![p].todo = @ \ {v}]
  /\ UNCHANGED <<seen, shadowed, faults>>

\* Records of the page, oldest first: mapped, then dropped or marked as seen.
\* Redis fails open: a record is let through, and leaves no mark.
NormalizeAndDedup(p) ==
  /\ run[p].phase = "page"
  /\ \E v \in run[p].todo :
       /\ \A w \in run[p].todo : v[2] <= w[2]
       /\ \/ Skip(p, v)
          \/ /\ v \notin Malformed /\ Key(v) \in seen
             /\ shadowed' = IF v \in Settled THEN shadowed ELSE shadowed \cup {v}
             /\ run' = [run EXCEPT ![p].todo = @ \ {v}]
             /\ UNCHANGED <<seen, skipped, faults>>
          \/ /\ v \notin Malformed /\ Key(v) \notin seen
             /\ seen' = seen \cup {Key(v)}
             /\ run' = [run EXCEPT ![p].todo = @ \ {v}, ![p].batch = @ \cup {v}]
             /\ UNCHANGED <<skipped, shadowed, faults>>
          \/ /\ v \notin Malformed /\ faults < MaxFaults
             /\ faults' = faults + 1
             /\ run' = [run EXCEPT ![p].todo = @ \ {v}, ![p].batch = @ \cup {v}]
             /\ UNCHANGED <<seen, skipped, shadowed>>
  /\ UNCHANGED <<provider, cursor, published, parked>>

\* Every payload of the page is archived before any of its events is sent; one
\* the archive refuses for good is parked with its bytes instead.
ArchiveRecord(p) ==
  /\ run[p].phase = "page" /\ run[p].todo = {}
  /\ \E v \in run[p].batch :
       /\ \A w \in run[p].batch : v[2] <= w[2]
       /\ IF v \in Unarchivable
            THEN /\ parked' = parked \cup {v}
                 /\ run' = [run EXCEPT ![p].batch = @ \ {v}]
            ELSE /\ run' = [run EXCEPT ![p].batch = @ \ {v}, ![p].events = @ \cup {v}]
                 /\ UNCHANGED parked
  /\ UNCHANGED <<provider, cursor, seen, published, skipped, shadowed, faults>>

Publish(p) ==
  /\ run[p].phase = "page" /\ run[p].todo = {} /\ run[p].batch = {}
  /\ \E v \in run[p].events :
       /\ \A w \in run[p].events : v[2] <= w[2]
       /\ published' = published \cup {v}
       /\ run' = [run EXCEPT ![p].events = @ \ {v}]
  /\ UNCHANGED <<provider, cursor, seen, parked, skipped, shadowed, faults>>

\* Mutant of CommitCursor: the cursor moves before the broker acknowledged.
CommitBeforeAck(p) ==
  /\ run[p].phase = "page" /\ run[p].todo = {} /\ run[p].batch = {}
  /\ LET new == GuardWatermark(run[p].next, run[p].floor)
     IN  /\ cursor' = new
         /\ run' = [run EXCEPT ![p].phase = "drained", ![p].committed = new]
  /\ UNCHANGED <<provider, seen, sinks, faults>>

\* The page is acknowledged: the cursor moves, unless its watermark regressed.
CommitCursor(p) ==
  /\ run[p].phase = "page"
  /\ run[p].todo = {} /\ run[p].batch = {} /\ run[p].events = {}
  /\ LET new == GuardWatermark(run[p].next, run[p].floor)
     IN  IF Advances(new, run[p].committed)
           THEN /\ cursor' = new
                /\ run' = [run EXCEPT ![p].phase = "drained", ![p].committed = new]
           ELSE /\ run' = [run EXCEPT ![p].phase = "drained"]
                /\ UNCHANGED cursor
  /\ UNCHANGED <<provider, seen, sinks, faults>>

\* The page budget of the run, then the pager's own end, close the run.
NextPageOrEnd(p) ==
  /\ run[p].phase = "drained"
  /\ run' = [run EXCEPT ![p] =
               IF run[p].pages >= MaxPages \/ run[p].last THEN Idle
               ELSE [run[p] EXCEPT !.phase = "paging"]]
  /\ UNCHANGED <<provider, cursor, seen, sinks, faults>>

-----------------------------------------------------------------------------
\* Failures, dispatched on the error's class.

Fault == faults < MaxFaults /\ faults' = faults + 1

\* Mutant of Exhausted: one attempt too many.
ExhaustedLate(s) == s.attempts + 1 > MaxAttempts

\* The retry controller counts the attempt before it consults its policy.
Exhausted(s) == s.attempts + 1 >= MaxAttempts

\* The provider's request fails transiently: the drain starts again from the
\* last committed cursor, until its attempts are spent.
TransientError(p) ==
  /\ Fault
  /\ run[p].phase \in {"query", "paging"}
  /\ run' = [run EXCEPT ![p] =
               IF Exhausted(run[p]) THEN Idle
               ELSE Attempt(run[p].committed, run[p].attempts + 1)]
  /\ UNCHANGED <<provider, cursor, seen, sinks>>

\* Out of quota: the run ends as a partial success and checkpoints again what
\* it committed last.
QuotaError(p) ==
  /\ Fault
  /\ run[p].phase \in {"query", "paging", "drained"}
  /\ LET c == run[p].committed
     IN  cursor' = IF c.wm = 0 THEN cursor ELSE c
  /\ run' = [run EXCEPT ![p] = Idle]
  /\ UNCHANGED <<provider, seen, sinks>>

\* An error of another class, a broker that refuses an event or a parked
\* record, or the death of the process: the run is gone, between any two steps.
RunDies(p) ==
  /\ Fault
  /\ run[p].phase # "idle"
  /\ run' = [run EXCEPT ![p] = Idle]
  /\ UNCHANGED <<provider, cursor, seen, sinks>>

\* Redis evicts a key, or its retention window closes.
Forget(k) ==
  /\ Fault
  /\ k \in seen
  /\ seen' = seen \ {k}
  /\ UNCHANGED <<provider, cursor, sinks, run>>

\* The process is replaced by a build that cannot read the stored cursor.
Unreadable ==
  /\ Fault
  /\ cursor.wm # 0 /\ cursor.readable
  /\ cursor' = [cursor EXCEPT !.readable = FALSE]
  /\ UNCHANGED <<provider, seen, sinks, run>>

-----------------------------------------------------------------------------
\* What every connector's run does once its pager has produced a page.
Drain(p) ==
  \/ NormalizeAndDedup(p) \/ ArchiveRecord(p) \/ Publish(p)
  \/ CommitCursor(p) \/ NextPageOrEnd(p)

Failure(p) == TransientError(p) \/ QuotaError(p) \/ RunDies(p)

Environment ==
  \/ Tick
  \/ \E r \in Records : Revise(r) \/ BecomeQueryable(r)
  \/ \E k \in seen : Forget(k)
  \/ Unreadable

RunStates ==
  [phase : {"idle", "query", "paging", "page", "drained"},
   committed : Cursors, floor : Int, start : Cursors, next : Cursors,
   rest : SUBSET Versions, todo : SUBSET Versions,
   batch : SUBSET Versions, events : SUBSET Versions,
   last : BOOLEAN, pages : 0..MaxPages, attempts : 0..(MaxAttempts - 1)]

\* Every variable has its type: no run reads more pages than its budget, or is
\* retried more often than the backoff policy allows.
TypeOK ==
  /\ clock \in 1..MaxTime
  /\ stamp \in [Records -> 0..MaxTime]
  /\ index \in [Records -> 0..MaxTime]
  /\ cursor \in Cursors
  /\ seen \subseteq Records \X (0..MaxTime)
  /\ published \subseteq Versions /\ parked \subseteq Versions
  /\ skipped \subseteq Versions /\ shadowed \subseteq Versions
  /\ run \in [Runners -> RunStates]
  /\ faults \in 0..MaxFaults
=============================================================================
