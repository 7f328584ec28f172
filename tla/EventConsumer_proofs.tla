------------------------ MODULE EventConsumer_proofs ------------------------
(***************************************************************************)
(* Proofs about EventConsumer, for any group, log, batch size and number   *)
(* of crashes and rebalances.                                              *)
(***************************************************************************)
EXTENDS EventConsumer, TLAPS

\* Everything of p below n is settled.
Covered(p, n) == Below(n) \subseteq settled[p]

\* The loops of run_once: the partition worked through is one the batch still
\* has to do, its cursor lies inside its records and everything in front of the
\* cursor is settled.
LoopInv(c) ==
  /\ todo[c] \subseteq Batch(c)
  /\ \A p \in todo[c] : mark[c][p] = lo[c][p]
  /\ phase[c] # "batch" => todo[c] = {} /\ at[c] = None
  /\ phase[c] \in {"down", "poll"} => Batch(c) = {}
  /\ at[c] # None => /\ at[c] \in todo[c]
                     /\ off[c] \in Offsets
                     /\ lo[c][at[c]] <= off[c] /\ off[c] < hi[c][at[c]]
                     /\ Covered(at[c], off[c])

\* What a batch may commit or rewind to is covered.
MarkInv(c) ==
  \A p \in Partitions : Covered(p, lo[c][p]) /\ Covered(p, mark[c][p])

\* A position is covered, unless it is the end of a fetch not worked through.
PositionInv(c) ==
  \A p \in Owned(c) : \/ Covered(p, position[c][p])
                      \/ p \in todo[c] /\ position[c][p] = hi[c][p]

\* A member that lost a partition of its batch lived through a rebalance, so
\* all its positions restarted from committed offsets.
LostInv(c) ==
  ~(Batch(c) \subseteq Owned(c)) =>
     \A p \in Owned(c) : Covered(p, position[c][p])

ConsumerInv(c) == LoopInv(c) /\ MarkInv(c) /\ PositionInv(c) /\ LostInv(c)

IInv == NoLoss /\ \A c \in Consumers : ConsumerInv(c)

-----------------------------------------------------------------------------
\* Type correctness of run_once: every cursor stays inside the log.
LEMMA TypeOKInit == Init => TypeOK
  BY ConsumerAssumption DEF Init, TypeOK, Offsets

LEMMA IdleType ==
  ASSUME TypeOK, NEW c \in Consumers, Idle(c)
  PROVE  /\ lo' \in [Consumers -> [Partitions -> 0 .. LogLen]]
         /\ hi' \in [Consumers -> [Partitions -> 0 .. LogLen]]
         /\ mark' \in [Consumers -> [Partitions -> 0 .. LogLen]]
         /\ todo' \in [Consumers -> SUBSET Partitions]
         /\ at' \in [Consumers -> Partitions \cup {None}]
         /\ off' \in [Consumers -> 0 .. LogLen]
         /\ tries' \in [Consumers -> 0 .. MaxAttempts]
  BY ConsumerAssumption DEF TypeOK, Idle

\* A rewind leaves every position inside the log when r does.
LEMMA RewindType ==
  ASSUME TypeOK, NEW c \in Consumers, NEW r \in [Partitions -> 0 .. LogLen],
         Rewind(c, r)
  PROVE  /\ position' \in [Consumers -> [Partitions -> 0 .. LogLen]]
         /\ phase' \in [Consumers -> {"down", "poll", "batch", "commit"}]
         /\ Idle(c)
  BY DEF TypeOK, Rewind

\* Updating one entry of a table keeps its type.
LEMMA TableUpdate ==
  ASSUME NEW A, NEW B, NEW V, NEW f \in [A -> [B -> V]],
         NEW a \in A, NEW b \in B, NEW v \in V
  PROVE  [f EXCEPT ![a][b] = v] \in [A -> [B -> V]]
  OBVIOUS

LEMMA LeaveType ==
  ASSUME TypeOK, NEW c \in Consumers, at[c] \in Partitions,
         NEW n \in 0 .. LogLen, LeavePartition(c, n)
  PROVE  /\ mark' \in [Consumers -> [Partitions -> 0 .. LogLen]]
         /\ todo' \in [Consumers -> SUBSET Partitions]
         /\ at' \in [Consumers -> Partitions \cup {None}]
         /\ off' \in [Consumers -> 0 .. LogLen]
         /\ tries' \in [Consumers -> 0 .. MaxAttempts]
<1>1. mark' \in [Consumers -> [Partitions -> 0 .. LogLen]]
  BY TableUpdate DEF TypeOK, LeavePartition
<1>2. todo' \in [Consumers -> SUBSET Partitions]
  BY DEF TypeOK, LeavePartition
<1>3. QED BY <1>1, <1>2, ConsumerAssumption DEF TypeOK, LeavePartition

\* One record done keeps the cursors inside the batch.
LEMMA AdvanceType ==
  ASSUME TypeOK, NEW c \in Consumers, LoopInv(c), Busy(c), Advance(c)
  PROVE  TypeOK'
<1>1. /\ at[c] \in Partitions /\ off[c] \in Offsets
      /\ off[c] + 1 \in 0 .. LogLen
      /\ hi[c][at[c]] \in 0 .. LogLen
  BY ConsumerAssumption DEF TypeOK, LoopInv, Busy, Offsets
<1>2. settled' \in [Partitions -> SUBSET Offsets]
  BY <1>1 DEF TypeOK, Advance
<1>3. CASE off[c] + 1 < hi[c][at[c]]
  <2>1. NextRecord(c)
    BY <1>3 DEF Advance
  <2>2. /\ off' \in [Consumers -> 0 .. LogLen]
        /\ tries' \in [Consumers -> 0 .. MaxAttempts]
    BY <1>1, <2>1, ConsumerAssumption DEF TypeOK, NextRecord
  <2>3. QED BY <1>2, <2>1, <2>2
            DEF TypeOK, Advance, NextRecord, broker, budget
<1>4. CASE ~(off[c] + 1 < hi[c][at[c]])
  <2>1. LeavePartition(c, hi[c][at[c]])
    BY <1>4 DEF Advance
  <2>2. QED BY <1>1, <1>2, <2>1, LeaveType
            DEF TypeOK, Advance, broker, budget
<1>5. QED BY <1>3, <1>4

LEMMA TypeOKStep ==
  ASSUME TypeOK, \A c \in Consumers : LoopInv(c), [Next]_vars
  PROVE  TypeOK'
<1> USE ConsumerAssumption
<1>1. CASE Rebalance
  BY <1>1 DEF TypeOK, Rebalance, Live, batch
<1>2. ASSUME NEW c \in Consumers, Start(c) PROVE TypeOK'
  BY <1>2 DEF TypeOK, Start, broker, batch, budget
<1>3. ASSUME NEW c \in Consumers, Crash(c) PROVE TypeOK'
  BY <1>3, IdleType DEF TypeOK, Crash
<1>4. ASSUME NEW c \in Consumers, EmptyPoll(c) PROVE TypeOK'
  BY <1>4 DEF TypeOK, EmptyPoll, vars
<1>5. ASSUME NEW c \in Consumers, Fetch(c) PROVE TypeOK'
  BY <1>5 DEF TypeOK, Fetch, broker, budget
<1>6. ASSUME NEW c \in Consumers, Begin(c) PROVE TypeOK'
  BY <1>6 DEF TypeOK, Begin, broker, budget
<1>7. ASSUME NEW c \in Consumers, Handle(c) PROVE TypeOK'
  BY <1>7, AdvanceType DEF Handle
<1>8. ASSUME NEW c \in Consumers, HandlerFails(c) PROVE TypeOK'
  BY <1>8 DEF TypeOK, HandlerFails, broker, budget
<1>9. ASSUME NEW c \in Consumers, Park(c) PROVE TypeOK'
  BY <1>9, AdvanceType DEF Park, Exhausted
<1>10. ASSUME NEW c \in Consumers, Block(c) PROVE TypeOK'
  <2>1. at[c] \in Partitions /\ off[c] \in 0 .. LogLen
    BY <1>10 DEF TypeOK, Block, Exhausted, Busy
  <2>2. CASE owner[at[c]] = c
    <3>1. /\ LeavePartition(c, off[c])
          /\ position' = [position EXCEPT ![c][at[c]] = off[c]]
      BY <1>10, <2>2 DEF Block
    <3>2. position' \in [Consumers -> [Partitions -> 0 .. LogLen]]
      BY <2>1, <3>1, TableUpdate DEF TypeOK
    <3>3. QED BY <1>10, <2>1, <2>2, <3>1, <3>2, LeaveType
              DEF TypeOK, Block, broker, budget
  <2>3. CASE owner[at[c]] # c
    <3>1. Rewind(c, mark[c]) /\ mark[c] \in [Partitions -> 0 .. LogLen]
      BY <1>10, <2>3 DEF TypeOK, Block
    <3>2. QED BY <1>10, <3>1, RewindType, IdleType
              DEF TypeOK, Block, broker, budget
  <2>4. QED BY <2>2, <2>3
<1>11. ASSUME NEW c \in Consumers, NoCommit(c) PROVE TypeOK'
  BY <1>11, IdleType DEF TypeOK, NoCommit, broker, budget
<1>12. ASSUME NEW c \in Consumers, SendCommit(c) PROVE TypeOK'
  BY <1>12 DEF TypeOK, SendCommit, broker, batch, budget
<1>13. ASSUME NEW c \in Consumers, CommitOk(c) PROVE TypeOK'
  BY <1>13, IdleType DEF TypeOK, CommitOk, Record, budget
<1>14. ASSUME NEW c \in Consumers, CommitFails(c) PROVE TypeOK'
  <2>1. Rewind(c, lo[c]) /\ lo[c] \in [Partitions -> 0 .. LogLen]
    BY <1>14 DEF TypeOK, CommitFails
  <2>2. committed' \in [Partitions -> 0 .. LogLen]
    BY <1>14 DEF TypeOK, CommitFails, Record
  <2>3. QED BY <1>14, <2>1, <2>2, RewindType, IdleType
            DEF TypeOK, CommitFails, budget
<1>15. CASE UNCHANGED vars
  BY <1>15 DEF TypeOK, vars
<1>16. QED
  BY <1>1, <1>2, <1>3, <1>4, <1>5, <1>6, <1>7, <1>8, <1>9, <1>10, <1>11, <1>12,
     <1>13, <1>14, <1>15 DEF Next, Work

-----------------------------------------------------------------------------
(* The inductive step of IInv.                                             *)

LEMMA CoveredZero == \A p \in Partitions : Covered(p, 0)
  BY ConsumerAssumption DEF Covered, Below, Offsets

\* Settling one more record covers one more offset.
LEMMA CoveredNext ==
  ASSUME NEW S, NEW o \in Offsets, Below(o) \subseteq S
  PROVE  Below(o + 1) \subseteq S \cup {o}
  BY ConsumerAssumption DEF Below, Offsets

\* A member is not disturbed by the steps of another one.
LEMMA Frame ==
  ASSUME NEW d \in Consumers, ConsumerInv(d),
         \A p \in Partitions : settled[p] \subseteq settled'[p],
         \A p \in Partitions : owner'[p] = d <=> owner[p] = d,
         phase'[d] = phase[d], position'[d] = position[d],
         lo'[d] = lo[d], hi'[d] = hi[d], mark'[d] = mark[d],
         todo'[d] = todo[d], at'[d] = at[d], off'[d] = off[d]
  PROVE  ConsumerInv(d)'
<1>1. Batch(d)' = Batch(d) /\ Owned(d)' = Owned(d)
  BY DEF Batch, Owned
<1>2. \A p \in Partitions, n \in Nat : Covered(p, n) => Covered(p, n)'
  BY DEF Covered
<1>3. \A p \in Partitions : \A n : Covered(p, n) => Covered(p, n)'
  BY DEF Covered
<1>4. todo[d] \subseteq Partitions
  BY DEF ConsumerInv, LoopInv, Batch
<1>5. LoopInv(d)'
  BY <1>1, <1>3, <1>4 DEF ConsumerInv, LoopInv
<1>6. MarkInv(d)'
  BY <1>3 DEF ConsumerInv, MarkInv
<1>7. PositionInv(d)' /\ LostInv(d)'
  BY <1>1, <1>3 DEF ConsumerInv, PositionInv, LostInv, Owned
<1>8. QED BY <1>5, <1>6, <1>7 DEF ConsumerInv

\* The end of a batch, however it ended.
LEMMA IdleInv ==
  ASSUME TypeOK, NEW c \in Consumers, Idle(c), phase'[c] \in {"down", "poll"},
         \A p \in Partitions : owner'[p] = c => Covered(p, position[c][p])'
  PROVE  ConsumerInv(c)'
<1>1. /\ \A p \in Partitions : lo'[c][p] = 0 /\ hi'[c][p] = 0 /\ mark'[c][p] = 0
      /\ todo'[c] = {} /\ at'[c] = None
  BY DEF TypeOK, Idle
<1>2. Batch(c)' = {}
  BY <1>1 DEF Batch
<1>3. \A p \in Partitions : Covered(p, 0)'
  BY ConsumerAssumption DEF Covered, Below, Offsets
<1>4. LoopInv(c)'
  BY <1>1, <1>2 DEF LoopInv
<1>5. MarkInv(c)'
  BY <1>1, <1>3 DEF MarkInv
<1>6. PositionInv(c)' /\ LostInv(c)'
  BY DEF PositionInv, LostInv, Owned
<1>7. QED BY <1>4, <1>5, <1>6 DEF ConsumerInv

\* Between two batches nothing is left to work through, so every position of
\* the member is covered.
LEMMA RestCovered ==
  ASSUME NEW c \in Consumers, ConsumerInv(c), todo[c] = {}
  PROVE  \A p \in Owned(c) : Covered(p, position[c][p])
  BY DEF ConsumerInv, PositionInv

\* _rewind leaves covered positions behind, also when a seek is refused.
LEMMA RewindInv ==
  ASSUME TypeOK, NEW c \in Consumers, ConsumerInv(c),
         NEW r \in [Partitions -> 0 .. LogLen], Rewind(c, r),
         \A p \in Partitions : Covered(p, r[p]),
         UNCHANGED <<owner, settled>>
  PROVE  ConsumerInv(c)'
<1>1. PICK S \in SUBSET (Batch(c) \cap Owned(c)) :
        /\ Batch(c) \subseteq Owned(c) => S = Batch(c)
        /\ position' = [position EXCEPT ![c] =
             [p \in Partitions |-> IF p \in S THEN r[p] ELSE @[p]]]
  BY DEF Rewind
<1>2. Idle(c) /\ phase'[c] = "poll"
  BY DEF Rewind, TypeOK
<1>3. ASSUME NEW p \in Owned(c) PROVE Covered(p, position'[c][p])
  <2>1. p \in Partitions
    BY DEF Owned
  <2>2. position'[c][p] = IF p \in S THEN r[p] ELSE position[c][p]
    BY <1>1, <2>1 DEF TypeOK
  <2>3. CASE p \in S
    BY <2>1, <2>2, <2>3
  <2>4. CASE p \notin S
    <3>1. CASE p \in Batch(c)
      BY <1>1, <1>3, <2>2, <2>4, <3>1 DEF ConsumerInv, LostInv
    <3>2. CASE p \notin Batch(c)
      BY <1>3, <2>2, <2>4, <3>2 DEF ConsumerInv, LoopInv, PositionInv
    <3>3. QED BY <3>1, <3>2
  <2>5. QED BY <2>3, <2>4
<1>4. \A p \in Partitions : owner'[p] = c => Covered(p, position[c][p])'
  BY <1>3 DEF Owned, Covered
<1>5. QED BY <1>2, <1>4, IdleInv

\* The inner loop of one partition is over: n is covered, and either the whole
\* partition advanced or its position was sought.
LEMMA LeaveInv ==
  ASSUME TypeOK, NEW c \in Consumers, ConsumerInv(c), Busy(c),
         NEW n \in 0 .. LogLen, LeavePartition(c, n),
         Below(n) \subseteq settled'[at[c]],
         \A p \in Partitions : settled[p] \subseteq settled'[p],
         UNCHANGED <<owner, phase, lo, hi>>,
         \A p \in Partitions : p # at[c] => position'[c][p] = position[c][p],
         owner[at[c]] = c => Below(position'[c][at[c]]) \subseteq settled'[at[c]]
  PROVE  ConsumerInv(c)'
<1>1. at[c] \in Partitions /\ at[c] \in todo[c] /\ at[c] # None
  BY DEF ConsumerInv, LoopInv, Busy, Batch
<1>2. /\ todo'[c] = todo[c] \ {at[c]} /\ at'[c] = None
      /\ \A p \in Partitions : mark'[c][p] = IF p = at[c] THEN n ELSE mark[c][p]
  BY <1>1 DEF TypeOK, LeavePartition
<1>3. Batch(c)' = Batch(c) /\ Owned(c)' = Owned(c)
  BY DEF Batch, Owned
<1>4. \A p \in Partitions : \A m : Covered(p, m) => Covered(p, m)'
  BY DEF Covered
<1>5. LoopInv(c)'
  <2>1. todo[c] \subseteq Partitions
    BY DEF TypeOK
  <2>2. phase'[c] = "batch"
    BY DEF Busy
  <2>3. QED BY <1>1, <1>2, <1>3, <2>1, <2>2 DEF ConsumerInv, LoopInv
<1>6. MarkInv(c)'
  <2>1. SUFFICES ASSUME NEW p \in Partitions
                 PROVE  Covered(p, lo[c][p])' /\ Covered(p, mark[c][p])'
    BY DEF MarkInv
  <2>2. Covered(p, lo[c][p])'
    BY <1>4 DEF ConsumerInv, MarkInv, Covered
  <2>3. CASE p = at[c]
    BY <1>2, <2>2, <2>3 DEF Covered
  <2>4. CASE p # at[c]
    BY <1>2, <1>4, <2>2, <2>4 DEF ConsumerInv, MarkInv, Covered
  <2>5. QED BY <2>3, <2>4
<1>7. ASSUME NEW p \in Owned(c) PROVE p = at[c] => Covered(p, position[c][p])'
  BY <1>7 DEF Owned, Covered
<1>8. PositionInv(c)'
  <2>1. SUFFICES ASSUME NEW p \in Owned(c)
                 PROVE  \/ Covered(p, position[c][p])'
                        \/ p \in todo'[c] /\ position'[c][p] = hi'[c][p]
    BY <1>3 DEF PositionInv
  <2>2. CASE p = at[c]
    BY <1>7, <2>2
  <2>3. CASE p # at[c]
    <3>1. p \in Partitions /\ position'[c][p] = position[c][p]
      BY <2>3 DEF Owned
    <3>2. Covered(p, position[c][p]) => Covered(p, position[c][p])'
      BY <3>1 DEF Covered
    <3>3. QED BY <1>2, <2>3, <3>1, <3>2 DEF ConsumerInv, PositionInv
  <2>4. QED BY <2>2, <2>3
<1>9. LostInv(c)'
  <2>1. SUFFICES ASSUME ~(Batch(c) \subseteq Owned(c)), NEW p \in Owned(c)
                 PROVE  Covered(p, position[c][p])'
    BY <1>3 DEF LostInv
  <2>2. CASE p = at[c]
    BY <1>7, <2>2
  <2>3. CASE p # at[c]
    BY <2>1, <2>3 DEF ConsumerInv, LostInv, Owned, Covered
  <2>4. QED BY <2>2, <2>3
<1>10. QED BY <1>5, <1>6, <1>8, <1>9 DEF ConsumerInv

\* Settling the record under the cursor: the partition goes on or is left.
LEMMA AdvanceInv ==
  ASSUME TypeOK, NEW c \in Consumers, ConsumerInv(c), Busy(c), Advance(c)
  PROVE  ConsumerInv(c)'
<1>1. /\ at[c] \in Partitions /\ at[c] \in todo[c] /\ off[c] \in Offsets
      /\ lo[c][at[c]] <= off[c] /\ off[c] < hi[c][at[c]]
      /\ Covered(at[c], off[c])
  BY DEF ConsumerInv, LoopInv, Busy, Batch
<1>2. /\ settled'[at[c]] = settled[at[c]] \cup {off[c]}
      /\ \A p \in Partitions : settled[p] \subseteq settled'[p]
  BY <1>1 DEF TypeOK, Advance
<1>3. Below(off[c] + 1) \subseteq settled'[at[c]]
  <2>1. Below(off[c] + 1) \subseteq settled[at[c]] \cup {off[c]}
    BY <1>1, CoveredNext DEF Covered
  <2>2. QED BY <1>2, <2>1
<1>4. UNCHANGED <<owner, phase, lo, hi, position>>
  BY DEF Advance, broker
<1>5. CASE off[c] + 1 < hi[c][at[c]]
  <2>1. NextRecord(c)
    BY <1>5 DEF Advance
  <2>2. /\ off'[c] = off[c] + 1 /\ off[c] + 1 \in Offsets
        /\ UNCHANGED <<mark, todo, at>>
    BY <1>1, <1>5, <2>1, ConsumerAssumption DEF TypeOK, NextRecord, Offsets
  <2>3. Batch(c)' = Batch(c) /\ Owned(c)' = Owned(c)
    BY <1>4 DEF Batch, Owned
  <2>4. \A p \in Partitions : \A m : Covered(p, m) => Covered(p, m)'
    BY <1>2 DEF Covered
  <2>5. LoopInv(c)'
    <3>1. lo[c][at[c]] <= off[c] + 1
      BY <1>1, ConsumerAssumption DEF TypeOK, Offsets
    <3>2. Covered(at[c], off[c])'
      BY <1>3, <2>2 DEF Covered
    <3>3. QED BY <1>1, <1>4, <1>5, <2>2, <2>3, <3>1, <3>2
              DEF ConsumerInv, LoopInv, Busy
  <2>6. MarkInv(c)'
    BY <1>4, <2>2, <2>4 DEF ConsumerInv, MarkInv
  <2>7. PositionInv(c)' /\ LostInv(c)'
    BY <1>4, <2>2, <2>3, <2>4 DEF ConsumerInv, PositionInv, LostInv, Owned
  <2>8. QED BY <2>5, <2>6, <2>7 DEF ConsumerInv
<1>6. CASE ~(off[c] + 1 < hi[c][at[c]])
  <2>1. hi[c][at[c]] = off[c] + 1 /\ hi[c][at[c]] \in 0 .. LogLen
    BY <1>1, <1>6, ConsumerAssumption DEF TypeOK, Offsets
  <2>2. LeavePartition(c, hi[c][at[c]])
    BY <1>6 DEF Advance
  <2>3. owner[at[c]] = c => Below(position'[c][at[c]]) \subseteq settled'[at[c]]
    <3>1. SUFFICES ASSUME at[c] \in Owned(c)
                   PROVE  Below(position'[c][at[c]]) \subseteq settled'[at[c]]
      BY <1>1 DEF Owned
    <3>2. \/ Covered(at[c], position[c][at[c]])
          \/ position[c][at[c]] = off[c] + 1
      BY <2>1, <3>1 DEF ConsumerInv, PositionInv
    <3>3. QED BY <1>1, <1>2, <1>3, <1>4, <3>2 DEF Covered
  <2>4. QED BY <1>2, <1>3, <1>4, <2>1, <2>2, <2>3, LeaveInv
<1>7. QED BY <1>5, <1>6

\* The steps of one member keep its own invariant.
LEMMA ActorInv ==
  ASSUME TypeOK, NoLoss, NEW c \in Consumers, ConsumerInv(c),
         Start(c) \/ Crash(c) \/ Work(c)
  PROVE  ConsumerInv(c)'
<1>0. LoopInv(c) /\ MarkInv(c) /\ PositionInv(c) /\ LostInv(c)
  BY DEF ConsumerInv
<1>1. CASE Start(c)
  <2>1. /\ phase[c] = "down" /\ phase'[c] = "poll"
        /\ UNCHANGED <<owner, position, lo, hi, mark, todo, at, off, settled>>
    BY <1>1 DEF Start, broker, batch, TypeOK
  <2>2. QED BY <1>0, <2>1 DEF ConsumerInv, LoopInv, MarkInv, PositionInv,
                              LostInv, Batch, Owned, Covered
<1>2. CASE Crash(c)
  <2>1. \A p \in Partitions : owner'[p] # c
    BY <1>2, ConsumerAssumption DEF Crash
  <2>2. Idle(c) /\ phase'[c] = "down"
    BY <1>2 DEF Crash, TypeOK
  <2>3. QED BY <2>1, <2>2, IdleInv
<1>3. CASE EmptyPoll(c)
  BY <1>0, <1>3 DEF EmptyPoll, vars, ConsumerInv, LoopInv, MarkInv, PositionInv,
                    LostInv, Batch, Owned, Covered
<1>4. CASE Fetch(c)
  <2>1. PICK n \in [Partitions -> 0 .. BatchSize] :
          /\ \A p \in Partitions : n[p] > 0 => p \in Owned(c)
          /\ LET first == [p \in Partitions |->
                             IF n[p] > 0 THEN position[c][p] ELSE 0]
             IN  /\ lo'   = [lo   EXCEPT ![c] = first]
                 /\ mark' = [mark EXCEPT ![c] = first]
                 /\ hi'   = [hi EXCEPT ![c] =
                               [p \in Partitions |-> first[p] + n[p]]]
          /\ position' = [position EXCEPT ![c] =
                            [p \in Partitions |-> position[c][p] + n[p]]]
          /\ todo' = [todo EXCEPT ![c] = {p \in Partitions : n[p] > 0}]
    BY <1>4 DEF Fetch
  <2>2. /\ phase[c] = "poll" /\ phase'[c] = "batch"
        /\ UNCHANGED <<owner, at, off, settled>>
    BY <1>4 DEF Fetch, broker, TypeOK
  <2>3. \A p \in Partitions :
          /\ lo'[c][p] = IF n[p] > 0 THEN position[c][p] ELSE 0
          /\ mark'[c][p] = lo'[c][p]
          /\ hi'[c][p] = lo'[c][p] + n[p]
          /\ position'[c][p] = position[c][p] + n[p]
          /\ n[p] \in Nat /\ position[c][p] \in Nat
    BY <2>1, ConsumerAssumption DEF TypeOK
  <2>4. todo'[c] = {p \in Partitions : n[p] > 0}
    BY <2>1 DEF TypeOK
  <2>5. Batch(c)' = todo'[c] /\ Batch(c)' \subseteq Owned(c)'
    BY <2>1, <2>2, <2>3, <2>4 DEF Batch, Owned
  <2>6. todo[c] = {} /\ at[c] = None
    BY <1>0, <2>2 DEF LoopInv
  <2>7. \A p \in Owned(c) : Covered(p, position[c][p])
    BY <2>6, RestCovered
  <2>8. LoopInv(c)'
    BY <2>2, <2>3, <2>4, <2>5, <2>6 DEF LoopInv
  <2>9. MarkInv(c)'
    BY <2>1, <2>2, <2>3, <2>7, CoveredZero DEF MarkInv, Covered
  <2>10. PositionInv(c)'
    <3>1. SUFFICES ASSUME NEW p \in Owned(c)
                   PROVE  \/ Below(position'[c][p]) \subseteq settled'[p]
                          \/ p \in todo'[c] /\ position'[c][p] = hi'[c][p]
      BY <2>2 DEF PositionInv, Owned, Covered
    <3>2. p \in Partitions
      BY DEF Owned
    <3>3. CASE n[p] > 0
      BY <2>3, <2>4, <3>2, <3>3
    <3>4. CASE ~(n[p] > 0)
      <4>1. position'[c][p] = position[c][p]
        BY <2>3, <3>2, <3>4
      <4>2. QED BY <2>2, <2>7, <4>1 DEF Covered
    <3>5. QED BY <3>3, <3>4
  <2>11. LostInv(c)'
    BY <2>5 DEF LostInv
  <2>12. QED BY <2>8, <2>9, <2>10, <2>11 DEF ConsumerInv
<1>5. CASE Begin(c)
  <2>1. PICK p \in todo[c] : /\ at' = [at EXCEPT ![c] = p]
                             /\ off' = [off EXCEPT ![c] = lo[c][p]]
    BY <1>5 DEF Begin
  <2>2. UNCHANGED <<owner, position, phase, lo, hi, mark, todo, settled>>
    BY <1>5 DEF Begin, broker
  <2>3. /\ p \in Batch(c) /\ p \in Partitions
        /\ at'[c] = p /\ off'[c] = lo[c][p] /\ phase[c] = "batch"
    BY <1>0, <1>5, <2>1 DEF LoopInv, Batch, TypeOK, Begin
  <2>4. lo[c][p] \in Offsets /\ lo[c][p] < hi[c][p] /\ lo[c][p] <= lo[c][p]
    BY <2>3, ConsumerAssumption DEF Batch, TypeOK, Offsets
  <2>5. LoopInv(c)'
    BY <1>0, <2>1, <2>2, <2>3, <2>4 DEF LoopInv, MarkInv, Batch, Covered
  <2>6. QED BY <1>0, <2>2, <2>5
            DEF ConsumerInv, MarkInv, PositionInv, LostInv, Batch, Owned, Covered
<1>6. CASE Handle(c)
  BY <1>6, AdvanceInv DEF Handle
<1>7. CASE HandlerFails(c)
  BY <1>0, <1>7 DEF HandlerFails, broker, ConsumerInv, LoopInv, MarkInv,
                    PositionInv, LostInv, Batch, Owned, Covered
<1>8. CASE Park(c)
  BY <1>8, AdvanceInv DEF Park, Exhausted
<1>9. CASE Block(c)
  <2>1. /\ Busy(c) /\ at[c] \in Partitions /\ off[c] \in 0 .. LogLen
        /\ Covered(at[c], off[c])
    BY <1>0, <1>9 DEF Block, Exhausted, Busy, LoopInv, Batch, TypeOK
  <2>2. UNCHANGED <<owner, settled>>
    BY <1>9 DEF Block, broker
  <2>3. CASE owner[at[c]] = c
    <3>1. /\ position' = [position EXCEPT ![c][at[c]] = off[c]]
          /\ LeavePartition(c, off[c])
          /\ UNCHANGED <<phase, lo, hi>>
      BY <1>9, <2>3 DEF Block
    <3>2. \A p \in Partitions :
            position'[c][p] = IF p = at[c] THEN off[c] ELSE position[c][p]
      BY <2>1, <3>1 DEF TypeOK
    <3>3. QED BY <2>1, <2>2, <3>1, <3>2, LeaveInv DEF Covered
  <2>4. CASE owner[at[c]] # c
    <3>1. Rewind(c, mark[c]) /\ mark[c] \in [Partitions -> 0 .. LogLen]
      BY <1>9, <2>4 DEF Block, TypeOK
    <3>2. \A p \in Partitions : Covered(p, mark[c][p])
      BY <1>0 DEF MarkInv
    <3>3. QED BY <2>2, <3>1, <3>2, RewindInv
  <2>5. QED BY <2>3, <2>4
<1>10. CASE NoCommit(c)
  <2>1. /\ Idle(c) /\ phase'[c] = "poll" /\ todo[c] = {}
        /\ UNCHANGED <<owner, position, settled>>
    BY <1>10 DEF NoCommit, Finished, broker, TypeOK
  <2>2. QED BY <2>1, RestCovered, IdleInv DEF Owned, Covered
<1>11. CASE SendCommit(c)
  <2>1. /\ phase'[c] = "commit" /\ todo[c] = {} /\ at[c] = None
        /\ UNCHANGED <<owner, position, lo, hi, mark, todo, at, off, settled>>
    BY <1>11 DEF SendCommit, Finished, broker, batch, TypeOK
  <2>2. QED BY <1>0, <2>1 DEF ConsumerInv, LoopInv, MarkInv, PositionInv,
                              LostInv, Batch, Owned, Covered
<1>12. CASE CommitOk(c)
  <2>1. /\ Idle(c) /\ phase'[c] = "poll" /\ todo[c] = {}
        /\ UNCHANGED <<owner, position, settled>>
    BY <1>0, <1>12 DEF CommitOk, LoopInv, TypeOK
  <2>2. QED BY <2>1, RestCovered, IdleInv DEF Owned, Covered
<1>13. CASE CommitFails(c)
  <2>1. Rewind(c, lo[c]) /\ lo[c] \in [Partitions -> 0 .. LogLen]
    BY <1>13 DEF CommitFails, TypeOK
  <2>2. \A p \in Partitions : Covered(p, lo[c][p])
    BY <1>0 DEF MarkInv
  <2>3. UNCHANGED <<owner, settled>>
    BY <1>13 DEF CommitFails
  <2>4. QED BY <2>1, <2>2, <2>3, RewindInv
<1>14. QED
  BY <1>1, <1>2, <1>3, <1>4, <1>5, <1>6, <1>7, <1>8, <1>9, <1>10, <1>11, <1>12,
     <1>13 DEF Work

\* The steps of one member leave the state of the others alone.
LEMMA OthersUntouched ==
  ASSUME TypeOK, NEW c \in Consumers, NEW d \in Consumers, d # c,
         Start(c) \/ Crash(c) \/ Work(c)
  PROVE  /\ \A p \in Partitions : owner'[p] = d <=> owner[p] = d
         /\ phase'[d] = phase[d] /\ position'[d] = position[d]
         /\ lo'[d] = lo[d] /\ hi'[d] = hi[d] /\ mark'[d] = mark[d]
         /\ todo'[d] = todo[d] /\ at'[d] = at[d] /\ off'[d] = off[d]
<1> USE DEF TypeOK, broker, batch, budget
<1>1. CASE Start(c)
  BY <1>1 DEF Start
<1>2. CASE Crash(c)
  BY <1>2, ConsumerAssumption DEF Crash, Idle
<1>3. CASE EmptyPoll(c)
  BY <1>3 DEF EmptyPoll, vars
<1>4. CASE Fetch(c)
  BY <1>4 DEF Fetch
<1>5. CASE Begin(c)
  BY <1>5 DEF Begin
<1>6. CASE Handle(c) \/ Park(c)
  BY <1>6 DEF Handle, Park, Advance, NextRecord, LeavePartition
<1>7. CASE HandlerFails(c)
  BY <1>7 DEF HandlerFails
<1>8. CASE Block(c)
  BY <1>8 DEF Block, LeavePartition, Rewind, Idle
<1>9. CASE NoCommit(c) \/ SendCommit(c)
  BY <1>9 DEF NoCommit, SendCommit, Idle
<1>10. CASE CommitOk(c) \/ CommitFails(c)
  BY <1>10 DEF CommitOk, CommitFails, Rewind, Idle
<1>11. QED
  BY <1>1, <1>2, <1>3, <1>4, <1>5, <1>6, <1>7, <1>8, <1>9, <1>10 DEF Work

\* How a member changes what is settled and committed: it settles the record
\* under its cursor, or it records its covered marks, or neither.
LEMMA BrokerStep ==
  ASSUME TypeOK, NEW c \in Consumers, ConsumerInv(c),
         Start(c) \/ Crash(c) \/ Work(c)
  PROVE  \/ /\ at[c] \in Partitions /\ off[c] \in Offsets
            /\ Covered(at[c], off[c])
            /\ settled' = [settled EXCEPT ![at[c]] = @ \cup {off[c]}]
            /\ UNCHANGED committed
         \/ /\ Record(c)
            /\ \A p \in Partitions : Covered(p, mark[c][p])
            /\ UNCHANGED settled
         \/ UNCHANGED <<settled, committed>>
<1> USE DEF broker, batch, budget
<1>1. CASE Handle(c) \/ Park(c)
  BY <1>1 DEF Handle, Park, Exhausted, Busy, Advance, ConsumerInv, LoopInv, Batch
<1>2. CASE CommitOk(c) \/ CommitFails(c)
  BY <1>2 DEF CommitOk, CommitFails, ConsumerInv, MarkInv
<1>3. CASE Start(c) \/ Crash(c) \/ EmptyPoll(c) \/ Fetch(c) \/ Begin(c)
  BY <1>3 DEF Start, Crash, EmptyPoll, Fetch, Begin, vars
<1>4. CASE HandlerFails(c) \/ Block(c) \/ NoCommit(c) \/ SendCommit(c)
  BY <1>4 DEF HandlerFails, Block, NoCommit, SendCommit
<1>5. QED BY <1>1, <1>2, <1>3, <1>4 DEF Work

LEMMA IInvInit == Init => IInv
  BY CoveredZero, ConsumerAssumption
     DEF Init, IInv, NoLoss, ConsumerInv, LoopInv, MarkInv, PositionInv, LostInv,
         Batch, Owned, Covered, Below, Offsets

LEMMA IInvStep ==
  ASSUME TypeOK, IInv, [Next]_vars
  PROVE  IInv'
<1>1. CASE UNCHANGED vars
  <2>1. NoLoss'
    BY <1>1 DEF vars, IInv, NoLoss, Covered
  <2>2. \A c \in Consumers : LoopInv(c)' /\ MarkInv(c)'
    BY <1>1 DEF vars, IInv, ConsumerInv, LoopInv, MarkInv, Batch, Owned, Covered
  <2>3. \A c \in Consumers : PositionInv(c)' /\ LostInv(c)'
    BY <1>1 DEF vars, IInv, ConsumerInv, PositionInv, LostInv, Batch, Owned, Covered
  <2>4. QED
    BY <2>1, <2>2, <2>3 DEF IInv, ConsumerInv
<1>2. CASE Rebalance
  <2>1. /\ UNCHANGED <<committed, phase, lo, hi, mark, todo, at, off, settled>>
        /\ \A c \in Consumers : \A p \in Partitions :
             position'[c][p] = committed[p] \/ position'[c][p] = 0
    BY <1>2 DEF Rebalance, batch
  <2>2. \A c \in Consumers : \A p \in Partitions : Covered(p, position[c][p])'
    BY <2>1, CoveredZero DEF IInv, NoLoss, Covered
  <2>3. ASSUME NEW c \in Consumers PROVE ConsumerInv(c)'
    BY <2>1, <2>2 DEF IInv, ConsumerInv, LoopInv, MarkInv, PositionInv, LostInv,
                      Batch, Owned, Covered
  <2>4. QED BY <2>1, <2>3 DEF IInv, NoLoss
<1>3. ASSUME NEW c \in Consumers, Start(c) \/ Crash(c) \/ Work(c)
      PROVE  IInv'
  <2>1. ConsumerInv(c)'
    BY <1>3, ActorInv DEF IInv
  <2>2. \A p \in Partitions : settled[p] \subseteq settled'[p]
    <3>1. \/ \E p \in Partitions, o \in Offsets :
                settled' = [settled EXCEPT ![p] = @ \cup {o}]
          \/ UNCHANGED settled
      BY <1>3, BrokerStep DEF IInv
    <3>2. QED BY <3>1 DEF TypeOK
  <2>3. ASSUME NEW d \in Consumers, d # c PROVE ConsumerInv(d)'
    BY <1>3, <2>2, <2>3, OthersUntouched, Frame DEF IInv
  <2>4. NoLoss'
    BY <1>3, <2>2, BrokerStep DEF IInv, NoLoss, Record, Covered
  <2>5. QED BY <2>1, <2>3, <2>4 DEF IInv
<1>4. QED BY <1>1, <1>2, <1>3 DEF Next

\* Type correctness and the strengthening of NoLoss, for every constant.
THEOREM Invariance == Spec => [](TypeOK /\ IInv)
<1>1. Init => TypeOK /\ IInv
  BY TypeOKInit, IInvInit
<1>2. TypeOK /\ IInv /\ [Next]_vars => (TypeOK /\ IInv)'
  BY TypeOKStep, IInvStep DEF IInv, ConsumerInv
<1>3. QED BY <1>1, <1>2, PTL DEF Spec

\* No crash, rebalance, failed commit or failed DLQ publish commits past a
\* message that is neither handled nor parked.
THEOREM NoLossHolds == Spec => []NoLoss
<1>1. IInv => NoLoss
  BY DEF IInv
<1>2. QED BY <1>1, Invariance, PTL

\* Between batches no fetch position is past an unsettled message.
THEOREM NothingSkippedHolds == Spec => []NothingSkipped
<1>1. IInv => NothingSkipped
  BY DEF IInv, ConsumerInv, LoopInv, PositionInv, NothingSkipped, Covered
<1>2. QED BY <1>1, Invariance, PTL

\* The group implements at-least-once delivery in partition order.
THEOREM DeliveryHolds == Spec => ImplementsDelivery
<1>1. Init => D!Init
  BY DEF Init, D!Init
<1>2. ASSUME TypeOK, IInv, [Next]_vars
      PROVE  [D!Next]_<<settled, committed>>
  <2>1. ASSUME NEW c \in Consumers, Start(c) \/ Crash(c) \/ Work(c)
        PROVE  [D!Next]_<<settled, committed>>
    <3>1. CASE /\ at[c] \in Partitions /\ off[c] \in Offsets
               /\ Covered(at[c], off[c])
               /\ settled' = [settled EXCEPT ![at[c]] = @ \cup {off[c]}]
               /\ UNCHANGED committed
      <4>1. CASE off[c] \in settled[at[c]]
        <5>1. settled[at[c]] \cup {off[c]} = settled[at[c]]
          BY <4>1
        <5>2. settled' = settled
          BY <1>2, <3>1, <5>1 DEF TypeOK
        <5>3. QED BY <3>1, <5>2
      <4>2. CASE off[c] \notin settled[at[c]]
        <5>1. D!Settle(at[c])
          BY <3>1, <4>2
             DEF D!Settle, Covered, Offsets, Below, D!Offsets, D!Below
        <5>2. QED BY <3>1, <5>1 DEF D!Next
      <4>3. QED BY <4>1, <4>2
    <3>2. CASE /\ Record(c)
               /\ \A p \in Partitions : Covered(p, mark[c][p])
               /\ UNCHANGED settled
      <4>1. D!Commit
        <5>1. mark[c] \in [Partitions -> 0 .. LogLen]
          BY <1>2 DEF TypeOK
        <5>2. committed' \in [Partitions -> 0 .. LogLen]
          BY <1>2, <3>2, <5>1 DEF Record, TypeOK
        <5>3. \A p \in Partitions :
                \/ committed'[p] = committed[p]
                \/ Below(committed'[p]) \subseteq settled[p]
          BY <3>2 DEF Record, Covered
        <5>4. QED BY <3>2, <5>2, <5>3
                  DEF D!Commit, Offsets, Below, D!Offsets, D!Below
      <4>2. QED BY <4>1 DEF D!Next
    <3>3. CASE UNCHANGED <<settled, committed>>
      BY <3>3
    <3>4. QED BY <1>2, <2>1, <3>1, <3>2, <3>3, BrokerStep DEF IInv
  <2>2. CASE Rebalance
    BY <2>2 DEF Rebalance
  <2>3. CASE UNCHANGED vars
    BY <2>3 DEF vars
  <2>4. QED BY <1>2, <2>1, <2>2, <2>3 DEF Next
<1>3. QED BY <1>1, <1>2, Invariance, PTL DEF Spec, D!Spec, ImplementsDelivery

-----------------------------------------------------------------------------
(* While the assignment stands.                                            *)

Calm == crashes + rebalances = 0

\* The first assignment is of every partition.
AssignedAtOnce ==
  (\A p \in Partitions : owner[p] # None) \/ (\A p \in Partitions : owner[p] = None)

\* A member works on what it owns, from where the broker stands; a partition
\* that is done has its position where its mark is, the others at their end.
InReach(c) ==
  /\ Batch(c) \subseteq Owned(c)
  /\ \A p \in Partitions :
       /\ lo[c][p] <= mark[c][p]
       /\ p \in Batch(c) => lo[c][p] <= committed[p]
       /\ p \in Batch(c) \ todo[c] => position[c][p] = mark[c][p]
       /\ p \in todo[c] => position[c][p] = hi[c][p]
       /\ p \notin Batch(c) => mark[c][p] = lo[c][p]
  /\ \A p \in Owned(c) \ Batch(c) : position[c][p] <= committed[p]

CalmInv == Calm => AssignedAtOnce /\ \A c \in Consumers : InReach(c)

\* A member that is done with its batch is in reach when its positions are.
LEMMA IdleInReach ==
  ASSUME TypeOK, NEW c \in Consumers, Idle(c),
         \A p \in Partitions : owner'[p] = c => position'[c][p] <= committed'[p]
  PROVE  InReach(c)'
<1>1. /\ \A p \in Partitions : lo'[c][p] = 0 /\ hi'[c][p] = 0 /\ mark'[c][p] = 0
      /\ todo'[c] = {}
  BY DEF TypeOK, Idle
<1>2. Batch(c)' = {}
  BY <1>1 DEF Batch
<1>3. QED
  BY <1>1, <1>2 DEF InReach, Owned

\* The inner loop of a partition ends at n, and so does its position.
LEMMA LeaveInReach ==
  ASSUME TypeOK, NEW c \in Consumers, LoopInv(c), InReach(c), Busy(c),
         NEW n \in 0 .. LogLen, LeavePartition(c, n), lo[c][at[c]] <= n,
         UNCHANGED <<owner, committed, lo, hi>>, position'[c][at[c]] = n,
         \A p \in Partitions : p # at[c] => position'[c][p] = position[c][p]
  PROVE  InReach(c)'
<1>1. at[c] \in Partitions /\ at[c] \in todo[c] /\ at[c] \in Batch(c)
  BY DEF LoopInv, Busy, Batch
<1>2. /\ todo'[c] = todo[c] \ {at[c]}
      /\ \A p \in Partitions : mark'[c][p] = IF p = at[c] THEN n ELSE mark[c][p]
  BY <1>1 DEF TypeOK, LeavePartition
<1>3. Batch(c)' = Batch(c) /\ Owned(c)' = Owned(c)
  BY DEF Batch, Owned
<1>4. ASSUME NEW p \in Partitions
      PROVE  /\ lo'[c][p] <= mark'[c][p]
             /\ p \in Batch(c) => lo'[c][p] <= committed'[p]
             /\ p \in Batch(c) \ todo'[c] => position'[c][p] = mark'[c][p]
             /\ p \in todo'[c] => position'[c][p] = hi'[c][p]
             /\ p \notin Batch(c) => mark'[c][p] = lo'[c][p]
  <2>1. CASE p = at[c]
    BY <1>1, <1>2, <2>1 DEF InReach
  <2>2. CASE p # at[c]
    BY <1>2, <2>2 DEF InReach
  <2>3. QED
    BY <2>1, <2>2
<1>5. \A p \in Owned(c) \ Batch(c) : position'[c][p] <= committed'[p]
  BY <1>1 DEF InReach, Owned
<1>6. QED
  BY <1>3, <1>4, <1>5 DEF InReach

LEMMA AdvanceInReach ==
  ASSUME TypeOK, NEW c \in Consumers, LoopInv(c), InReach(c), Busy(c), Advance(c)
  PROVE  InReach(c)'
<1>1. /\ at[c] \in Partitions /\ at[c] \in todo[c] /\ hi[c][at[c]] \in 0 .. LogLen
      /\ lo[c][at[c]] < hi[c][at[c]]
  BY DEF TypeOK, LoopInv, Busy, Batch
<1>2. UNCHANGED <<owner, committed, position, lo, hi>>
  BY DEF Advance, broker
<1>3. CASE off[c] + 1 < hi[c][at[c]]
  <2>1. UNCHANGED <<mark, todo>>
    BY <1>3 DEF Advance, NextRecord
  <2>2. QED
    BY <1>2, <2>1 DEF InReach, Batch, Owned
<1>4. CASE ~(off[c] + 1 < hi[c][at[c]])
  <2>1. LeavePartition(c, hi[c][at[c]])
    BY <1>4 DEF Advance
  <2>2. position'[c][at[c]] = hi[c][at[c]]
    BY <1>1, <1>2 DEF InReach
  <2>3. lo[c][at[c]] <= hi[c][at[c]]
    BY <1>1, ConsumerAssumption DEF TypeOK
  <2>4. QED
    BY <1>1, <1>2, <2>1, <2>2, <2>3, LeaveInReach
<1>5. QED
  BY <1>3, <1>4

\* The steps of one member, none of which is a crash.
LEMMA ActorInReach ==
  ASSUME TypeOK, NEW c \in Consumers, LoopInv(c), InReach(c), Start(c) \/ Work(c)
  PROVE  InReach(c)' /\ owner' = owner
<1> USE DEF broker, batch, budget
<1>1. CASE Start(c) \/ EmptyPoll(c) \/ Begin(c) \/ HandlerFails(c) \/ SendCommit(c)
  <2>1. UNCHANGED <<owner, committed, position, lo, hi, mark, todo>>
    BY <1>1 DEF Start, EmptyPoll, Begin, HandlerFails, SendCommit, vars
  <2>2. QED
    BY <2>1 DEF InReach, Batch, Owned
<1>2. CASE Handle(c) \/ Park(c)
  <2>1. Busy(c) /\ Advance(c)
    BY <1>2 DEF Handle, Park, Exhausted
  <2>2. owner' = owner
    BY <2>1 DEF Advance
  <2>3. QED
    BY <2>1, <2>2, AdvanceInReach
<1>3. CASE Fetch(c)
  <2>1. PICK n \in [Partitions -> 0 .. BatchSize] :
          /\ \A p \in Partitions : n[p] > 0 => p \in Owned(c)
          /\ LET first == [p \in Partitions |->
                             IF n[p] > 0 THEN position[c][p] ELSE 0]
             IN  /\ lo'   = [lo   EXCEPT ![c] = first]
                 /\ mark' = [mark EXCEPT ![c] = first]
                 /\ hi'   = [hi EXCEPT ![c] =
                               [p \in Partitions |-> first[p] + n[p]]]
          /\ position' = [position EXCEPT ![c] =
                            [p \in Partitions |-> position[c][p] + n[p]]]
          /\ todo' = [todo EXCEPT ![c] = {p \in Partitions : n[p] > 0}]
    BY <1>3 DEF Fetch
  <2>2. phase[c] = "poll" /\ UNCHANGED <<owner, committed>>
    BY <1>3 DEF Fetch
  <2>3. \A p \in Partitions :
          /\ lo'[c][p] = IF n[p] > 0 THEN position[c][p] ELSE 0
          /\ mark'[c][p] = lo'[c][p]
          /\ hi'[c][p] = lo'[c][p] + n[p]
          /\ position'[c][p] = position[c][p] + n[p]
          /\ n[p] \in Nat /\ position[c][p] \in Nat
    BY <2>1, ConsumerAssumption DEF TypeOK
  <2>4. todo'[c] = {p \in Partitions : n[p] > 0}
    BY <2>1 DEF TypeOK
  <2>5. Batch(c)' = todo'[c] /\ Owned(c)' = Owned(c)
    BY <2>2, <2>3, <2>4 DEF Batch, Owned
  <2>6. \A p \in Owned(c) : position[c][p] <= committed[p]
    BY <2>2 DEF LoopInv, InReach
  <2>7. Batch(c)' \subseteq Owned(c)'
    BY <2>1, <2>4, <2>5
  <2>8. ASSUME NEW p \in Partitions
        PROVE  /\ lo'[c][p] <= mark'[c][p]
               /\ p \in todo'[c] => lo'[c][p] <= committed'[p] /\ position'[c][p] = hi'[c][p]
               /\ p \in Owned(c) \ todo'[c] => position'[c][p] <= committed'[p]
    BY <2>1, <2>2, <2>3, <2>4, <2>6
  <2>9. QED
    BY <2>2, <2>3, <2>5, <2>7, <2>8 DEF InReach, Owned
<1>4. CASE Block(c)
  <2>1. /\ Busy(c) /\ at[c] \in Partitions /\ off[c] \in 0 .. LogLen
        /\ lo[c][at[c]] <= off[c] /\ at[c] \in Batch(c)
    BY <1>4 DEF Block, Exhausted, Busy, LoopInv, Batch, TypeOK
  <2>2. owner[at[c]] = c
    BY <2>1 DEF InReach, Owned
  <2>3. /\ position' = [position EXCEPT ![c][at[c]] = off[c]]
        /\ LeavePartition(c, off[c])
        /\ UNCHANGED <<owner, committed, lo, hi>>
    BY <1>4, <2>2 DEF Block
  <2>4. \A p \in Partitions :
          position'[c][p] = IF p = at[c] THEN off[c] ELSE position[c][p]
    BY <2>1, <2>3 DEF TypeOK
  <2>5. QED
    BY <2>1, <2>3, <2>4, LeaveInReach
<1>5. CASE NoCommit(c)
  <2>1. Idle(c) /\ todo[c] = {} /\ Marked(c) = {} /\ UNCHANGED <<owner, committed, position>>
    BY <1>5 DEF NoCommit, Finished
  <2>2. \A p \in Partitions : owner[p] = c => position[c][p] <= committed[p]
    BY <2>1 DEF InReach, Marked, Owned
  <2>3. QED
    BY <2>1, <2>2, IdleInReach
<1>6. CASE CommitOk(c)
  <2>1. Idle(c) /\ todo[c] = {} /\ Record(c) /\ UNCHANGED <<owner, position>>
    BY <1>6 DEF CommitOk, LoopInv
  <2>2. ASSUME NEW p \in Partitions, owner[p] = c
        PROVE  position[c][p] <= committed'[p]
    <3>1. position[c][p] \in Nat /\ committed'[p] = IF p \in Marked(c) THEN mark[c][p] ELSE committed[p]
      BY <2>1 DEF Record, TypeOK
    <3>2. CASE p \in Marked(c)
      BY <2>1, <3>1, <3>2 DEF InReach, Marked
    <3>3. CASE p \notin Marked(c)
      BY <2>1, <2>2, <3>1, <3>3 DEF InReach, Marked, Owned
    <3>4. QED
      BY <3>2, <3>3
  <2>3. QED
    BY <2>1, <2>2, IdleInReach
<1>7. CASE CommitFails(c)
  <2>1. todo[c] = {} /\ (Record(c) \/ UNCHANGED committed) /\ owner' = owner
    BY <1>7 DEF CommitFails, LoopInv
  <2>2. Rewind(c, lo[c]) /\ Batch(c) \subseteq Owned(c)
    BY <1>7 DEF CommitFails, InReach
  <2>3. /\ Idle(c)
        /\ position' = [position EXCEPT ![c] =
                          [p \in Partitions |-> IF p \in Batch(c) THEN lo[c][p] ELSE @[p]]]
    BY <2>2 DEF Rewind
  <2>4. ASSUME NEW p \in Partitions, owner[p] = c
        PROVE  position'[c][p] <= committed'[p]
    <3>1. position'[c][p] = IF p \in Batch(c) THEN lo[c][p] ELSE position[c][p]
      BY <2>3 DEF TypeOK
    <3>2. CASE p \in Batch(c)
      <4>1. lo[c][p] <= committed[p] /\ lo[c][p] <= mark[c][p]
        BY <3>2 DEF InReach
      <4>2. QED
        BY <2>1, <3>1, <3>2, <4>1 DEF Record
    <3>3. CASE p \notin Batch(c)
      <4>1. position[c][p] <= committed[p] /\ p \notin Marked(c)
        BY <2>4, <3>3 DEF InReach, Owned, Marked
      <4>2. QED
        BY <2>1, <3>1, <3>3, <4>1 DEF Record
    <3>4. QED
      BY <3>2, <3>3
  <2>5. QED
    BY <2>1, <2>3, <2>4, IdleInReach
<1>8. QED
  BY <1>1, <1>2, <1>3, <1>4, <1>5, <1>6, <1>7 DEF Work

\* A commit of one member moves no partition of another.
LEMMA OthersInReach ==
  ASSUME TypeOK, NEW c \in Consumers, NEW d \in Consumers, d # c, InReach(d), ConsumerInv(c),
         Start(c) \/ Work(c), owner' = owner
  PROVE  InReach(d)'
<1>1. /\ position'[d] = position[d] /\ lo'[d] = lo[d] /\ hi'[d] = hi[d]
      /\ mark'[d] = mark[d] /\ todo'[d] = todo[d]
  BY OthersUntouched
<1>2. Record(c) \/ committed' = committed
  BY BrokerStep
<1>3. \A p \in Owned(d) : committed'[p] = committed[p]
  BY <1>2 DEF Record, Owned
<1>4. Batch(d)' = Batch(d) /\ Owned(d)' = Owned(d)
  BY <1>1 DEF Batch, Owned
<1>5. QED
  BY <1>1, <1>3, <1>4 DEF InReach

LEMMA CalmStep ==
  ASSUME TypeOK, IInv, CalmInv, [Next]_vars
  PROVE  CalmInv'
<1> SUFFICES ASSUME Calm'
             PROVE  AssignedAtOnce' /\ \A c \in Consumers : InReach(c)'
  BY DEF CalmInv
<1>1. CASE UNCHANGED vars
  <2>1. Calm /\ UNCHANGED <<committed, owner, position, lo, hi, mark, todo>>
    BY <1>1 DEF vars, Calm
  <2>2. QED
    BY <2>1 DEF CalmInv, AssignedAtOnce, InReach, Batch, Owned
<1>2. CASE Rebalance
  <2>1. rebalances' = rebalances /\ Calm /\ \E p \in Partitions : owner[p] = None
    BY <1>2 DEF Rebalance, Calm, TypeOK
  <2>2. /\ UNCHANGED <<committed, lo, hi, mark, todo>>
        /\ owner' \in [Partitions -> Live]
        /\ \A c \in Consumers, p \in Partitions :
              position'[c][p] = IF owner'[p] = c THEN committed[p] ELSE 0
    BY <1>2 DEF Rebalance, batch
  <2>3. AssignedAtOnce'
    BY <2>2, ConsumerAssumption DEF AssignedAtOnce, Live
  <2>4. ASSUME NEW c \in Consumers PROVE InReach(c)'
    <3>1. \A p \in Partitions : owner[p] = None
      BY <2>1 DEF CalmInv, AssignedAtOnce
    <3>2. InReach(c)
      BY <2>1 DEF CalmInv
    <3>3. Batch(c) = {} /\ todo[c] = {}
      BY <3>1, <3>2, ConsumerAssumption DEF InReach, Owned, IInv, ConsumerInv, LoopInv
    <3>4. Batch(c)' = {} /\ todo'[c] = {}
      BY <2>2, <3>3 DEF Batch
    <3>5. \A p \in Owned(c)' : position'[c][p] <= committed'[p]
      BY <2>2, ConsumerAssumption DEF Owned, TypeOK
    <3>6. \A p \in Partitions : mark'[c][p] = lo'[c][p] /\ lo'[c][p] <= mark'[c][p]
      BY <2>2, <3>2, <3>3 DEF InReach
    <3>7. QED
      BY <3>4, <3>5, <3>6 DEF InReach
  <2>5. QED
    BY <2>3, <2>4
<1>3. ASSUME NEW c \in Consumers, Crash(c) PROVE FALSE
  <2>1. crashes' = crashes + 1 /\ rebalances' = rebalances /\ crashes \in Nat /\ rebalances \in Nat
    BY <1>3 DEF Crash, TypeOK
  <2>2. QED
    BY <2>1 DEF Calm
<1>4. ASSUME NEW c \in Consumers, Start(c) \/ Work(c)
      PROVE  AssignedAtOnce' /\ \A d \in Consumers : InReach(d)'
  <2>1. UNCHANGED <<crashes, rebalances>>
    BY <1>4 DEF Start, Work, EmptyPoll, Fetch, Begin, Handle, Advance, HandlerFails, Park, Block,
                NoCommit, SendCommit, CommitOk, CommitFails, budget, vars
  <2>2. AssignedAtOnce /\ \A d \in Consumers : InReach(d)
    BY <2>1 DEF CalmInv, Calm
  <2>3. InReach(c)' /\ owner' = owner
    BY <1>4, <2>2, ActorInReach DEF IInv, ConsumerInv
  <2>4. \A d \in Consumers : d # c => InReach(d)'
    BY <1>4, <2>2, <2>3, OthersInReach DEF IInv
  <2>5. QED
    BY <2>2, <2>3, <2>4 DEF AssignedAtOnce
<1>5. QED
  BY <1>1, <1>2, <1>3, <1>4 DEF Next

\* _commit, _rewind: while nobody died and nothing was reassigned, a member
\* between two batches has read no further than the broker has recorded.
THEOREM NothingUncommittedHolds == Spec => []NothingUncommitted
<1>1. Init => CalmInv
  BY DEF Init, CalmInv, AssignedAtOnce, InReach, Batch, Owned
<1>2. TypeOK /\ IInv /\ CalmInv /\ [Next]_vars => CalmInv'
  BY CalmStep
<1>3. TypeOK /\ IInv /\ CalmInv => NothingUncommitted
  BY DEF IInv, ConsumerInv, LoopInv, CalmInv, Calm, InReach, NothingUncommitted
<1>4. QED
  BY <1>1, <1>2, <1>3, Invariance, PTL DEF Spec

=============================================================================
