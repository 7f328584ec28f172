-------------------------- MODULE Investigation_proofs --------------------------
(***************************************************************************)
(* Proofs about an investigation.  Of its row and its steps, for any number *)
(* of concurrent callers and any step budget; of a run of it, for any       *)
(* number of replicas of the worker, requests to cancel and node events;    *)
(* and of the agent graph it runs, for any ceiling, deadline, grace, number *)
(* of revisions, plans and critiques.                                       *)
(*                                                                          *)
(* What makes the stale reads of the row harmless is Reads: a transition    *)
(* that was begun may still be written only if the status it read is the    *)
(* current one, a live status tells whether the run had started, and the    *)
(* sequence number an append has read can only be the next one or be taken. *)
(***************************************************************************)
EXTENDS InvestigationRun, AgentGraph, FiniteSetTheorems, TLAPS

Reads ==
  \A c \in Callers : call[c] # None =>
    /\ call[c].op = "transition" =>
         /\ Permitted(call[c].read, call[c].target)
         /\ call[c].target \in Targets
         /\ call[c].begun <=> call[c].read # "queued"
    /\ call[c].op = "append" => call[c].sequence <= stepCount
    /\ call[c].op = "step" => call[c].sequence < stepCount

Stamps == status = "queued" => ~started

IInv == TypeOK /\ ColumnsAgree /\ Stamps /\ StepsDense /\ Reads

\* What a call in flight looks like, by its kind.
LEMMA CallKinds ==
  ASSUME TypeOK, NEW c \in Callers, call[c] # None
  PROVE  /\ call[c].op = "transition" =>
              /\ call[c].target \in Statuses /\ call[c].read \in Statuses
              /\ call[c].begun \in BOOLEAN
         /\ call[c].op = "append" => call[c].sequence \in Sequences
         /\ call[c].op = "step" => /\ call[c].sequence \in Sequences
                                   /\ call[c].target \in StepStatuses
                                   /\ call[c].moves \in BOOLEAN
BY DEF TypeOK, Calls

LEMMA InitIInv == Init => IInv
<1> SUFFICES ASSUME Init PROVE IInv
  OBVIOUS
<1>1. call \in [Callers -> Calls]
  BY DEF Init, Calls
<1>2. status \in Statuses /\ started \in BOOLEAN /\ completed \in BOOLEAN /\ error \in BOOLEAN
  BY DEF Init, Statuses
<1>3. TypeOK
  BY <1>1, <1>2, ServiceAssumption DEF Init, TypeOK
<1>4. ColumnsAgree /\ Stamps
  BY DEF Init, ColumnsAgree, Stamps, Final
<1>5. StepsDense
  BY ServiceAssumption DEF Init, StepsDense, Steps, Sequences
<1>6. Reads
  BY DEF Init, Reads
<1> QED
  BY <1>3, <1>4, <1>5, <1>6 DEF IInv

\* A call that begins reads the row as it is.
LEMMA BeginPreserves ==
  ASSUME IInv, NEW c \in Callers, NEW k \in Calls,
         call' = [call EXCEPT ![c] = k],
         UNCHANGED <<header, plans, work>>,
         k # None =>
           /\ k.op = "transition" =>
                /\ Permitted(k.read, k.target) /\ k.target \in Targets
                /\ k.begun <=> k.read # "queued"
           /\ k.op = "append" => k.sequence <= stepCount
           /\ k.op = "step" => k.sequence < stepCount
  PROVE  IInv'
<1>1. TypeOK'
  BY DEF IInv, TypeOK, header, work
<1>2. ColumnsAgree' /\ Stamps' /\ StepsDense'
  BY DEF IInv, ColumnsAgree, Stamps, StepsDense, Steps, Sequences, header, work
<1>3. Reads'
  BY DEF IInv, TypeOK, Reads, Permitted, work, header
<1> QED
  BY <1>1, <1>2, <1>3 DEF IInv

\* A call that returns leaves the other calls' reads true if no step is lost.
LEMMA ReturnPreservesReads ==
  ASSUME IInv, NEW c \in Callers, Return(c), stepCount' \in Nat, stepCount <= stepCount'
  PROVE  Reads' /\ call' \in [Callers -> Calls]
<1>1. call' \in [Callers -> Calls]
  BY DEF IInv, TypeOK, Return, Calls
<1>2. ASSUME NEW d \in Callers, call'[d] # None
      PROVE  /\ call'[d].op = "transition" =>
                  /\ Permitted(call'[d].read, call'[d].target)
                  /\ call'[d].target \in Targets
                  /\ call'[d].begun <=> call'[d].read # "queued"
             /\ call'[d].op = "append" => call'[d].sequence <= stepCount'
             /\ call'[d].op = "step" => call'[d].sequence < stepCount'
  <2>1. d # c /\ call'[d] = call[d]
    BY <1>2 DEF IInv, TypeOK, Return
  <2>2. call[d] # None
    BY <1>2, <2>1
  <2>3. stepCount \in Nat
    BY DEF IInv, TypeOK
  <2>4. /\ call[d].op = "append" => call[d].sequence \in Nat
        /\ call[d].op = "step" => call[d].sequence \in Nat
    BY <2>2, CallKinds DEF IInv, Sequences
  <2>5. /\ call[d].op = "transition" =>
             /\ Permitted(call[d].read, call[d].target)
             /\ call[d].target \in Targets
             /\ call[d].begun <=> call[d].read # "queued"
        /\ call[d].op = "append" => call[d].sequence <= stepCount
        /\ call[d].op = "step" => call[d].sequence < stepCount
    BY <2>2 DEF IInv, Reads
  <2> QED
    BY <2>1, <2>3, <2>4, <2>5
<1> QED
  BY <1>1, <1>2 DEF Reads

\* What the compare-and-swap does to the status.
LEMMA SwapIsLegal ==
  ASSUME IInv, NEW c \in Callers, WriteStatus(c), status' # status
  PROVE  status' \in Successors[status]
<1>1. call[c] # None /\ call[c].op = "transition"
  BY DEF WriteStatus, TransitionValues
<1>2. status = call[c].read /\ status' = call[c].target
  BY DEF WriteStatus, TransitionValues, Unmoved, header
<1>3. Permitted(call[c].read, call[c].target)
  BY <1>1 DEF IInv, Reads
<1> QED
  BY <1>2, <1>3 DEF Permitted

LEMMA WriteStatusPreserves ==
  ASSUME IInv, NEW c \in Callers, WriteStatus(c)
  PROVE  IInv'
<1> USE DEF IInv
<1>1. UNCHANGED <<plans, stepCount, step, tokens>> /\ Return(c)
  BY DEF WriteStatus, TransitionValues, work
<1>2. stepCount \in Nat
  BY DEF TypeOK
<1>3. Reads' /\ call' \in [Callers -> Calls]
  BY <1>1, <1>2, ReturnPreservesReads
<1>4. StepsDense'
  BY <1>1 DEF StepsDense, Steps
<1>5. CASE ~Unmoved(c)
  <2>1. UNCHANGED header
    BY <1>5 DEF WriteStatus, TransitionValues
  <2> QED
    BY <2>1, <1>1, <1>3, <1>4 DEF TypeOK, ColumnsAgree, Stamps, header
<1>6. CASE Unmoved(c)
  <2> DEFINE t == call[c].target
  <2>1. call[c] # None /\ call[c].op = "transition"
    BY DEF WriteStatus, TransitionValues
  <2>2. /\ status = call[c].read
        /\ t \in Statuses /\ t # "queued"
        /\ call[c].begun \in BOOLEAN /\ (call[c].begun <=> status # "queued")
    BY <1>6, <2>1, CallKinds DEF Reads, Unmoved, Targets
  <2>3. Permitted(status, t)
    BY <2>1, <2>2 DEF Reads
  <2>4. /\ status' = t
        /\ started' = (started \/ (t \in {"planning", "running"} /\ ~call[c].begun))
        /\ completed' = (completed \/ (t \in Final /\ call[c].begun))
        /\ error' = IF t \in Final THEN t \in {"failed", "cancelled"} ELSE error
    BY <1>6 DEF WriteStatus, TransitionValues
  <2>5. started <=> call[c].begun
    BY <2>2, <2>3 DEF TypeOK, ColumnsAgree, Stamps, Permitted, Statuses
  <2>6. ~completed /\ ~error
    BY <2>2, <2>3 DEF TypeOK, ColumnsAgree, Permitted, Final
  <2>7. TypeOK'
    <3>1. started' \in BOOLEAN /\ completed' \in BOOLEAN
      BY <2>4
    <3>2. error' \in BOOLEAN
      <4>1. error \in BOOLEAN
        BY DEF TypeOK
      <4>2. CASE t \in Final
        <5>1. error' = (t \in {"failed", "cancelled"})
          BY <2>4, <4>2
        <5> QED
          BY <5>1
      <4>3. CASE t \notin Final
        BY <2>4, <4>1, <4>3
      <4> QED
        BY <4>2, <4>3
    <3> QED
      BY <1>1, <1>3, <2>2, <2>4, <3>1, <3>2 DEF TypeOK
  <2>8. ~call[c].begun => t # "reflecting"
    BY <2>2, <2>3 DEF Permitted, Successors, Statuses, Final
  <2>9. ColumnsAgree' /\ Stamps'
    BY <2>2, <2>4, <2>5, <2>6, <2>8 DEF ColumnsAgree, Stamps, TypeOK, Statuses, Final
  <2> QED
    BY <2>7, <2>9, <1>3, <1>4
<1> QED
  BY <1>5, <1>6

LEMMA InsertPreserves ==
  ASSUME IInv, NEW c \in Callers, InsertStep(c)
  PROVE  IInv'
<1> USE DEF IInv
<1> DEFINE n == call[c].sequence
<1>1. call[c] # None /\ call[c].op = "append" /\ Return(c)
      /\ UNCHANGED <<status, started, completed, error, plans, tokens>>
  BY DEF InsertStep, header
<1>2. n \in Sequences /\ n <= stepCount /\ stepCount \in Nat
  BY <1>1, CallKinds DEF Reads, TypeOK
<1>3. ColumnsAgree' /\ Stamps'
  BY <1>1 DEF ColumnsAgree, Stamps
<1>4. CASE ~Free(n)
  <2>1. UNCHANGED <<stepCount, step>>
    BY <1>4 DEF InsertStep
  <2>2. Reads' /\ call' \in [Callers -> Calls]
    BY <1>1, <1>2, <2>1, ReturnPreservesReads
  <2> QED
    BY <1>1, <1>3, <2>1, <2>2 DEF TypeOK, StepsDense, Steps
<1>5. CASE Free(n)
  <2>1. step' = [step EXCEPT ![n] = "pending"] /\ stepCount' = stepCount + 1
    BY <1>5 DEF InsertStep
  <2>2. n = stepCount
    BY <1>2, <1>5 DEF Free, StepsDense, Steps, Sequences
  <2>3. stepCount' \in 0 .. MaxSteps
    BY <1>2, <2>1, <2>2, ServiceAssumption DEF Sequences
  <2>4. Reads' /\ call' \in [Callers -> Calls]
    BY <1>1, <1>2, <2>1, ReturnPreservesReads
  <2>5. TypeOK'
    BY <1>1, <1>2, <2>1, <2>3, <2>4 DEF TypeOK, StepStatuses
  <2>6. Steps' = Steps \cup {n}
    BY <1>2, <2>1, ServiceAssumption DEF Steps, TypeOK, StepStatuses
  <2>7. StepsDense'
    BY <1>2, <2>1, <2>2, <2>3, <2>6 DEF StepsDense, Sequences
  <2> QED
    BY <1>3, <2>4, <2>5, <2>7
<1> QED
  BY <1>4, <1>5

LEMMA WriteStepPreserves ==
  ASSUME IInv, NEW c \in Callers, WriteStep(c)
  PROVE  IInv'
<1> USE DEF IInv
<1> DEFINE n == call[c].sequence
<1>1. call[c] # None /\ call[c].op = "step" /\ Return(c)
      /\ UNCHANGED <<status, started, completed, error, plans, stepCount>>
  BY DEF WriteStep, header
<1>2. n \in Sequences /\ n < stepCount /\ call[c].target \in StepStatuses /\ stepCount \in Nat
  BY <1>1, CallKinds DEF Reads, TypeOK
<1>3. step' = IF call[c].moves THEN [step EXCEPT ![n] = call[c].target] ELSE step
  BY DEF WriteStep
<1>4. tokens' \in Nat
  BY DEF WriteStep, TypeOK
<1>5. Reads' /\ call' \in [Callers -> Calls]
  BY <1>1, <1>2, ReturnPreservesReads
<1>6. TypeOK'
  BY <1>1, <1>2, <1>3, <1>4, <1>5 DEF TypeOK
<1>7. n \in Steps
  BY <1>2 DEF StepsDense
<1>8. Steps' = Steps
  BY <1>2, <1>3, <1>7, ServiceAssumption DEF Steps, TypeOK
<1>9. ColumnsAgree' /\ Stamps' /\ StepsDense'
  BY <1>1, <1>8 DEF ColumnsAgree, Stamps, StepsDense
<1> QED
  BY <1>5, <1>6, <1>9

-----------------------------------------------------------------------------

LEMMA NextPreserves == IInv /\ [Next]_vars => IInv'
<1> SUFFICES ASSUME IInv, [Next]_vars PROVE IInv'
  OBVIOUS
<1>1. ASSUME NEW c \in Callers, NEW t \in Targets, ReadStatus(c, t) PROVE IInv'
  <2> DEFINE k == [op |-> "transition", target |-> t, read |-> status, begun |-> started]
  <2>1. call' = [call EXCEPT ![c] = k] /\ UNCHANGED <<header, plans, work>> /\ Permitted(status, t)
    BY <1>1 DEF ReadStatus
  <2>2. k \in Calls
    BY DEF Calls, IInv, TypeOK, Targets
  <2>3. started <=> status # "queued"
    BY <2>1 DEF IInv, TypeOK, ColumnsAgree, Stamps, Permitted, Statuses
  <2>4. k # None =>
           /\ k.op = "transition" =>
                /\ Permitted(k.read, k.target) /\ k.target \in Targets
                /\ k.begun <=> k.read # "queued"
           /\ k.op = "append" => k.sequence <= stepCount
           /\ k.op = "step" => k.sequence < stepCount
    BY <2>1, <2>3
  <2> QED
    BY <2>1, <2>2, <2>4, BeginPreserves
<1>2. ASSUME NEW c \in Callers, ReadForPlan(c) PROVE IInv'
  <2> DEFINE k == [op |-> "plan"]
  <2>1. call' = [call EXCEPT ![c] = k] /\ UNCHANGED <<header, plans, work>>
    BY <1>2 DEF ReadForPlan
  <2>2. k \in Calls
    BY DEF Calls
  <2>3. k # None =>
           /\ k.op = "transition" =>
                /\ Permitted(k.read, k.target) /\ k.target \in Targets
                /\ k.begun <=> k.read # "queued"
           /\ k.op = "append" => k.sequence <= stepCount
           /\ k.op = "step" => k.sequence < stepCount
    OBVIOUS
  <2> QED
    BY <2>1, <2>2, <2>3, BeginPreserves
<1>3. ASSUME NEW c \in Callers, ReadForAppend(c) PROVE IInv'
  <2> DEFINE k == [op |-> "append", sequence |-> stepCount]
  <2>1. /\ call' = [call EXCEPT ![c] = k] /\ UNCHANGED <<header, plans, work>>
        /\ stepCount \in Sequences
    BY <1>3, ServiceAssumption DEF ReadForAppend, WithinBudget, IInv, TypeOK, Sequences
  <2>2. k \in Calls
    BY <2>1 DEF Calls
  <2>3. k # None =>
           /\ k.op = "transition" =>
                /\ Permitted(k.read, k.target) /\ k.target \in Targets
                /\ k.begun <=> k.read # "queued"
           /\ k.op = "append" => k.sequence <= stepCount
           /\ k.op = "step" => k.sequence < stepCount
    BY <2>1, ServiceAssumption DEF Sequences
  <2> QED
    BY <2>1, <2>2, <2>3, BeginPreserves
<1>4. ASSUME NEW c \in Callers, NEW n \in Sequences, NEW t \in StepTargets, ReadStep(c, n, t)
      PROVE IInv'
  <2> DEFINE k == [op |-> "step", sequence |-> n, target |-> t, moves |-> t # step[n]]
  <2>1. call' = [call EXCEPT ![c] = k] /\ UNCHANGED <<header, plans, work>> /\ n \in Steps
    BY <1>4 DEF ReadStep
  <2>2. k \in Calls
    BY DEF Calls, StepTargets, StepStatuses, StepFinal
  <2>3. n < stepCount
    BY <2>1 DEF IInv, StepsDense
  <2>4. k # None =>
           /\ k.op = "transition" =>
                /\ Permitted(k.read, k.target) /\ k.target \in Targets
                /\ k.begun <=> k.read # "queued"
           /\ k.op = "append" => k.sequence <= stepCount
           /\ k.op = "step" => k.sequence < stepCount
    BY <2>3
  <2> QED
    BY <2>1, <2>2, <2>4, BeginPreserves
<1>5. ASSUME NEW c \in Callers, WritePlan(c) PROVE IInv'
  <2>1. UNCHANGED <<header, work>> /\ Return(c) /\ plans' \in 0 .. MaxPlans
    BY <1>5, ServiceAssumption DEF WritePlan, IInv, TypeOK
  <2>2. stepCount \in Nat /\ stepCount' = stepCount
    BY <2>1 DEF IInv, TypeOK, work
  <2>3. Reads' /\ call' \in [Callers -> Calls]
    BY <2>1, <2>2, ReturnPreservesReads
  <2> QED
    BY <2>1, <2>3 DEF IInv, TypeOK, ColumnsAgree, Stamps, StepsDense, Steps, header, work
<1>6. CASE UNCHANGED vars
  BY <1>6 DEF vars, IInv, TypeOK, ColumnsAgree, Stamps, StepsDense, Steps, Reads
<1> QED
  BY <1>1, <1>2, <1>3, <1>4, <1>5, <1>6, WriteStatusPreserves, InsertPreserves,
     WriteStepPreserves DEF Next

LEMMA Inductive == Spec => []IInv
<1> QED
  BY InitIInv, NextPreserves, PTL DEF Spec

\* The end of a run is stamped if and only if it had started, and explained if
\* and only if it went wrong, whatever requests to start, cancel, complete and
\* fail it raced each other.
THEOREM ColumnsAgreeHolds == Spec => []ColumnsAgree
<1>1. IInv => ColumnsAgree
  BY DEF IInv
<1> QED
  BY <1>1, Inductive, PTL

\* append_step numbers the steps 0, 1, 2 ... without a hole or a double, never
\* beyond the budget, and step_count counts them, for any number of appenders.
THEOREM StepsDenseHolds == Spec => []StepsDense
<1>1. IInv => StepsDense
  BY DEF IInv
<1> QED
  BY <1>1, Inductive, PTL

\* The compare-and-swap of transition: no interleaving of callers moves the row
\* other than along ALLOWED_TRANSITIONS, so a terminal status stands for ever.
THEOREM LegalMovesHold == Spec => LegalMoves
<1>1. IInv /\ [Next]_vars => [status' # status => status' \in Successors[status]]_vars
  <2> SUFFICES ASSUME IInv, Next, status' # status
               PROVE  status' \in Successors[status]
    BY DEF vars
  <2>1. PICK c \in Callers : WriteStatus(c)
    BY DEF Next, ReadStatus, ReadForPlan, WritePlan, ReadForAppend, InsertStep,
           ReadStep, WriteStep, header
  <2> QED
    BY <2>1, SwapIsLegal
<1> QED
  BY <1>1, Inductive, PTL DEF Spec, LegalMoves

\* Every column and every call in flight keeps its type; no constraint of the
\* tables is ever violated by a value.
THEOREM TypeCorrect == Spec => []TypeOK
<1>1. IInv => TypeOK
  BY DEF IInv
<1> QED
  BY <1>1, Inductive, PTL
-----------------------------------------------------------------------------
(* InvestigationRun.                                                        *)

Phases == {"idle", "claimed", "driving", "ending", "failing", "told", "failed"}

RunTypes ==
  /\ status \in Statuses /\ started \in BOOLEAN
  /\ phase \in [Workers -> Phases]
  /\ call \in [Callers -> Calls]

\* A claim finds the run queued, and nothing queues it again.
QueuedIsFree == status = "queued" => \A w \in Workers : phase[w] = "idle"

Alone == \A v, w \in Workers : phase[v] # "idle" /\ phase[w] # "idle" => v = w

\* A request to cancel has read a live status.
CancelReads ==
  \A c \in Callers : call[c] # None /\ call[c].op = "transition" =>
    call[c].read \notin Final /\ call[c].target = "cancelled"

\* Between the row and the stream, the row holds what the stream will say.
RowGoesFirst ==
  \A w \in Workers :
    /\ phase[w] \in {"ending", "told"} => outcome \in Outcomes
    /\ phase[w] = "told" => status = Recorded(outcome)
    /\ phase[w] = "failed" => status = "failed"

\* The end is the last thing a task says.
SaidIsOver ==
  hubEnd # None =>
    /\ status = hubEnd /\ status \in Final
    /\ \A w \in Workers : phase[w] = "idle"

RunInv == RunTypes /\ QueuedIsFree /\ Alone /\ CancelReads /\ RowGoesFirst /\ SaidIsOver

LEMMA RunInvInit == RunInit => RunInv
<1> SUFFICES ASSUME RunInit PROVE RunInv
  OBVIOUS
<1>1. RunTypes
  <2>1. call \in [Callers -> Calls]
    BY DEF RunInit, Init, Calls
  <2>2. QED
    BY <2>1 DEF RunInit, Init, RunTypes, Statuses, Phases
<1>2. QED
  BY <1>1 DEF RunInit, Init, RunInv, QueuedIsFree, Alone, CancelReads, RowGoesFirst, SaidIsOver

\* A request to cancel never moves a row that has ended.
LEMMA CancelKeeps ==
  ASSUME RunInv, NEW c \in Callers, Cancel(c)
  PROVE  RunInv'
<1>1. UNCHANGED <<phase, outcome, hubEnd>>
  BY DEF Cancel, drive, hub
<1>2. CASE ReadStatus(c, "cancelled")
  <2> DEFINE k == [op |-> "transition", target |-> "cancelled", read |-> status, begun |-> started]
  <2>1. /\ status \notin Final /\ UNCHANGED <<status, started>> /\ call' = [call EXCEPT ![c] = k]
    BY <1>2 DEF ReadStatus, Permitted, header
  <2>2. k.op = "transition" /\ k.read = status /\ k.target = "cancelled"
    OBVIOUS
  <2> HIDE DEF k
  <2>3. \A d \in Callers : call'[d] = IF d = c THEN k ELSE call[d]
    BY <2>1 DEF RunInv, RunTypes
  <2>4. CancelReads'
    BY <2>1, <2>2, <2>3 DEF RunInv, CancelReads
  <2>5. call' \in [Callers -> Calls]
    <3>1. k \in [op : {"transition"}, target : Statuses, read : Statuses, begun : BOOLEAN]
      BY DEF k, RunInv, RunTypes, Statuses, Final
    <3>2. k \in Calls
      BY <3>1 DEF Calls
    <3>3. QED
      BY <2>1, <3>2 DEF RunInv, RunTypes
  <2>6. QED
    BY <1>1, <2>1, <2>4, <2>5
       DEF RunInv, RunTypes, QueuedIsFree, Alone, RowGoesFirst, SaidIsOver
<1>3. CASE WriteStatus(c)
  <2>1. /\ call[c] # None /\ call[c].op = "transition" /\ call' = [call EXCEPT ![c] = None]
        /\ status' = IF status = call[c].read THEN call[c].target ELSE status
    BY <1>3 DEF WriteStatus, Return, Unmoved, TransitionValues, header
  <2>2. status' = status \/ (status \notin Final /\ status' = "cancelled")
    <3>1. call[c].read \notin Final /\ call[c].target = "cancelled"
      BY <2>1 DEF RunInv, CancelReads
    <3>2. QED
      BY <2>1, <3>1
  <2>3. \A d \in Callers : call'[d] = IF d = c THEN None ELSE call[d]
    BY <2>1 DEF RunInv, RunTypes
  <2>4. CancelReads'
    BY <2>3 DEF RunInv, CancelReads
  <2>5. RunTypes'
    <3>1. None \in Calls
      BY DEF Calls
    <3>2. started' \in BOOLEAN
      BY <1>3 DEF WriteStatus, TransitionValues, RunInv, RunTypes, header
    <3>3. status' \in Statuses
      BY <2>2 DEF RunInv, RunTypes, Statuses, Final
    <3>4. QED
      BY <1>1, <2>1, <3>1, <3>2, <3>3 DEF RunInv, RunTypes
  <2>6. RowGoesFirst'
    BY <1>1, <2>2 DEF RunInv, RowGoesFirst, Recorded, Final
  <2>7. QED
    BY <1>1, <2>2, <2>4, <2>5, <2>6 DEF RunInv, QueuedIsFree, Alone, SaidIsOver, Final
<1>4. QED
  BY <1>2, <1>3 DEF Cancel

\* A step of one task that writes neither the row nor the stream's end.
LEMMA TaskMoves ==
  ASSUME RunInv, NEW w \in Workers, NEW p \in Phases, phase' = [phase EXCEPT ![w] = p],
         phase[w] # "idle", UNCHANGED <<status, started, call>>,
         hubEnd' = hubEnd,
         p \in {"ending", "told"} => outcome' \in Outcomes,
         p = "told" => status = Recorded(outcome'),
         p = "failed" => status = "failed"
  PROVE  RunInv'
<1>1. phase' \in [Workers -> Phases] /\ phase'[w] = p /\ \A v \in Workers : v # w => phase'[v] = "idle"
  BY DEF RunInv, RunTypes, Alone
<1>2. RowGoesFirst'
  BY <1>1 DEF RowGoesFirst
<1>3. QueuedIsFree' /\ Alone'
  BY <1>1 DEF RunInv, QueuedIsFree, Alone
<1>4. SaidIsOver'
  BY DEF RunInv, SaidIsOver
<1>5. QED
  BY <1>1, <1>2, <1>3, <1>4 DEF RunInv, RunTypes, CancelReads

\* A task writes how the run ended.
LEMMA FinishKeeps ==
  ASSUME RunInv, NEW w \in Workers, phase[w] # "idle", UNCHANGED <<started, call, outcome, hubEnd>>,
         \/ /\ phase[w] = "ending"
            /\ status' = Recorded(outcome) /\ phase' = [phase EXCEPT ![w] = "told"]
         \/ status' = "failed" /\ phase' = [phase EXCEPT ![w] = "failed"]
  PROVE  RunInv'
<1>1. /\ phase' \in [Workers -> Phases] /\ phase'[w] \in {"told", "failed"}
      /\ \A v \in Workers : v # w => phase'[v] = "idle"
  BY DEF RunInv, RunTypes, Alone, Phases
<1>2. status' \in Final
  BY DEF Recorded, Final
<1>3. RowGoesFirst'
  BY <1>1 DEF RunInv, RunTypes, RowGoesFirst
<1>4. QueuedIsFree' /\ Alone'
  BY <1>1, <1>2 DEF RunInv, QueuedIsFree, Alone, Final
<1>5. SaidIsOver'
  BY DEF RunInv, SaidIsOver
<1>6. QED
  BY <1>1, <1>2, <1>3, <1>4, <1>5 DEF RunInv, RunTypes, CancelReads, Statuses

\* A task tells the stream how the run ended, and is over.
LEMMA SayKeeps ==
  ASSUME RunInv, NEW w \in Workers, NEW seq, NEW end \in Final,
         phase[w] # "idle", status = end, Publish(seq, end),
         phase' = [phase EXCEPT ![w] = "idle"],
         UNCHANGED <<status, started, call, outcome>>
  PROVE  RunInv'
<1>1. phase' \in [Workers -> Phases] /\ \A v \in Workers : phase'[v] = "idle"
  BY DEF RunInv, RunTypes, Alone, Phases
<1>2. hubEnd' \in {hubEnd, end} /\ hubEnd = None
  BY DEF Publish, hub, RunInv, SaidIsOver
<1>3. SaidIsOver'
  BY <1>1, <1>2 DEF SaidIsOver
<1>4. RowGoesFirst' /\ QueuedIsFree' /\ Alone'
  BY <1>1 DEF RowGoesFirst, QueuedIsFree, Alone
<1>5. QED
  BY <1>1, <1>3, <1>4 DEF RunInv, RunTypes, CancelReads

LEMMA RunInvStep == RunInv /\ [RunNext]_runVars => RunInv'
<1> SUFFICES ASSUME RunInv, [RunNext]_runVars PROVE RunInv'
  OBVIOUS
<1>1. CASE UNCHANGED runVars
  BY <1>1 DEF runVars, RunInv, RunTypes, QueuedIsFree, Alone, CancelReads, RowGoesFirst, SaidIsOver
<1>2. ASSUME NEW w \in Workers, Claim(w)
      PROVE  RunInv'
  <2>1. /\ status = "queued" /\ status' = "planning" /\ started' = TRUE
        /\ phase' = [phase EXCEPT ![w] = "claimed"]
        /\ UNCHANGED <<call, outcome, hubEnd>>
    BY <1>2 DEF Claim, Claimable, hub
  <2>2. /\ phase' \in [Workers -> Phases] /\ phase'[w] = "claimed"
        /\ \A v \in Workers : v # w => phase'[v] = "idle"
    BY <2>1 DEF RunInv, RunTypes, QueuedIsFree, Phases
  <2>3. hubEnd = None
    BY <2>1 DEF RunInv, SaidIsOver, Final
  <2>4. SaidIsOver' /\ RowGoesFirst' /\ QueuedIsFree' /\ Alone'
    BY <2>1, <2>2, <2>3 DEF SaidIsOver, RowGoesFirst, QueuedIsFree, Alone
  <2>5. QED
    BY <2>1, <2>2, <2>4 DEF RunInv, RunTypes, CancelReads, Statuses
<1>3. ASSUME NEW w \in Workers, Begin(w) \/ NodeDone(w) \/ GraphEnds(w) \/ Raise(w) \/ Die(w)
      PROVE  RunInv'
  <2>1. hubEnd' = hubEnd /\ UNCHANGED <<status, started, call>>
    BY <1>3 DEF Begin, NodeDone, GraphEnds, Raise, Die, Publish, hub, header
  <2>2. CASE GraphEnds(w)
    BY <2>1, <2>2, TaskMoves DEF GraphEnds, Phases
  <2>3. CASE NodeDone(w)
    BY <2>1, <2>3
       DEF NodeDone, RunInv, RunTypes, QueuedIsFree, Alone, CancelReads, RowGoesFirst, SaidIsOver
  <2>4. CASE Begin(w) \/ Raise(w) \/ Die(w)
    <3>1. PICK p \in {"driving", "failing", "idle"} : phase' = [phase EXCEPT ![w] = p]
      BY <2>4 DEF Begin, Raise, Die
    <3>2. phase[w] # "idle"
      BY <2>4 DEF Begin, Raise, Die
    <3>3. QED
      BY <2>1, <3>1, <3>2, TaskMoves DEF Phases
  <2>5. QED
    BY <1>3, <2>2, <2>3, <2>4
<1>4. ASSUME NEW w \in Workers, FinishOk(w) \/ FinishFailed(w)
      PROVE  RunInv'
  BY <1>4, FinishKeeps DEF FinishOk, FinishFailed, hub
<1>5. ASSUME NEW w \in Workers, EmitDone(w)
      PROVE  RunInv'
  <2>1. status = Recorded(outcome) /\ Recorded(outcome) \in Final
    BY <1>5 DEF EmitDone, RunInv, RowGoesFirst, Recorded, Final
  <2>2. QED
    BY <1>5, <2>1, SayKeeps DEF EmitDone, header
<1>6. ASSUME NEW w \in Workers, EmitError(w)
      PROVE  RunInv'
  <2>1. status = "failed" /\ "failed" \in Final
    BY <1>6 DEF EmitError, RunInv, RowGoesFirst, Final
  <2>2. QED
    BY <1>6, <2>1, SayKeeps DEF EmitError, header
<1>7. QED
  BY <1>1, <1>2, <1>3, <1>4, <1>5, <1>6, CancelKeeps DEF RunNext, Drive

LEMMA RunInvAlways == RunSpec => []RunInv
  BY RunInvInit, RunInvStep, PTL DEF RunSpec

\* investigation_worker.py, the claim: however many replicas poll and however
\* many tasks die, no two tasks ever drive the run at once.
THEOREM OneDriverHolds == RunSpec => []OneDriver
<1>1. RunInv => OneDriver
  <2> SUFFICES ASSUME RunInv PROVE OneDriver
    OBVIOUS
  <2> DEFINE S == {w \in Workers : phase[w] # "idle"}
  <2>1. CASE S = {}
    BY <2>1, FS_EmptySet DEF OneDriver
  <2>2. CASE S # {}
    <3>1. PICK w \in Workers : S = {w}
      BY <2>2 DEF RunInv, Alone
    <3>2. QED
      BY <3>1, FS_Singleton DEF OneDriver
  <2>3. QED
    BY <2>1, <2>2
<1>2. QED
  BY <1>1, RunInvAlways, PTL

\* _finish before _emit, and the compare-and-swap of cancel: once the stream
\* said how the run ended the row says the same for ever, whoever cancelled,
\* crashed or raised meanwhile.
THEOREM StreamAgreesHolds == RunSpec => []StreamAgreesWithRow
<1>1. RunInv => StreamAgreesWithRow
  BY DEF RunInv, SaidIsOver, StreamAgreesWithRow
<1>2. QED
  BY <1>1, RunInvAlways, PTL

-----------------------------------------------------------------------------
(* A run implements RunRecord.                                              *)

\* The row while a task is at work: no result is in it before the task's own.
Ledger ==
  /\ status \in {"queued", "planning"} \cup Final
  /\ status = "queued" => ~started
  /\ \A w \in Workers :
       /\ phase[w] # "idle" => started
       /\ phase[w] \in {"claimed", "driving", "ending", "failing"} => status \in {"planning", "cancelled"}

LedgerTypes == started \in BOOLEAN /\ hubSeq \in Int /\ driveSeq \in [Workers -> Nat] /\ execSeq \in [Workers -> Nat]

RecordInv == Ledger /\ LedgerTypes

LEMMA RecordInvInit == RunInit => RecordInv
<1> SUFFICES ASSUME RunInit PROVE RecordInv
  OBVIOUS
<1>1. /\ status = "queued" /\ started = FALSE /\ hubSeq = -1 /\ -1 \in Int
      /\ \A w \in Workers : phase[w] = "idle"
  BY DEF RunInit, Init
<1>2. driveSeq \in [Workers -> Nat] /\ execSeq \in [Workers -> Nat]
  BY DEF RunInit
<1>3. QED
  BY <1>1, <1>2 DEF RecordInv, Ledger, LedgerTypes

\* A request to cancel writes nothing, or the end of a run that was live.
LEMMA CancelIs ==
  ASSUME RunInv, NEW c \in Callers, Cancel(c)
  PROVE  /\ UNCHANGED <<phase, driveSeq, execSeq, outcome, hubSeq, hubEnd, started>>
         /\ status' = status \/ (status \notin Final /\ status' = "cancelled")
<1>1. CASE ReadStatus(c, "cancelled")
  BY <1>1 DEF Cancel, ReadStatus, header, drive, hub
<1>2. CASE WriteStatus(c)
  <2>1. call[c].read \notin Final /\ call[c].target = "cancelled"
    BY <1>2 DEF WriteStatus, RunInv, CancelReads
  <2>2. /\ status' = IF status = call[c].read THEN "cancelled" ELSE status
        /\ started' = started
    BY <1>2, <2>1 DEF WriteStatus, Unmoved, TransitionValues, header, RunInv, RunTypes
  <2>3. QED
    BY <2>1, <2>2 DEF Cancel, drive, hub
<1>3. QED
  BY <1>1, <1>2 DEF Cancel

\* Whatever the hub does with an event, its sequence goes forward.
LEMMA PublishIs ==
  ASSUME NEW seq, NEW e, Publish(seq, e), hubSeq \in Int, seq \in Int
  PROVE  \/ UNCHANGED <<hubSeq, hubEnd>>
         \/ hubSeq' = seq /\ seq > hubSeq /\ hubEnd' = IF e = None THEN hubEnd ELSE e
  BY DEF Publish, hub

LEMMA RecordStep == RunInv /\ RecordInv /\ [RunNext]_runVars => RecordInv'
<1> SUFFICES ASSUME RunInv, RecordInv, [RunNext]_runVars PROVE RecordInv'
  OBVIOUS
<1>0. /\ phase \in [Workers -> Phases] /\ hubSeq \in Int
      /\ driveSeq \in [Workers -> Nat] /\ execSeq \in [Workers -> Nat]
  BY DEF RunInv, RunTypes, RecordInv, LedgerTypes
<1>1. CASE UNCHANGED runVars
  BY <1>1 DEF runVars, RecordInv, Ledger, LedgerTypes
<1>2. ASSUME NEW c \in Callers, Cancel(c) PROVE RecordInv'
  BY <1>2, CancelIs DEF RecordInv, Ledger, LedgerTypes, Final
<1>3. ASSUME NEW w \in Workers, Claim(w) PROVE RecordInv'
  <2>1. /\ status = "queued" /\ status' = "planning" /\ started' = TRUE
        /\ phase' = [phase EXCEPT ![w] = "claimed"]
        /\ UNCHANGED <<driveSeq, execSeq, hubSeq>>
    BY <1>3 DEF Claim, Claimable, hub
  <2>2. QED
    BY <1>0, <2>1 DEF RecordInv, Ledger, LedgerTypes
<1>4. ASSUME NEW w \in Workers, Drive(w) \/ Die(w) PROVE RecordInv'
  <2>1. /\ phase[w] # "idle" /\ started' = started
        /\ \A v \in Workers : v # w => phase[v] = "idle" /\ phase'[v] = "idle"
    BY <1>0, <1>4 DEF Drive, Die, Begin, NodeDone, GraphEnds, Raise, FinishOk, FinishFailed,
                      EmitDone, EmitError, header, RunInv, Alone
  <2>2. LedgerTypes'
    <3>1. hubSeq' \in Int
      BY <1>0, <1>4, PublishIs DEF Drive, Die, Begin, NodeDone, GraphEnds, Raise, FinishOk,
                      FinishFailed, EmitDone, EmitError, hub
    <3>2. driveSeq' \in [Workers -> Nat] /\ execSeq' \in [Workers -> Nat]
      BY <1>0, <1>4 DEF Drive, Die, Begin, NodeDone, GraphEnds, Raise, FinishOk,
                      FinishFailed, EmitDone, EmitError
    <3>3. QED
      BY <2>1, <3>1, <3>2 DEF RecordInv, LedgerTypes
  <2>3. Ledger'
    <3>1. CASE FinishOk(w) \/ FinishFailed(w)
      <4>1. status' \in Final /\ phase'[w] \in {"told", "failed"}
        BY <1>0, <3>1 DEF FinishOk, FinishFailed, Recorded, Final
      <4>2. QED
        BY <2>1, <4>1 DEF RecordInv, Ledger, Final
    <3>2. CASE ~(FinishOk(w) \/ FinishFailed(w))
      <4>1. /\ status' = status
            /\ phase'[w] \in {"claimed", "driving", "ending", "failing"} =>
                  phase[w] \in {"claimed", "driving", "ending", "failing"}
        BY <1>0, <1>4, <3>2 DEF Drive, Die, Begin, NodeDone, GraphEnds, Raise,
                      EmitDone, EmitError, header
      <4>2. QED
        BY <2>1, <4>1 DEF RecordInv, Ledger
    <3>3. QED
      BY <3>1, <3>2
  <2>4. QED
    BY <2>2, <2>3 DEF RecordInv
<1>5. QED
  BY <1>1, <1>2, <1>3, <1>4 DEF RunNext

\* An event of a task at work: the stream goes forward, and not past its end.
LEMMA Telling ==
  ASSUME RunInv, RecordInv, NEW w \in Workers, phase[w] # "idle", NEW seq \in Int, Publish(seq, None),
         UNCHANGED <<status, started>>
  PROVE  [Record!Next]_<<status, started, hubSeq, hubEnd>>
<1>1. hubEnd = None /\ started /\ hubSeq \in Int
  BY DEF RunInv, SaidIsOver, RecordInv, Ledger, LedgerTypes
<1>2. QED
  BY <1>1, PublishIs DEF Record!Next, Record!Tell

\* The last event of a task: the stream ends with what is in the row.
LEMMA Closing ==
  ASSUME RunInv, RecordInv, NEW w \in Workers, phase[w] # "idle", NEW seq \in Int, NEW e, Publish(seq, e),
         status = e, e \in Record!Results, UNCHANGED <<status, started>>
  PROVE  [Record!Next]_<<status, started, hubSeq, hubEnd>>
<1>1. hubEnd = None /\ started /\ hubSeq \in Int
  BY DEF RunInv, SaidIsOver, RecordInv, Ledger, LedgerTypes
<1>2. QED
  BY <1>1, PublishIs DEF Record!Next, Record!Close, Record!Tell

\* investigation_worker.py: for any number of replicas, requests to cancel and
\* events, whatever raises, dies or is lost, a run gets one result, nothing
\* rewrites it, and the stream ends with it or does not end.
THEOREM RecordHolds == RunSpec => ImplementsRecord
<1>1. RunInit => Record!Init
  BY DEF RunInit, Init, Record!Init
<1>2. RunInv /\ RecordInv /\ [RunNext]_runVars => [Record!Next]_<<status, started, hubSeq, hubEnd>>
  <2> SUFFICES ASSUME RunInv, RecordInv, [RunNext]_runVars
               PROVE  [Record!Next]_<<status, started, hubSeq, hubEnd>>
    OBVIOUS
  <2>1. CASE UNCHANGED runVars
    BY <2>1 DEF runVars
  <2>2. ASSUME NEW c \in Callers, Cancel(c)
        PROVE  [Record!Next]_<<status, started, hubSeq, hubEnd>>
    BY <2>2, CancelIs DEF RecordInv, Ledger, Record!Next, Record!Cancel
  <2>3. ASSUME NEW w \in Workers, Claim(w)
        PROVE  [Record!Next]_<<status, started, hubSeq, hubEnd>>
    BY <2>3 DEF Claim, Claimable, hub, Record!Next, Record!Take
  <2>4. ASSUME NEW w \in Workers, Begin(w) \/ NodeDone(w)
        PROVE  [Record!Next]_<<status, started, hubSeq, hubEnd>>
    <3>1. execSeq[w] \in Int /\ 0 \in Int
      BY DEF RecordInv, LedgerTypes
    <3>2. QED
      BY <2>4, <3>1, Telling DEF Begin, NodeDone, header
  <2>5. ASSUME NEW w \in Workers, GraphEnds(w) \/ Raise(w) \/ Die(w)
        PROVE  UNCHANGED <<status, started, hubSeq, hubEnd>>
    BY <2>5 DEF GraphEnds, Raise, Die, header, hub
  <2>6. ASSUME NEW w \in Workers, FinishOk(w) \/ FinishFailed(w)
        PROVE  [Record!Next]_<<status, started, hubSeq, hubEnd>>
    <3>1. phase[w] \in {"ending", "failing"} /\ status' \in Record!Results
          /\ UNCHANGED <<started, hubSeq, hubEnd>>
      BY <2>6 DEF FinishOk, FinishFailed, Recorded, hub, Record!Results
    <3>2. QED
      BY <3>1 DEF RecordInv, Ledger, Record!Next, Record!Conclude
  <2>7. ASSUME NEW w \in Workers, EmitDone(w) \/ EmitError(w)
        PROVE  [Record!Next]_<<status, started, hubSeq, hubEnd>>
    <3>1. execSeq[w] \in Int /\ driveSeq[w] \in Int
      BY DEF RecordInv, LedgerTypes
    <3>2. Recorded(outcome) \in Record!Results /\ "failed" \in Record!Results
      BY DEF Recorded, Record!Results
    <3>3. CASE EmitDone(w)
      BY <3>1, <3>2, <3>3, Closing DEF EmitDone, header, RunInv, RowGoesFirst
    <3>4. CASE EmitError(w)
      BY <3>1, <3>2, <3>4, Closing DEF EmitError, header, RunInv, RowGoesFirst
    <3>5. QED
      BY <2>7, <3>3, <3>4
  <2>8. QED
    BY <2>1, <2>2, <2>3, <2>4, <2>5, <2>6, <2>7 DEF RunNext, Drive
<1>3. RunSpec => []RecordInv
  <2>1. RunSpec => []RunInv
    BY RunInvAlways
  <2>2. QED
    BY <2>1, RecordInvInit, RecordStep, PTL DEF RunSpec
<1>4. QED
  BY <1>1, <1>2, <1>3, RunInvAlways, PTL DEF RunSpec, Record!Spec, ImplementsRecord

-----------------------------------------------------------------------------
(* The agent graph: what ends a run, and what it is told.                     *)

States ==
    [plan : Plans \cup {Entry.plan}, status : Status, errors : SUBSET (Reasons \cup Failures),
     steps : Nat, exhausted : BOOLEAN, report : BOOLEAN, critiques : Seq(Critiques), revisions : Nat]

Types ==
    /\ node \in Nodes \cup {End} /\ state \in States
    /\ elapsed \in Nat /\ rewrites \in Nat

\* A ceiling is passed; nothing takes it back.
Cut(s, t) == s.steps >= StepCeiling \/ t >= Timeout \/ s.exhausted
Noted(s)  == s.errors \cap Ceilings # {}

Alive ==
    /\ node = End => state.status \in Ended
    /\ node # End => state.status \notin Ended /\ "blocking" \notin state.errors

\* The exit path gets two steps and two graces, one each.
Bounds ==
    /\ node \notin {"critic_final", End} => state.steps <= StepCeiling /\ elapsed <= Timeout
    /\ node = "critic_final" => state.steps <= StepCeiling + 1 /\ elapsed <= Timeout + Grace
    /\ state.steps <= StepCeiling + 2 /\ elapsed <= Timeout + 2 * Grace

\* A rewrite is counted when the Critic is next entered.
Counted ==
    /\ rewrites <= MaxRevisions
    /\ node \notin Exit \cup {End} =>
          rewrites <= state.revisions + (IF Asked(state) THEN 1 ELSE 0)

\* The stages behind a run that is in node n and was not cut short.
Behind(n) ==
    CASE n = "planner" -> {}
      [] n \in {"collector", "retriever"} -> {"planner"}
      [] n = "graph_expansion" -> {"planner", "retriever"}
      [] n = "insight"  -> {"planner", "retriever", "graph_expansion"}
      [] n = "strategy" -> {"planner", "retriever", "graph_expansion", "insight"}
      [] n = "critic"   -> {"planner", "retriever", "graph_expansion", "insight", "strategy"}
      [] OTHER -> {}
WholeOr(cause) == Stages \subseteq ran \/ "rejected" \in ran \/ cause

Track ==
    /\ Noted(state) => Cut(state, elapsed)
    /\ node \notin Exit \cup {End} => Behind(node) \subseteq ran
    /\ node = "report" => WholeOr(Cut(state, elapsed))
    /\ node = "critic_final" => WholeOr(Noted(state))
    /\ node = End => WholeOr((Noted(state) \/ "blocking" \in state.errors) /\ state.status # "completed")

GraphInv == Types /\ Alive /\ Bounds /\ Counted /\ Track

-----------------------------------------------------------------------------
(* What the guard says.                                                     *)

LEMMA LeastIs ==
    ASSUME NEW S \in SUBSET Int, NEW k \in S, \A y \in S : k <= y PROVE Min(S) = k
<1> DEFINE Least(x) == \A y \in S : x <= y
<1>1. Min(S) = CHOOSE x \in S : Least(x)
  BY DEF Min
<1>2. Least(k)
  OBVIOUS
<1> HIDE DEF Least
<1>3. Min(S) \in S /\ Least(Min(S))
  BY <1>1, <1>2
<1>4. k <= Min(S) /\ Min(S) <= k
  BY <1>2, <1>3 DEF Least
<1>5. Min(S) \in Int /\ k \in Int
  BY <1>3
<1>6. QED
  BY <1>4, <1>5

LEMMA LesserOf ==
    ASSUME NEW a \in Int, NEW b \in Int
    PROVE  Min({a, b}) = (IF a <= b THEN a ELSE b) /\ Max({a, b}) = (IF a >= b THEN a ELSE b)
<1>1. Min({a, b}) = (IF a <= b THEN a ELSE b)
  BY DEF Min
<1>2. Max({a, b}) = (IF a >= b THEN a ELSE b)
  BY DEF Max
<1>3. QED
  BY <1>1, <1>2

LEMMA GuardSays ==
    ASSUME NEW s \in States, NEW t \in Nat
    PROVE  /\ s.status \in Ended => Guard(s, t) = Halt("cancelled", End, s.status)
           /\ s.status \notin Ended /\ "blocking" \in s.errors =>
                 Guard(s, t) = Halt("blocking_error", End, "failed")
           /\ s.status \notin Ended /\ "blocking" \notin s.errors =>
                 /\ Guard(s, t) = NoHalt <=> ~Cut(s, t)
                 /\ Cut(s, t) => \E reason \in Ceilings : Guard(s, t) = Ceiling(reason)
<1> DEFINE fired == {i \in 1..5 : Predicates(s, t)[i][1]}
<1>1. Guard(s, t) = IF fired = {} THEN NoHalt ELSE Predicates(s, t)[Min(fired)][2]
  BY DEF Guard
<1>2. /\ 1 \in fired <=> s.status \in Ended
      /\ 2 \in fired <=> "blocking" \in s.errors
      /\ 3 \in fired <=> s.steps >= StepCeiling
      /\ 4 \in fired <=> t >= Timeout
      /\ 5 \in fired <=> s.exhausted
      /\ fired \in SUBSET (1..5)
  <2>1. /\ Predicates(s, t)[1][1] = (s.status \in Ended)
        /\ Predicates(s, t)[2][1] = ("blocking" \in s.errors)
        /\ Predicates(s, t)[3][1] = (s.steps >= StepCeiling)
        /\ Predicates(s, t)[4][1] = (t >= Timeout)
        /\ Predicates(s, t)[5][1] = s.exhausted
    BY DEF Predicates
  <2>2. s.exhausted \in BOOLEAN
    BY DEF States
  <2>3. \A i \in 1..5 : i \in fired <=> Predicates(s, t)[i][1]
    BY Zenon
  <2>4. 1 \in 1..5 /\ 2 \in 1..5 /\ 3 \in 1..5 /\ 4 \in 1..5 /\ 5 \in 1..5
    OBVIOUS
  <2> HIDE DEF fired
  <2>5. fired \in SUBSET (1..5)
    BY DEF fired
  <2>6. QED
    BY <2>1, <2>2, <2>3, <2>4, <2>5, Zenon
<1>3. /\ Predicates(s, t)[1][2] = Halt("cancelled", End, s.status)
      /\ Predicates(s, t)[2][2] = Halt("blocking_error", End, "failed")
      /\ Predicates(s, t)[3][2] = Ceiling("max_steps_exceeded")
      /\ Predicates(s, t)[4][2] = Ceiling("deadline_exceeded")
      /\ Predicates(s, t)[5][2] = Ceiling("token_budget_exhausted")
  BY DEF Predicates
<1> HIDE DEF fired
<1>4. CASE 1 \in fired
  <2>1. Min(fired) = 1
    BY <1>2, <1>4, LeastIs
  <2>2. QED
    BY <1>1, <1>2, <1>3, <1>4, <2>1
<1>5. CASE 1 \notin fired /\ 2 \in fired
  <2>1. Min(fired) = 2
    BY <1>2, <1>5, LeastIs
  <2>2. QED
    BY <1>1, <1>2, <1>3, <1>5, <2>1
<1>6. CASE 1 \notin fired /\ 2 \notin fired
  <2>0. fired # {} <=> 3 \in fired \/ 4 \in fired \/ 5 \in fired
    <3>1. \A i \in fired : i \in 1..5 /\ i # 1 /\ i # 2
      BY <1>2, <1>6
    <3>2. QED
      BY <3>1
  <2>1. fired # {} => Min(fired) \in {3, 4, 5}
    <3>1. CASE 3 \in fired
      BY <1>2, <1>6, <3>1, LeastIs
    <3>2. CASE 3 \notin fired /\ 4 \in fired
      BY <1>2, <1>6, <3>2, LeastIs
    <3>3. CASE 3 \notin fired /\ 4 \notin fired /\ 5 \in fired
      BY <1>2, <1>6, <3>3, LeastIs
    <3>4. QED
      BY <2>0, <3>1, <3>2, <3>3
  <2>2. \A reason \in Ceilings : Ceiling(reason) # NoHalt
    BY DEF Ceiling, Halt, NoHalt, Ceilings
  <2>3. Cut(s, t) <=> fired # {}
    BY <1>2, <2>0 DEF Cut
  <2>4. fired # {} => \E reason \in Ceilings : Guard(s, t) = Ceiling(reason)
    BY <1>1, <1>3, <2>1 DEF Ceilings
  <2>5. QED
    BY <1>1, <1>2, <1>6, <2>2, <2>3, <2>4
<1>7. QED
  BY <1>4, <1>5, <1>6

-----------------------------------------------------------------------------
(* What a superstep leaves.                                                 *)

\* What the bookkeeping of the wrapper never touches.
Same(u, s) == u.plan = s.plan /\ u.exhausted = s.exhausted /\ u.report = s.report /\ u.critiques = s.critiques

LEMMA WithSteps ==
    ASSUME NEW s \in States, NEW n \in Nat, NEW u, u = [s EXCEPT !.steps = n]
    PROVE  /\ u \in States /\ Same(u, s) /\ u.steps = n
           /\ u.status = s.status /\ u.errors = s.errors /\ u.revisions = s.revisions
  BY DEF States, Same

LEMMA WithErrors ==
    ASSUME NEW s \in States, NEW e \in SUBSET (Reasons \cup Failures), NEW u, u = [s EXCEPT !.errors = e]
    PROVE  /\ u \in States /\ Same(u, s) /\ u.errors = e
           /\ u.status = s.status /\ u.steps = s.steps /\ u.revisions = s.revisions
  BY DEF States, Same

LEMMA WithRevisions ==
    ASSUME NEW s \in States, NEW n \in Nat, NEW u, u = [s EXCEPT !.revisions = n]
    PROVE  /\ u \in States /\ Same(u, s) /\ u.revisions = n
           /\ u.status = s.status /\ u.steps = s.steps /\ u.errors = s.errors
  BY DEF States, Same

LEMMA WithStatus ==
    ASSUME NEW s \in States, NEW x \in Status, NEW u, u = [s EXCEPT !.status = x]
    PROVE  /\ u \in States /\ Same(u, s) /\ u.status = x
           /\ u.errors = s.errors /\ u.steps = s.steps /\ u.revisions = s.revisions
  BY DEF States, Same

\* The bookkeeping of the wrapper, before the status is stamped.
Booked(delta, u) ==
    /\ u \in States /\ Same(u, delta) /\ u.status = delta.status
    /\ u.steps = Min({delta.steps + 1, StepCap})
    /\ u.errors = delta.errors \cup ({Guard(state, elapsed).reason} \ {"none"})
    /\ u.revisions = delta.revisions + (IF node = "critic" /\ Asked(state) THEN 1 ELSE 0)

LEMMA LandLeaves ==
    ASSUME Types, NEW delta \in States, NEW d \in Nat, Land(delta, d)
    PROVE  \E u \in States :
              /\ Booked(delta, u)
              /\ state' = StampStatus(node, u, elapsed')
              /\ elapsed' = Min({elapsed + d, Horizon}) /\ node' = Route(node, state', elapsed')
              /\ ran' = ran \cup {node} \cup
                    (IF node = "planner" /\ Guard(state', elapsed') = NoHalt /\ TooLarge(state')
                     THEN {"rejected"} ELSE {})
              /\ rewrites' = IF node = "critic" /\ node' \in Stages THEN rewrites + 1 ELSE rewrites
<1> DEFINE stepped == [delta EXCEPT !.steps = Min({@ + 1, StepCap})]
           said    == RecordHalt(Guard(state, elapsed), stepped)
           counted == Count(node, state, said)
<1>1. /\ state' = StampStatus(node, counted, elapsed')
      /\ elapsed' = Min({elapsed + d, Horizon}) /\ node' = Route(node, state', elapsed')
      /\ ran' = ran \cup {node} \cup
            (IF node = "planner" /\ Guard(state', elapsed') = NoHalt /\ TooLarge(state')
             THEN {"rejected"} ELSE {})
      /\ rewrites' = IF node = "critic" /\ node' \in Stages THEN rewrites + 1 ELSE rewrites
  BY DEF Land
<1>2. delta.steps \in Nat /\ StepCap \in Nat /\ Min({delta.steps + 1, StepCap}) \in Nat
  BY LesserOf, LimitsAssumption DEF States, StepCap, LimitsAssumption
<1>3. /\ stepped \in States /\ Same(stepped, delta) /\ stepped.steps = Min({delta.steps + 1, StepCap})
      /\ stepped.status = delta.status /\ stepped.errors = delta.errors
      /\ stepped.revisions = delta.revisions
  BY <1>2, WithSteps
<1>4. Guard(state, elapsed).reason \in Reasons \cup {"none"}
  <2>1. state \in States /\ elapsed \in Nat
    BY DEF Types
  <2>2. \/ \E x : Guard(state, elapsed) = Halt("cancelled", End, x)
        \/ Guard(state, elapsed) = Halt("blocking_error", End, "failed")
        \/ Guard(state, elapsed) = NoHalt
        \/ \E reason \in Ceilings : Guard(state, elapsed) = Ceiling(reason)
    BY <2>1, GuardSays
  <2>3. QED
    BY <2>2 DEF Halt, NoHalt, Ceiling, Reasons, Ceilings
<1> HIDE DEF stepped
<1>5. stepped.errors \cup ({Guard(state, elapsed).reason} \ {"none"}) \in SUBSET (Reasons \cup Failures)
  BY <1>3, <1>4 DEF States
<1>6. /\ said \in States /\ Same(said, stepped) /\ said.status = stepped.status
      /\ said.errors = stepped.errors \cup ({Guard(state, elapsed).reason} \ {"none"})
      /\ said.steps = stepped.steps /\ said.revisions = stepped.revisions
  <2> DEFINE e == stepped.errors \cup ({Guard(state, elapsed).reason} \ {"none"})
  <2>1. said = [stepped EXCEPT !.errors = e] /\ e \in SUBSET (Reasons \cup Failures)
    BY <1>5 DEF RecordHalt
  <2> HIDE DEF e
  <2>2. /\ said \in States /\ Same(said, stepped) /\ said.status = stepped.status /\ said.errors = e
        /\ said.steps = stepped.steps /\ said.revisions = stepped.revisions
    BY <1>3, <2>1, WithErrors
  <2>3. QED
    BY <2>2 DEF e
<1> HIDE DEF said
<1>7. /\ counted \in States /\ Same(counted, said) /\ counted.status = said.status
      /\ counted.errors = said.errors /\ counted.steps = said.steps
      /\ counted.revisions = said.revisions + (IF node = "critic" /\ Asked(state) THEN 1 ELSE 0)
  <2>1. said.revisions \in Nat
    BY <1>6 DEF States
  <2>2. CASE node = "critic" /\ Asked(state)
    BY <1>6, <2>1, <2>2, WithRevisions DEF Count
  <2>3. CASE ~(node = "critic" /\ Asked(state))
    BY <1>6, <2>1, <2>3 DEF Count, Same
  <2>4. QED
    BY <2>2, <2>3
<1> HIDE DEF counted
<1>8. Booked(delta, counted)
  BY <1>3, <1>6, <1>7 DEF Booked, Same
<1>9. QED
  BY <1>1, <1>7, <1>8

\* A stage ends with the deadline, a node of the exit path within a grace.
LEMMA SliceBounds ==
    ASSUME elapsed \in Nat
    PROVE  /\ Slice(node, elapsed) \in Nat
           /\ node \notin Exit /\ elapsed < Timeout => Slice(node, elapsed) <= Timeout - elapsed
           /\ node \in Exit => Slice(node, elapsed) <= Grace \/ Slice(node, elapsed) <= Timeout - elapsed
<1> DEFINE left == IF node \in Exit THEN Max({Timeout - elapsed, Grace}) ELSE Timeout - elapsed
           most == Min({Timeout, left})
<1>1. Timeout \in Nat \ {0} /\ Grace \in Nat \ {0}
  BY LimitsAssumption DEF LimitsAssumption
<1>2. /\ left \in Int
      /\ node \in Exit => left = (IF Timeout - elapsed >= Grace THEN Timeout - elapsed ELSE Grace)
      /\ node \notin Exit => left = Timeout - elapsed
  <2>1. Timeout - elapsed \in Int /\ Grace \in Int
    BY <1>1
  <2>2. Max({Timeout - elapsed, Grace}) =
           IF Timeout - elapsed >= Grace THEN Timeout - elapsed ELSE Grace
    BY <2>1, LesserOf
  <2>3. QED
    BY <2>1, <2>2
<1> HIDE DEF left
<1>3. most = (IF Timeout <= left THEN Timeout ELSE left) /\ most \in Int
  BY <1>1, <1>2, LesserOf
<1>4. Slice(node, elapsed) = Max({1, most})
  BY DEF Slice, left
<1> HIDE DEF most
<1>5. Slice(node, elapsed) = IF 1 >= most THEN 1 ELSE most
  <2>1. \A a, b \in Int : Max({a, b}) = IF a >= b THEN a ELSE b
    BY LesserOf
  <2>2. QED
    BY <1>3, <1>4, <2>1
<1>6. QED
  BY <1>1, <1>2, <1>3, <1>5

LEMMA Elapses ==
    ASSUME elapsed \in Nat, NEW d \in 0..Slice(node, elapsed), elapsed' = Min({elapsed + d, Horizon})
    PROVE  /\ d \in Nat /\ elapsed' \in Nat /\ (elapsed >= Timeout => elapsed' >= Timeout)
           /\ node \notin Exit /\ elapsed < Timeout => elapsed' <= Timeout
           /\ node \in Exit => elapsed' <= Timeout \/ elapsed' <= elapsed + Grace
<1>1. Timeout \in Nat \ {0} /\ Grace \in Nat \ {0} /\ Horizon = Timeout + 2 * Grace + 1
  BY LimitsAssumption DEF LimitsAssumption, Horizon
<1>2. d \in Nat /\ d <= Slice(node, elapsed)
  BY SliceBounds
<1>3. elapsed' = IF elapsed + d <= Horizon THEN elapsed + d ELSE Horizon
  BY <1>1, <1>2, LesserOf
<1>4. QED
  BY <1>1, <1>2, <1>3, SliceBounds

-----------------------------------------------------------------------------
\* What a node may hand to its wrapper.
Fits(delta) ==
    /\ delta \in States /\ delta.status = state.status
    /\ delta.steps = state.steps /\ delta.revisions = state.revisions
    /\ state.exhausted => delta.exhausted
    /\ node \notin {"critic", "critic_final"} => delta.critiques = state.critiques
    /\ delta.errors \cap Ceilings = state.errors \cap Ceilings
    /\ "blocking" \in delta.errors => node = "planner"

\* A stage that ran leads on, to the exit path when a ceiling is passed by
\* then, or ends a run that may not go on.
LEMMA StageKeeps ==
    ASSUME GraphInv, MayRun, node \notin Exit, NEW delta, Fits(delta),
           NEW d \in 0..Slice(node, elapsed), Land(delta, d)
    PROVE  GraphInv'
<1>1. /\ state \in States /\ elapsed \in Nat /\ rewrites \in Nat
      /\ node \in Nodes /\ node # End /\ node \notin Exit
      /\ state.status \notin Ended /\ "blocking" \notin state.errors
  BY DEF GraphInv, Types, Alive, MayRun
<1>2. Guard(state, elapsed) = NoHalt /\ ~Cut(state, elapsed)
  BY <1>1, GuardSays DEF MayRun, Exempt
<1>3. PICK u \in States :
        /\ Booked(delta, u)
        /\ state' = StampStatus(node, u, elapsed')
        /\ elapsed' = Min({elapsed + d, Horizon}) /\ node' = Route(node, state', elapsed')
        /\ ran' = ran \cup {node} \cup
              (IF node = "planner" /\ Guard(state', elapsed') = NoHalt /\ TooLarge(state')
               THEN {"rejected"} ELSE {})
        /\ rewrites' = IF node = "critic" /\ node' \in Stages THEN rewrites + 1 ELSE rewrites
  <2>1. d \in Nat
    BY <1>1, SliceBounds
  <2>2. QED
    BY <1>1, <2>1, LandLeaves DEF GraphInv, Fits
<1>4. elapsed' \in Nat /\ elapsed' <= Timeout
  <2>1. elapsed < Timeout
    BY <1>1, <1>2, LimitsAssumption DEF Cut, LimitsAssumption
  <2>2. QED
    BY <1>1, <1>3, <2>1, Elapses
<1>5. /\ u.status = state.status /\ u.errors = delta.errors /\ ~Noted(u)
      /\ u.steps = state.steps + 1 /\ u.steps <= StepCeiling /\ u.steps \in Nat
      /\ u.revisions = state.revisions + (IF node = "critic" /\ Asked(state) THEN 1 ELSE 0)
      /\ node # "critic" => u.critiques = state.critiques
  <2>1. u.status = state.status /\ u.errors = delta.errors
    BY <1>2, <1>3 DEF Booked, Fits, NoHalt, Halt
  <2>2. ~Noted(u)
    BY <1>2, <2>1 DEF GraphInv, Track, Noted, Fits
  <2>3. state.steps \in Nat /\ StepCeiling \in Nat /\ state.steps < StepCeiling
    BY <1>1, <1>2, LimitsAssumption DEF States, Cut, LimitsAssumption
  <2>4. Min({state.steps + 1, StepCap}) = state.steps + 1
    <3>1. state.steps + 1 \in Int /\ StepCap \in Int /\ state.steps + 1 <= StepCap
      BY <2>3 DEF StepCap
    <3>2. QED
      BY <3>1, LesserOf
  <2>5. u.steps = state.steps + 1
    BY <1>3, <2>4 DEF Booked, Fits
  <2>6. QED
    BY <1>1, <1>3, <2>1, <2>2, <2>3, <2>5 DEF Booked, Fits, Same, Exit
<1>6. \A s \in States : s.revisions \in Nat
  BY DEF States
<1>7. CASE "blocking" \in u.errors
  <2>1. node = "planner"
    BY <1>5, <1>7 DEF Fits
  <2>2. Guard(u, elapsed') = Halt("blocking_error", End, "failed")
    BY <1>1, <1>3, <1>4, <1>5, <1>7, GuardSays
  <2>3. state' = [u EXCEPT !.status = "failed"]
    BY <1>3, <2>1, <2>2 DEF StampStatus, Halt
  <2>4. /\ state' \in States /\ state'.status = "failed" /\ state'.errors = u.errors
        /\ state'.steps = u.steps
    BY <2>3, WithStatus DEF Status, Ended
  <2>5. node' = End /\ rewrites' = rewrites
    <3>1. Guard(state', elapsed').route = End /\ Guard(state', elapsed') # NoHalt
      BY <1>4, <2>4, GuardSays DEF Ended, Halt, NoHalt, End
    <3>2. QED
      BY <1>1, <1>3, <2>1, <3>1 DEF Route
  <2>6. Types' /\ Alive'
    BY <1>1, <1>4, <2>4, <2>5 DEF Types, Alive, Ended
  <2>7. Bounds'
    BY <1>4, <1>5, <2>4, <2>5, LimitsAssumption DEF Bounds, LimitsAssumption, End
  <2>8. Counted'
    BY <2>5 DEF GraphInv, Counted
  <2>9. Track'
    BY <1>5, <1>7, <2>4, <2>5 DEF Track, Noted, WholeOr, Exit, End
  <2>10. QED
    BY <2>6, <2>7, <2>8, <2>9 DEF GraphInv
<1>8. CASE "blocking" \notin u.errors
  <2>1. Guard(u, elapsed').route # End
    BY <1>1, <1>3, <1>4, <1>5, <1>8, GuardSays DEF Ceiling, Halt, NoHalt, End
  <2>2. state' = [u EXCEPT !.status = Phase(node)] /\ Phase(node) \in Status \ Ended
    BY <1>1, <1>3, <2>1 DEF StampStatus, Phase, Exit, Status, Ended
  <2>3. /\ state' \in States /\ state'.status \notin Ended /\ state'.errors = u.errors
        /\ state'.steps = u.steps /\ state'.revisions = u.revisions
        /\ state'.critiques = u.critiques
    BY <2>2, WithStatus DEF Same
  <2>4. ~Noted(state')
    BY <1>5, <2>3 DEF Noted
  <2>5. /\ Cut(state', elapsed') => node' = "report"
        /\ ~Cut(state', elapsed') => Guard(state', elapsed') = NoHalt /\ node' = Onward(node, state')
    <3>1. /\ Guard(state', elapsed') = NoHalt <=> ~Cut(state', elapsed')
          /\ Cut(state', elapsed') => Guard(state', elapsed').route = "report"
      BY <1>4, <1>8, <2>3, GuardSays DEF Ceiling, Halt
    <3>2. QED
      BY <1>1, <1>3, <3>1 DEF Route
  <2>6. state'.revisions \in Nat /\ (node # "critic" => (Asked(state') <=> Asked(state)))
    BY <1>5, <1>6, <2>3 DEF Asked, Latest
  <2>7. /\ node' \in Nodes /\ node' # End /\ node' # "critic_final"
        /\ Counted' /\ Track'
    <3>1. Behind(node) \subseteq ran /\ ran \cup {node} \subseteq ran'
      BY <1>1, <1>3 DEF GraphInv, Track
    <3>2. /\ rewrites <= MaxRevisions /\ MaxRevisions \in Nat
          /\ rewrites <= state.revisions + (IF Asked(state) THEN 1 ELSE 0)
      BY <1>1, LimitsAssumption DEF GraphInv, Counted, LimitsAssumption
    <3>3. CASE Cut(state', elapsed')
      <4>1. node' = "report" /\ rewrites' = rewrites
        BY <1>3, <2>5, <3>3 DEF Stages
      <4>2. QED
        BY <2>4, <3>2, <3>3, <4>1 DEF Counted, Track, WholeOr, Exit, Nodes, End
    <3>4. CASE ~Cut(state', elapsed') /\ node # "critic"
      <4>1. /\ node' = Onward(node, state') /\ rewrites' = rewrites
            /\ node = "planner" /\ TooLarge(state') => "rejected" \in ran'
        BY <1>3, <2>5, <3>4
      <4>2. Counted'
        BY <1>1, <1>5, <1>6, <2>3, <2>6, <3>2, <3>4, <4>1 DEF Counted
      <4>3. \/ node' = "report" /\ "rejected" \in ran'
            \/ node' \in Nodes \ (Exit \cup {End}) /\ Behind(node') \subseteq ran'
        BY <1>1, <3>1, <3>4, <4>1 DEF Onward, Behind, Nodes, Stages, Exit, End
      <4>4. QED
        BY <2>4, <4>2, <4>3 DEF Track, WholeOr, Exit, Nodes, End
    <3>5. CASE ~Cut(state', elapsed') /\ node = "critic"
      <4>1. CASE Reentered(state')
        <5>1. node' \in {"retriever", "insight", "strategy"}
          BY <2>5, <3>5, <4>1 DEF Onward, Reentry
        <5>2. rewrites' = rewrites + 1 /\ Asked(state') /\ state'.revisions < MaxRevisions
          BY <1>3, <3>5, <4>1, <5>1 DEF Stages, Reentered
        <5>3. state'.revisions = state.revisions + (IF Asked(state) THEN 1 ELSE 0)
          BY <1>5, <2>3, <3>5
        <5>4. Counted'
          BY <1>1, <1>6, <2>6, <3>2, <5>2, <5>3 DEF Counted
        <5>5. Behind(node') \subseteq ran'
          BY <3>1, <3>5, <5>1 DEF Behind
        <5>6. QED
          BY <2>4, <5>1, <5>4, <5>5 DEF Track, Exit, Nodes, Stages, End
      <4>2. CASE ~Reentered(state')
        <5>1. node' = "report" /\ rewrites' = rewrites
          BY <1>3, <2>5, <3>5, <4>2 DEF Onward, Stages
        <5>2. Stages \subseteq ran'
          BY <3>1, <3>5 DEF Stages, Behind
        <5>3. QED
          BY <2>4, <3>2, <5>1, <5>2 DEF Counted, Track, WholeOr, Exit, Nodes, End
      <4>3. QED
        BY <4>1, <4>2
    <3>6. QED
      BY <3>3, <3>4, <3>5
  <2>8. Types' /\ Alive'
    BY <1>1, <1>3, <1>4, <1>8, <2>3, <2>7 DEF Types, Alive
  <2>9. Bounds'
    BY <1>4, <1>5, <2>3, <2>7, LimitsAssumption DEF Bounds, LimitsAssumption
  <2>10. QED
    BY <2>7, <2>8, <2>9 DEF GraphInv
<1>9. QED
  BY <1>7, <1>8

\* The exit path runs whatever guard fired, and says so.
LEMMA ExitKeeps ==
    ASSUME GraphInv, node \in Exit, NEW delta, Fits(delta),
           NEW d \in 0..Slice(node, elapsed), Land(delta, d)
    PROVE  GraphInv'
<1>1. /\ state \in States /\ elapsed \in Nat /\ rewrites \in Nat
      /\ node \in {"report", "critic_final"} /\ node # End /\ node \notin Stages
      /\ state.status \notin Ended /\ "blocking" \notin state.errors
  BY DEF GraphInv, Types, Alive, Exit, End, Stages
<1>2. /\ ~Cut(state, elapsed) => Guard(state, elapsed) = NoHalt
      /\ Cut(state, elapsed) => \E reason \in Ceilings : Guard(state, elapsed) = Ceiling(reason)
  BY <1>1, GuardSays
<1>3. PICK u \in States :
        /\ Booked(delta, u)
        /\ state' = StampStatus(node, u, elapsed')
        /\ elapsed' = Min({elapsed + d, Horizon}) /\ node' = Route(node, state', elapsed')
        /\ ran' = ran \cup {node} \cup
              (IF node = "planner" /\ Guard(state', elapsed') = NoHalt /\ TooLarge(state')
               THEN {"rejected"} ELSE {})
        /\ rewrites' = IF node = "critic" /\ node' \in Stages THEN rewrites + 1 ELSE rewrites
  <2>1. d \in Nat
    BY <1>1, SliceBounds
  <2>2. QED
    BY <1>1, <2>1, LandLeaves DEF GraphInv, Fits
<1>4. /\ elapsed' \in Nat /\ (elapsed >= Timeout => elapsed' >= Timeout)
      /\ elapsed' <= Timeout \/ elapsed' <= elapsed + Grace
  BY <1>1, <1>3, Elapses
<1>5. /\ u.status = state.status /\ u.steps = state.steps + 1 /\ u.steps \in Nat
      /\ (state.exhausted => u.exhausted)
  <2>1. state.steps \in Nat /\ StepCeiling \in Nat /\ state.steps <= StepCeiling + 1
    BY <1>1, LimitsAssumption DEF GraphInv, Bounds, States, LimitsAssumption, End
  <2>2. Min({state.steps + 1, StepCap}) = state.steps + 1
    <3>1. state.steps + 1 \in Int /\ StepCap \in Int /\ state.steps + 1 <= StepCap
      BY <2>1 DEF StepCap
    <3>2. QED
      BY <3>1, LesserOf
  <2>3. QED
    BY <1>3, <2>1, <2>2 DEF Booked, Fits, Same
<1>6. "blocking" \notin u.errors /\ (Noted(u) <=> Noted(state) \/ Cut(state, elapsed))
  <2>1. u.errors = delta.errors \cup ({Guard(state, elapsed).reason} \ {"none"})
    BY <1>3 DEF Booked
  <2>2. "blocking" \notin delta.errors /\ delta.errors \cap Ceilings = state.errors \cap Ceilings
    BY <1>1 DEF Fits
  <2>3. CASE Cut(state, elapsed)
    BY <1>2, <2>1, <2>2, <2>3 DEF Ceiling, Halt, Ceilings, Noted
  <2>4. CASE ~Cut(state, elapsed)
    BY <1>2, <2>1, <2>2, <2>4 DEF NoHalt, Halt, Ceilings, Noted
  <2>5. QED
    BY <2>3, <2>4
<1>7. Cut(state, elapsed) => Cut(u, elapsed')
  BY <1>1, <1>4, <1>5, LimitsAssumption DEF Cut, States, LimitsAssumption
<1>8. Noted(u) => Cut(u, elapsed')
  BY <1>6, <1>7 DEF GraphInv, Track
<1>9. /\ Guard(u, elapsed') = NoHalt <=> ~Cut(u, elapsed')
      /\ Guard(u, elapsed').route # End
  BY <1>1, <1>3, <1>4, <1>5, <1>6, GuardSays DEF Ceiling, NoHalt, Halt, End
<1>10. rewrites' = rewrites /\ ran \subseteq ran'
  BY <1>1, <1>3
<1>11. CASE node = "report"
  <2>1. state' = [u EXCEPT !.status = "running"]
    BY <1>3, <1>9, <1>11 DEF StampStatus, Phase
  <2>2. /\ state' \in States /\ state'.status = "running" /\ state'.errors = u.errors
        /\ state'.steps = u.steps /\ state'.exhausted = u.exhausted
    BY <2>1, WithStatus DEF Status, Same
  <2>3. node' = "critic_final"
    BY <1>1, <1>3, <1>11 DEF Route, ExitEdge, Exit
  <2>4. Types' /\ Alive'
    BY <1>1, <1>4, <1>6, <1>10, <2>2, <2>3 DEF Types, Alive, Nodes, Exit, End, Ended
  <2>5. Bounds'
    BY <1>1, <1>4, <1>5, <1>11, <2>2, <2>3, LimitsAssumption
    DEF GraphInv, Bounds, LimitsAssumption, End, States
  <2>6. Counted'
    BY <1>10, <2>3 DEF GraphInv, Counted, Exit
  <2>7. Track'
    BY <1>6, <1>8, <1>10, <1>11, <2>2, <2>3 DEF GraphInv, Track, WholeOr, Cut, Noted, Exit, End
  <2>8. QED
    BY <2>4, <2>5, <2>6, <2>7 DEF GraphInv
<1>12. CASE node = "critic_final"
  <2>1. state' = [u EXCEPT !.status = TerminalStatus(u, elapsed')]
    BY <1>3, <1>12 DEF StampStatus
  <2>2. /\ TerminalStatus(u, elapsed') \in Ended \cap Status
        /\ Cut(u, elapsed') => TerminalStatus(u, elapsed') # "completed"
    BY <1>9 DEF TerminalStatus, Ended, Status
  <2>3. /\ state' \in States /\ state'.status = TerminalStatus(u, elapsed')
        /\ state'.errors = u.errors /\ state'.steps = u.steps /\ state'.exhausted = u.exhausted
    BY <2>1, <2>2, WithStatus DEF Same
  <2>4. node' = End
    BY <1>1, <1>3, <1>12 DEF Route, ExitEdge, Exit
  <2>5. Types' /\ Alive'
    BY <1>1, <1>4, <1>10, <2>2, <2>3, <2>4 DEF Types, Alive
  <2>6. Bounds'
    <3>1. /\ state.steps \in Nat /\ StepCeiling \in Nat /\ Timeout \in Nat /\ Grace \in Nat
          /\ state.steps <= StepCeiling + 1 /\ elapsed <= Timeout + 1 * Grace
      BY <1>1, <1>12, LimitsAssumption DEF GraphInv, Bounds, LimitsAssumption, End, States
    <3>2. state'.steps <= StepCeiling + 2 /\ elapsed' <= Timeout + 2 * Grace
      BY <1>1, <1>4, <1>5, <2>3, <3>1
    <3>3. QED
      BY <2>4, <3>2 DEF Bounds, End
  <2>7. Counted'
    BY <1>10, <2>4 DEF GraphInv, Counted
  <2>8. Track'
    <3>1. Noted(state') <=> Noted(u)
      BY <2>3 DEF Noted
    <3>2. Noted(state') => Cut(state', elapsed') /\ state'.status # "completed"
      <4>1. Cut(u, elapsed') <=> Cut(state', elapsed')
        BY <2>3 DEF Cut
      <4>2. QED
        BY <1>8, <2>2, <2>3, <3>1, <4>1
    <3>3. Stages \subseteq ran' \/ "rejected" \in ran' \/ Noted(state')
      BY <1>6, <1>10, <1>12, <3>1 DEF GraphInv, Track, WholeOr
    <3>4. QED
      BY <2>4, <3>2, <3>3 DEF Track, WholeOr, Exit, End
  <2>9. QED
    BY <2>5, <2>6, <2>7, <2>8 DEF GraphInv
<1>13. QED
  BY <1>1, <1>11, <1>12

\* A skipped node leaves its reason and goes to the report.
LEMMA SkipKeeps == ASSUME GraphInv, Skip PROVE GraphInv'
<1>1. /\ state \in States /\ elapsed \in Nat /\ node # End /\ elapsed' = elapsed
      /\ state.status \notin Ended /\ "blocking" \notin state.errors
      /\ ran' = ran /\ rewrites' = rewrites
  BY DEF GraphInv, Types, Alive, Skip
<1>2. Cut(state, elapsed) /\ \E r \in Ceilings : Guard(state, elapsed) = Ceiling(r)
  BY <1>1, GuardSays DEF Skip
<1>3. PICK reason \in Ceilings : Guard(state, elapsed) = Ceiling(reason)
  BY <1>2
<1>4. node \notin Exit
  BY <1>3 DEF Skip, Exempt, Ceiling, Halt, End
<1> DEFINE said == [state EXCEPT !.errors = @ \cup ({reason} \ {"none"})]
<1>5. state.errors \cup ({reason} \ {"none"}) \in SUBSET (Reasons \cup Failures)
  BY <1>1 DEF States, Reasons
<1>6. /\ said \in States /\ Same(said, state) /\ said.status = state.status
      /\ said.steps = state.steps /\ said.revisions = state.revisions
      /\ said.errors = state.errors \cup ({reason} \ {"none"})
  BY <1>1, <1>5, WithErrors
<1>7. /\ RecordHalt(Guard(state, elapsed), state) = said
      /\ Guard(state, elapsed).route # End
  BY <1>3 DEF RecordHalt, Ceiling, Halt, End
<1> HIDE DEF said
<1>8. state' = [said EXCEPT !.status = said.status] /\ node' = Route(node, state', elapsed)
  BY <1>7 DEF Skip
<1>9. state' = said
  BY <1>6, <1>8 DEF States
<1>10. Cut(state', elapsed') /\ state'.status \notin Ended /\ "blocking" \notin state'.errors
  BY <1>1, <1>2, <1>6, <1>9 DEF Cut, Same, Ceilings
<1>11. node' = "report"
  <2>1. \E r \in Ceilings : Guard(state', elapsed) = Ceiling(r)
    BY <1>1, <1>6, <1>9, <1>10, GuardSays
  <2>2. QED
    BY <1>4, <1>8, <2>1 DEF Route, Ceiling, Halt, NoHalt
<1>12. Types' /\ Alive'
  BY <1>1, <1>6, <1>9, <1>10, <1>11 DEF GraphInv, Types, Alive, Nodes, Exit, End
<1>13. Bounds'
  BY <1>1, <1>4, <1>6, <1>9, <1>11 DEF GraphInv, Bounds, Exit, End
<1>14. Counted'
  BY <1>1, <1>11 DEF GraphInv, Counted, Exit
<1>15. Track'
  BY <1>10, <1>11 DEF Track, WholeOr, Exit, End
<1>16. QED
  BY <1>12, <1>13, <1>14, <1>15 DEF GraphInv

LEMMA WaitKeeps == ASSUME GraphInv, Wait PROVE GraphInv'
<1>1. /\ elapsed \in Nat /\ elapsed < Timeout /\ elapsed' = elapsed + 1 /\ Timeout \in Nat
      /\ node # End /\ UNCHANGED <<node, state, ran, rewrites>> /\ Grace \in Nat
  BY LimitsAssumption DEF GraphInv, Types, Wait, LimitsAssumption
<1>2. Bounds'
  <2>1. elapsed' <= Timeout + 0 * Grace /\ elapsed' <= Timeout + 1 * Grace
    BY <1>1
  <2>2. QED
    BY <1>1, <2>1 DEF GraphInv, Bounds
<1>3. Track'
  BY <1>1 DEF GraphInv, Track, WholeOr, Cut, Noted
<1>4. QED
  BY <1>1, <1>2, <1>3 DEF GraphInv, Types, Alive, Counted

-----------------------------------------------------------------------------
(* What the nodes hand over.                                                *)

LEMMA SpentFits ==
    ASSUME state.exhausted \in BOOLEAN, NEW s \in States, NEW spent \in {state.exhausted, TRUE},
           s.status = state.status, s.steps = state.steps, s.revisions = state.revisions,
           node \notin {"critic", "critic_final"} => s.critiques = state.critiques,
           s.errors \cap Ceilings = state.errors \cap Ceilings,
           "blocking" \in s.errors => node = "planner",
           NEW delta, delta = [s EXCEPT !.exhausted = spent]
    PROVE  Fits(delta)
<1>1. spent \in BOOLEAN /\ (state.exhausted => spent)
  OBVIOUS
<1>2. /\ delta \in States /\ delta.status = s.status /\ delta.steps = s.steps
      /\ delta.revisions = s.revisions /\ delta.critiques = s.critiques
      /\ delta.errors = s.errors /\ delta.exhausted = spent
  BY <1>1 DEF States
<1>3. QED
  BY <1>1, <1>2 DEF Fits

LEMMA AnswerFits ==
    ASSUME GraphInv, MayRun, NEW s \in Answers(node, state), NEW spent \in {state.exhausted, TRUE},
           NEW delta, delta = [s EXCEPT !.exhausted = spent]
    PROVE  Fits(delta)
<1>1. /\ state \in States /\ state.exhausted \in BOOLEAN /\ "blocking" \notin state.errors
  BY DEF GraphInv, Types, Alive, MayRun, States
<1>2. /\ s \in States /\ s.status = state.status /\ s.steps = state.steps
      /\ s.revisions = state.revisions /\ s.errors = state.errors
      /\ node \notin {"critic", "critic_final"} => s.critiques = state.critiques
  <2>1. CASE node = "planner"
    <3>1. PICK p \in Plans : s = [state EXCEPT !.plan = p]
      BY <2>1 DEF Answers
    <3>2. QED
      BY <1>1, <3>1 DEF States
  <2>2. CASE node \in {"critic", "critic_final"}
    <3>1. PICK c \in Critiques : s = [state EXCEPT !.critiques =
              LET all == Append(@, c) IN IF Len(all) <= 2 THEN all ELSE Tail(all)]
      BY <2>2 DEF Answers
    <3> DEFINE all == Append(state.critiques, c)
               kept == IF Len(all) <= 2 THEN all ELSE Tail(all)
    <3>2. state.critiques \in Seq(Critiques)
      BY <1>1 DEF States
    <3>3. all \in Seq(Critiques) /\ Len(all) = Len(state.critiques) + 1
      BY <3>2
    <3>4. kept \in Seq(Critiques)
      <4>1. all # <<>> => Tail(all) \in Seq(Critiques)
        BY <3>3
      <4>2. QED
        BY <3>2, <3>3, <4>1
    <3>5. s = [state EXCEPT !.critiques = kept]
      BY <3>1
    <3> HIDE DEF kept
    <3>6. QED
      BY <1>1, <2>2, <3>4, <3>5 DEF States
  <2>3. CASE node = "report"
    <3>1. s = [state EXCEPT !.report = TRUE]
      BY <2>3 DEF Answers
    <3>2. QED
      BY <1>1, <3>1 DEF States
  <2>4. CASE node \notin {"planner", "critic", "critic_final", "report"}
    BY <1>1, <2>4 DEF Answers
  <2>5. QED
    BY <2>1, <2>2, <2>3, <2>4
<1>3. QED
  BY <1>1, <1>2, SpentFits

LEMMA FailFits ==
    ASSUME GraphInv, MayRun, NEW s \in Failed(node, state), NEW spent \in {state.exhausted, TRUE},
           NEW delta, delta = [s EXCEPT !.exhausted = spent]
    PROVE  Fits(delta)
<1>1. /\ state \in States /\ state.exhausted \in BOOLEAN /\ "blocking" \notin state.errors
  BY DEF GraphInv, Types, Alive, MayRun, States
<1>2. PICK f \in (IF node = "planner" THEN Failures ELSE {"recoverable"}) :
         s = [state EXCEPT !.errors = @ \cup {f}]
  BY DEF Failed
<1>3. /\ f \in Failures /\ f \notin Ceilings /\ (f = "blocking" => node = "planner")
  BY DEF Failures, Ceilings
<1>4. state.errors \cup {f} \in SUBSET (Reasons \cup Failures)
  BY <1>1, <1>3 DEF States
<1>5. /\ s \in States /\ Same(s, state) /\ s.status = state.status
      /\ s.errors = state.errors \cup {f}
      /\ s.steps = state.steps /\ s.revisions = state.revisions
  <2> DEFINE e == state.errors \cup {f}
  <2>1. s = [state EXCEPT !.errors = e] /\ e \in SUBSET (Reasons \cup Failures)
    BY <1>2, <1>4
  <2> HIDE DEF e
  <2>2. /\ s \in States /\ Same(s, state) /\ s.status = state.status /\ s.errors = e
        /\ s.steps = state.steps /\ s.revisions = state.revisions
    BY <1>1, <2>1, WithErrors
  <2>3. QED
    BY <2>2 DEF e
<1>6. QED
  BY <1>1, <1>3, <1>5, SpentFits DEF Same

-----------------------------------------------------------------------------
LEMMA InitHolds == GraphInit => GraphInv
<1> SUFFICES ASSUME GraphInit PROVE GraphInv
  OBVIOUS
<1>1. state \in States
  <2>1. Entry.plan \in Plans \cup {Entry.plan} /\ <<>> \in Seq(Critiques)
    OBVIOUS
  <2>2. QED
    BY <2>1 DEF GraphInit, Entry, States, Status
<1>2. /\ node = "planner" /\ state.status = "queued" /\ state.errors = {}
      /\ state.steps = 0 /\ state.revisions = 0 /\ elapsed = 0 /\ ran = {} /\ rewrites = 0
  BY DEF GraphInit, Entry
<1>3. Types /\ Alive
  BY <1>1, <1>2 DEF Types, Alive, Nodes, Stages, End, Ended
<1>4. Bounds /\ Counted
  BY <1>2, LimitsAssumption DEF Bounds, Counted, LimitsAssumption, End
<1>5. Track
  BY <1>2 DEF Track, Noted, Behind, Exit, End
<1>6. QED
  BY <1>3, <1>4, <1>5 DEF GraphInv

LEMMA StepKeeps == GraphInv /\ [GraphNext]_graphVars => GraphInv'
<1> SUFFICES ASSUME GraphInv, [GraphNext]_graphVars PROVE GraphInv'
  OBVIOUS
<1>1. ASSUME MayRun, NEW delta, Fits(delta), NEW d \in 0..Slice(node, elapsed), Land(delta, d)
      PROVE  GraphInv'
  BY <1>1, StageKeeps, ExitKeeps
<1>2. CASE Answer
  <2>1. PICK d \in 0..Slice(node, elapsed), s \in Answers(node, state), spent \in {state.exhausted, TRUE} :
           Land([s EXCEPT !.exhausted = spent], d)
    BY <1>2 DEF Answer
  <2>2. QED
    BY <1>1, <1>2, <2>1, AnswerFits DEF Answer
<1>3. CASE Fail
  <2>1. PICK d \in 0..Slice(node, elapsed), s \in Failed(node, state), spent \in {state.exhausted, TRUE} :
           Land([s EXCEPT !.exhausted = spent], d)
    BY <1>3 DEF Fail
  <2>2. QED
    BY <1>1, <1>3, <2>1, FailFits DEF Fail
<1>4. CASE TimeOut
  <2> DEFINE delta == [state EXCEPT !.errors = @ \cup {"recoverable"}]
  <2>1. MayRun /\ Land(delta, Slice(node, elapsed)) /\ state \in States /\ elapsed \in Nat
        /\ "blocking" \notin state.errors
    BY <1>4 DEF TimeOut, GraphInv, Types, Alive, MayRun
  <2>2. state.errors \cup {"recoverable"} \in SUBSET (Reasons \cup Failures)
    BY <2>1 DEF States, Failures
  <2>3. /\ delta \in States /\ Same(delta, state) /\ delta.status = state.status
        /\ delta.errors = state.errors \cup {"recoverable"}
        /\ delta.steps = state.steps /\ delta.revisions = state.revisions
    BY <2>1, <2>2, WithErrors
  <2> HIDE DEF delta
  <2>4. Fits(delta)
    BY <2>1, <2>3 DEF Fits, Same, Ceilings
  <2>5. Slice(node, elapsed) \in 0..Slice(node, elapsed)
    BY <2>1, SliceBounds
  <2>6. QED
    BY <1>1, <2>1, <2>4, <2>5
<1>5. CASE UNCHANGED graphVars
  BY <1>5 DEF graphVars, GraphInv, Types, Alive, Bounds, Counted, Track, WholeOr, Cut, Noted
<1>6. QED
  BY <1>2, <1>3, <1>4, <1>5, SkipKeeps, WaitKeeps DEF GraphNext, Step

\* check_guards, _node_timeout, _enforce_revision_progress: whatever the nodes
\* answer and however long they take, a run keeps its steps, its time and its
\* rewrites within the limits.
THEOREM WithinLimitsHolds == GraphSpec => []WithinLimits
<1>1. GraphInv => WithinLimits
  <2>1. StepCeiling \in Nat /\ Timeout \in Nat /\ Grace \in Nat
    BY LimitsAssumption DEF LimitsAssumption
  <2>2. QED
    BY <2>1 DEF GraphInv, Types, Bounds, Counted, WithinLimits, States
<1>2. QED
  BY <1>1, InitHolds, StepKeeps, PTL DEF GraphSpec

\* _halt_delta, _record_halt, _stamp_status: a status is terminal exactly at
\* rest, and a run that ends without one of its stages, its plan not rejected,
\* names the ceiling or the failure that cut it short.
THEOREM CutIsToldHolds == GraphSpec => []CutIsTold
<1>1. GraphInv => CutIsTold
  BY DEF GraphInv, Alive, Track, WholeOr, Noted, CutIsTold, Ceilings
<1>2. QED
  BY <1>1, InitHolds, StepKeeps, PTL DEF GraphSpec

================================================================================
