-------------------------- MODULE InvestigationService --------------------------
(***************************************************************************)
(* services/investigation_service.py: the lifecycle of one investigation   *)
(* row and of its steps, written by concurrent callers.                    *)
(*                                                                         *)
(* Each method reads the row, decides, and writes, in one READ COMMITTED   *)
(* transaction: what another caller committed in between is not seen by    *)
(* the decision.  So a method is two actions, its read (where it may       *)
(* refuse, and nothing happens) and its write.  The `expected` argument of *)
(* transition only refuses more and is left out.                           *)
(***************************************************************************)
EXTENDS Naturals, FiniteSets

CONSTANTS
  Callers,    \* requests and workers that call the service at once
  MaxSteps,   \* INVESTIGATION_MAX_STEPS
  MaxPlans,   \* bound: times a plan is recorded
  MaxTokens,  \* bound: a step is ended only below it
  None

VARIABLES
  status,      \* investigations.status
  started,     \* started_at is set
  completed,   \* completed_at is set
  error,       \* error is set
  plans,       \* times plan was written
  stepCount,   \* investigations.step_count
  step,        \* step[n]: status of the step with sequence n, or None
  tokens,      \* investigations.token_input, one per metered step
  call         \* call[c]: what c has read and is about to write, or None

header == <<status, started, completed, error>>
work   == <<stepCount, step, tokens>>
vars   == <<status, started, completed, error, plans, stepCount, step, tokens, call>>

Final    == {"completed", "completed_with_findings", "failed", "cancelled"}
Statuses == {"queued", "planning", "running", "reflecting"} \cup Final

\* ALLOWED_TRANSITIONS
Successors ==
  [s \in Statuses |->
     CASE s = "queued" -> {"planning", "running", "cancelled", "failed"}
       [] s = "planning" -> {"running", "cancelled", "failed"}
       [] s = "running" -> {"reflecting"} \cup Final
       [] s = "reflecting" -> {"running"} \cup Final
       [] OTHER -> {}]

StepFinal    == {"completed", "failed", "skipped", "cancelled"}
Metered      == {"completed", "failed"}   \* complete_step and fail_step roll usage up
StepStatuses == {"pending", "running"} \cup StepFinal

\* ALLOWED_STEP_TRANSITIONS
StepSuccessors ==
  [s \in StepStatuses |->
     CASE s = "pending" -> {"running", "skipped", "cancelled", "failed"}
       [] s = "running" -> {"completed", "failed", "cancelled"}
       [] OTHER -> {}]

ASSUME ServiceAssumption ==
  /\ MaxSteps \in Nat \ {0} /\ MaxPlans \in Nat /\ MaxTokens \in Nat
  /\ None \notin StepStatuses

Sequences == 0 .. MaxSteps - 1
Steps     == {n \in Sequences : step[n] # None}

Calls ==
  [op : {"transition"}, target : Statuses, read : Statuses, begun : BOOLEAN]
    \cup [op : {"plan"}]
    \cup [op : {"append"}, sequence : Sequences]
    \cup [op : {"step"}, sequence : Sequences, target : StepStatuses, moves : BOOLEAN]
    \cup {None}

TypeOK ==
  /\ status \in Statuses
  /\ started \in BOOLEAN /\ completed \in BOOLEAN /\ error \in BOOLEAN
  /\ plans \in 0 .. MaxPlans
  /\ stepCount \in 0 .. MaxSteps
  /\ step \in [Sequences -> StepStatuses \cup {None}]
  /\ tokens \in Nat
  /\ call \in [Callers -> Calls]

Init ==            \* create
  /\ status = "queued"
  /\ started = FALSE /\ completed = FALSE /\ error = FALSE
  /\ plans = 0
  /\ stepCount = 0 /\ step = [n \in Sequences |-> None] /\ tokens = 0
  /\ call = [c \in Callers |-> None]

Return(c) == call' = [call EXCEPT ![c] = None]

-----------------------------------------------------------------------------
(* transition, and start, resume, reflect, cancel, complete, fail on it.   *)

\* _require_transition: a live state may be re-entered, a terminal one never.
Permitted(s, target) == s \notin Final /\ (target = s \/ target \in Successors[s])

ReadStatus(c, target) ==
  /\ call[c] = None
  /\ Permitted(status, target)
  /\ call' = [call EXCEPT ![c] = [op |-> "transition", target |-> target,
                                  read |-> status, begun |-> started]]
  /\ UNCHANGED <<header, plans, work>>

Unswapped(c) == TRUE  \* mutant: UPDATE ... WHERE id only
Unmoved(c) == status = call[c].read

\* The columns of a transition, computed from the row as it was read: an end is
\* stamped only on a run that had started.
TransitionValues(c) ==
  LET t == call[c].target
      ended == t \in Final
  IN /\ status' = t
     /\ started' = (started \/ (t \in {"planning", "running"} /\ ~call[c].begun))
     /\ completed' = (completed \/ (ended /\ call[c].begun))
     /\ error' = IF ended THEN t \in {"failed", "cancelled"} ELSE error

\* The compare-and-swap: rowcount 0 is a ConflictError.
WriteStatus(c) ==
  /\ call[c] # None /\ call[c].op = "transition"
  /\ IF Unmoved(c) THEN TransitionValues(c) ELSE UNCHANGED header
  /\ Return(c)
  /\ UNCHANGED <<plans, work>>

-----------------------------------------------------------------------------
(* record_plan.                                                            *)

ReadForPlan(c) ==
  /\ call[c] = None
  /\ status \notin Final /\ plans < MaxPlans
  /\ call' = [call EXCEPT ![c] = [op |-> "plan"]]
  /\ UNCHANGED <<header, plans, work>>

WritePlan(c) ==
  /\ call[c] # None /\ call[c].op = "plan"
  /\ plans' = IF plans < MaxPlans THEN plans + 1 ELSE plans
  /\ Return(c)
  /\ UNCHANGED <<header, work>>

-----------------------------------------------------------------------------
(* append_step: the sequence is the step_count that was read, the count    *)
(* itself is incremented in SQL.                                           *)

WithinBudgetLate == stepCount <= MaxSteps  \* mutant
WithinBudget == stepCount < MaxSteps

ReadForAppend(c) ==
  /\ call[c] = None
  /\ status \notin Final /\ WithinBudget
  /\ call' = [call EXCEPT ![c] = [op |-> "append", sequence |-> stepCount]]
  /\ UNCHANGED <<header, plans, work>>

Untaken(n) == TRUE  \* mutant: no UNIQUE (investigation_id, sequence)
Free(n) == step[n] = None

\* An IntegrityError rolls insert and increment back together.
InsertStep(c) ==
  /\ call[c] # None /\ call[c].op = "append"
  /\ LET n == call[c].sequence IN
       IF Free(n)
       THEN /\ step' = [step EXCEPT ![n] = "pending"]
            /\ stepCount' = stepCount + 1
       ELSE UNCHANGED <<stepCount, step>>
  /\ Return(c)
  /\ UNCHANGED <<header, plans, tokens>>

-----------------------------------------------------------------------------
(* _transition_step, and start_step, complete_step, fail_step, skip_step.  *)

ReadStep(c, n, target) ==
  /\ call[c] = None
  /\ n \in Steps
  /\ step[n] \notin StepFinal
  /\ target \in Metered => tokens < MaxTokens
  /\ target = step[n] \/ target \in StepSuccessors[step[n]]
  /\ call' = [call EXCEPT ![c] = [op |-> "step", sequence |-> n, target |-> target,
                                  moves |-> target # step[n]]]
  /\ UNCHANGED <<header, plans, work>>

\* The UPDATE names the step only, and only the columns the read did not hold
\* already; what the step spent is added to the parent.
WriteStep(c) ==
  /\ call[c] # None /\ call[c].op = "step"
  /\ step' = IF call[c].moves
             THEN [step EXCEPT ![call[c].sequence] = call[c].target] ELSE step
  /\ tokens' = IF call[c].target \in Metered THEN tokens + 1 ELSE tokens
  /\ Return(c)
  /\ UNCHANGED <<header, plans, stepCount>>

-----------------------------------------------------------------------------

Targets == Statuses \ {"queued"}
StepTargets == {"running", "completed", "failed", "skipped"}

Next == \E c \in Callers :
  \/ \E t \in Targets : ReadStatus(c, t)
  \/ WriteStatus(c)
  \/ ReadForPlan(c) \/ WritePlan(c)
  \/ ReadForAppend(c) \/ InsertStep(c)
  \/ \E n \in Sequences, t \in StepTargets : ReadStep(c, n, t)
  \/ WriteStep(c)

Spec == Init /\ [][Next]_vars

-----------------------------------------------------------------------------
(* Properties.                                                             *)

\* Whatever callers race, the row only moves along ALLOWED_TRANSITIONS: a
\* terminal status is never rewritten, and the loser of a race overwrites no
\* decision it has not seen.
LegalMoves == [][status' # status => status' \in Successors[status]]_vars

\* The columns agree with the status although they are computed from an
\* earlier read: a run that started and ended has its end stamped, one that
\* never started has not (CHECK completed_after_started), and only a run that
\* failed or was cancelled carries an error.
ColumnsAgree ==
  /\ completed <=> (started /\ status \in Final)
  /\ status \in {"planning", "running", "reflecting"} => started
  /\ error <=> status \in {"failed", "cancelled"}

\* Appending callers never share a sequence number, leave a hole, exceed the
\* budget, or let step_count disagree with the steps there are.
StepsDense == stepCount <= MaxSteps /\ Steps = {n \in Sequences : n < stepCount}
=============================================================================
