---------------------------- MODULE InvestigationRun ----------------------------
(***************************************************************************)
(* workers/investigation_worker.py: how a queued investigation is claimed, *)
(* driven through the agent graph and finished, by the replicas of the     *)
(* worker, while requests cancel it through InvestigationService and the   *)
(* timeline hub (see TimelineHub) accepts or refuses its events.           *)
(*                                                                         *)
(* The graph is what the worker sees of it: nodes complete, it ends with a *)
(* status of its own (agents/router.py, terminal_status), or it raises.    *)
(* A replica's task for the run goes through the phases                    *)
(*   idle - claimed - driving - ending - told - idle,                      *)
(* or, once something in _execute raised, failing - failed - idle.         *)
(***************************************************************************)
EXTENDS InvestigationService, Integers

CONSTANTS
  Workers,    \* replicas of the investigation worker
  MaxNodes,   \* bound: node events of one drive
  MaxDeaths,  \* bound: tasks that die with their row claimed
  MayRaise,   \* the graph, the report store or the database may raise
  MayLose     \* a publish may fail

ASSUME RunAssumption ==
  /\ MaxNodes \in Nat /\ MaxDeaths \in Nat
  /\ MayRaise \in BOOLEAN /\ MayLose \in BOOLEAN

VARIABLES
  phase,      \* phase[w]
  driveSeq,   \* driveSeq[w]: `seq` of _drive
  execSeq,    \* execSeq[w]: `seq` of _execute
  outcome,    \* the status the graph ended with, or None
  hubSeq,     \* _Channel.last_seq
  hubEnd,     \* the status the accepted terminal event carried, or None
  returned,   \* history: a _drive ran to its last line
  deaths

drive   == <<phase, driveSeq, execSeq, outcome, returned, deaths>>
hub     == <<hubSeq, hubEnd>>
rest    == <<plans, stepCount, step, tokens>>
runVars == <<status, started, completed, error, plans, stepCount, step, tokens,
             call, phase, driveSeq, execSeq, outcome, hubSeq, hubEnd, returned,
             deaths>>

\* COMPLETED_WITH_FINDINGS for a report with gaps; everything else, a run
\* whose graph failed before it wrote a report included, is COMPLETED.
Outcomes == {"completed", "completed_with_findings", "failed"}
Recorded(o) == IF o = "completed_with_findings" THEN o ELSE "completed"

RunInit ==
  /\ Init
  /\ phase = [w \in Workers |-> "idle"]
  /\ driveSeq = [w \in Workers |-> 0] /\ execSeq = [w \in Workers |-> 0]
  /\ outcome = None
  /\ hubSeq = -1 /\ hubEnd = None
  /\ returned = FALSE /\ deaths = 0

PublishRepeated(seq, end) ==  \* mutant: the hub takes a seq it has already shown
  \/ /\ seq >= hubSeq
     /\ hubSeq' = seq
     /\ hubEnd' = IF end = None THEN hubEnd ELSE end
  \/ (seq < hubSeq \/ MayLose) /\ UNCHANGED hub

\* _emit: the publisher may fail, the hub refuses a seq it is already past;
\* neither is seen by the run.
Publish(seq, end) ==
  \/ /\ seq > hubSeq
     /\ hubSeq' = seq
     /\ hubEnd' = IF end = None THEN hubEnd ELSE end
  \/ (seq <= hubSeq \/ MayLose) /\ UNCHANGED hub

-----------------------------------------------------------------------------

\* SELECT ... FOR UPDATE SKIP LOCKED and its UPDATE are one transaction.
ClaimableAgain == status \in {"queued", "planning"}  \* mutant
Claimable == status = "queued"

Claim(w) ==
  /\ phase[w] = "idle"
  /\ Claimable
  /\ status' = "planning" /\ started' = TRUE
  /\ phase' = [phase EXCEPT ![w] = "claimed"]
  /\ UNCHANGED <<completed, error, rest, call, driveSeq, execSeq, outcome, hub,
                 returned, deaths>>

Begin(w) ==        \* the state is loaded, the first event emitted
  /\ phase[w] = "claimed"
  /\ phase' = [phase EXCEPT ![w] = "driving"]
  /\ Publish(0, None)
  /\ driveSeq' = [driveSeq EXCEPT ![w] = 1]
  /\ execSeq' = [execSeq EXCEPT ![w] = 1]
  /\ UNCHANGED <<header, rest, call, outcome, returned, deaths>>

NodeDone(w) ==     \* a node's delta: step.completed or step.started
  /\ phase[w] = "driving" /\ execSeq[w] <= MaxNodes
  /\ Publish(execSeq[w], None)
  /\ execSeq' = [execSeq EXCEPT ![w] = @ + 1]
  /\ UNCHANGED <<header, rest, call, phase, driveSeq, outcome, returned, deaths>>

GraphEnds(w) ==
  /\ phase[w] = "driving"
  /\ outcome' \in Outcomes
  /\ phase' = [phase EXCEPT ![w] = "ending"]
  /\ UNCHANGED <<header, rest, call, driveSeq, execSeq, hub, returned, deaths>>

Raise(w) ==
  /\ MayRaise /\ phase[w] \in {"driving", "ending"}
  /\ phase' = [phase EXCEPT ![w] = "failing"]
  /\ UNCHANGED <<header, rest, call, driveSeq, execSeq, outcome, hub, returned, deaths>>

\* _finish: UPDATE ... WHERE id, whatever the row says by now.
FinishOk(w) ==
  /\ phase[w] = "ending"
  /\ status' = Recorded(outcome) /\ completed' = TRUE
  /\ phase' = [phase EXCEPT ![w] = "told"]
  /\ UNCHANGED <<started, error, rest, call, driveSeq, execSeq, outcome, hub,
                 returned, deaths>>

FinishFailedQuietly(w) ==  \* mutant: the crash is logged, the row left alone
  /\ phase[w] = "failing"
  /\ phase' = [phase EXCEPT ![w] = "failed"]
  /\ UNCHANGED <<header, rest, call, driveSeq, execSeq, outcome, hub, returned, deaths>>
FinishFailed(w) ==
  /\ phase[w] = "failing"
  /\ status' = "failed" /\ completed' = TRUE /\ error' = TRUE
  /\ phase' = [phase EXCEPT ![w] = "failed"]
  /\ UNCHANGED <<started, rest, call, driveSeq, execSeq, outcome, hub, returned, deaths>>

EmitDone(w) ==
  /\ phase[w] = "told"
  /\ Publish(execSeq[w], Recorded(outcome))
  /\ phase' = [phase EXCEPT ![w] = "idle"]
  /\ returned' = TRUE
  /\ UNCHANGED <<header, rest, call, driveSeq, execSeq, outcome, deaths>>

\* The exception left _execute, and _drive's own `seq` is where it was.
EmitError(w) ==
  /\ phase[w] = "failed"
  /\ Publish(driveSeq[w], "failed")
  /\ phase' = [phase EXCEPT ![w] = "idle"]
  /\ returned' = TRUE
  /\ UNCHANGED <<header, rest, call, driveSeq, execSeq, outcome, deaths>>

\* The process dies, the task is cancelled by a shutdown, the state cannot be
\* loaded (outside the try), or _finish itself raises on the failure path.
Die(w) ==
  /\ phase[w] # "idle" /\ deaths < MaxDeaths
  /\ deaths' = deaths + 1
  /\ phase' = [phase EXCEPT ![w] = "idle"]
  /\ UNCHANGED <<header, rest, call, driveSeq, execSeq, outcome, hub, returned>>

\* POST /cancel: the only lifecycle call a request makes.
Cancel(c) ==
  /\ ReadStatus(c, "cancelled") \/ WriteStatus(c)
  /\ UNCHANGED <<drive, hub>>

Drive(w) ==
  \/ Begin(w) \/ NodeDone(w) \/ GraphEnds(w) \/ Raise(w)
  \/ FinishOk(w) \/ FinishFailed(w) \/ EmitDone(w) \/ EmitError(w)

RunNext ==
  \/ \E w \in Workers : Claim(w) \/ Drive(w) \/ Die(w)
  \/ \E c \in Callers : Cancel(c)

RunSpec == RunInit /\ [][RunNext]_runVars

\* The poll loop ticks, the event loop runs every task it was given.
FairRun == RunSpec /\ \A w \in Workers : WF_runVars(Claim(w)) /\ WF_runVars(Drive(w))

-----------------------------------------------------------------------------
(* Properties.                                                             *)

\* However many replicas poll, one task drives the run.
OneDriver == Cardinality({w \in Workers : phase[w] # "idle"}) <= 1

\* Once the stream has said how the run ended, the row says the same, and
\* keeps saying it although requests to cancel were in flight.
StreamAgreesWithRow == hubEnd # None => status = hubEnd

\* _claim, _finish, _emit: whatever the replicas, the requests to cancel and the
\* hub do, a run gets one result, which is never rewritten; the stream goes
\* forward, tells nothing but that result, and nothing happens after its end.
Record == INSTANCE RunRecord WITH taken <- started, last <- hubSeq, end <- hubEnd
ImplementsRecord == Record!Spec

\* A run somebody queued ends, cancelled or not, whatever it raises, unless the
\* task that drives it dies.
RunEnds == <>(status \in Final \/ deaths > 0)

\* investigation_service.py: a terminal state is the record of how the run
\* ended, and is not rewritten.
EndIsFinal == [][(status \in Final) => (status' = status)]_runVars

\* investigation_worker.py: a run that crashes emits a terminal error event,
\* or the client's stream never closes.
ReturnedIsTold == returned => hubEnd # None

=============================================================================
