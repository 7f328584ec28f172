------------------------------ MODULE AgentGraph ------------------------------
(* The investigation graph: agents/graph.py wraps every node, agents/       *)
(* router.py decides every edge.  One state travels along the nodes; a step *)
(* is one superstep: the wrapper's guard, the node's own work, the          *)
(* bookkeeping and stamps of the wrapper, and the edge that names the next  *)
(* node.  Guards are read twice, at the edge and again at the entry, and    *)
(* time may pass in between.                                                *)
EXTENDS Integers, Sequences, FiniteSetsExt

CONSTANTS
    StepCeiling,   \* INVESTIGATION_MAX_STEPS
    MaxRevisions,  \* MAX_CRITIC_REVISIONS
    Timeout,       \* the deadline: INVESTIGATION_TIMEOUT_SECONDS after the start
    Grace,         \* what the exit path keeps past it
    Plans,         \* what the Planner may answer: [size |-> 1.., fresh |-> BOOLEAN]
    Critiques,     \* what the Critic may answer:
                   \* [verdict, unresolved (findings), sha256, target]
    NoHash         \* a critique that reports no artifact_sha256

ASSUME LimitsAssumption ==
    /\ StepCeiling \in Nat \ {0} /\ MaxRevisions \in Nat
    /\ Timeout \in Nat \ {0} /\ Grace \in Nat \ {0}

ASSUME InputsAssumption ==
    /\ \A p \in Plans : p.size \in Nat \ {0} /\ p.fresh \in BOOLEAN
    /\ \A c \in Critiques : c.unresolved \in Nat

End  == "END"
Exit == {"report", "critic_final"}            \* TERMINAL_NODES
Stages == {"planner", "retriever", "graph_expansion", "insight", "strategy", "critic"}
Nodes  == Stages \cup Exit \cup {"collector"}
FixedTail == 5                                \* FIXED_TAIL_STEPS

Ended  == {"completed", "completed_with_findings", "failed", "cancelled"}
Status == Ended \cup {"queued", "planning", "running", "reflecting"}

Ceilings == {"max_steps_exceeded", "deadline_exceeded", "token_budget_exhausted"}
Reasons  == Ceilings \cup {"cancelled", "blocking_error"}
\* What a node of its own leaves in errors: a failure the run survives, and
\* the Planner's, which it does not.
Failures == {"recoverable", "blocking"}

\* The counters stop one past what the properties allow.
StepCap == StepCeiling + 3
Horizon == Timeout + 2 * Grace + 1

VARIABLES
    node,      \* the node scheduled next
    state,     \* InvestigationState, the parts the graph reads
    elapsed,
    ran,       \* history: the nodes that have run, the rejected plan too
    rewrites   \* history: how often the Critic's edge went back

graphVars == <<node, state, elapsed, ran, rewrites>>

Entry == [plan |-> [size |-> 0, fresh |-> FALSE], status |-> "queued", errors |-> {},
          steps |-> 0, exhausted |-> FALSE, report |-> FALSE,
          critiques |-> <<>>, revisions |-> 0]

GraphInit ==
    /\ node = "planner" /\ state = Entry
    /\ elapsed = 0 /\ ran = {} /\ rewrites = 0

-----------------------------------------------------------------------------
(* The guards.                                                              *)

Halt(reason, route, status) == [reason |-> reason, route |-> route, status |-> status]
Ceiling(reason) == Halt(reason, "report", "completed_with_findings")
NoHalt == Halt("none", "none", "none")

\* The predicates of check_guards in their order, on state s at time t.
Predicates(s, t) == <<
    <<s.status \in Ended,          Halt("cancelled", End, s.status)>>,
    <<"blocking" \in s.errors,     Halt("blocking_error", End, "failed")>>,
    <<s.steps >= StepCeiling,   Ceiling("max_steps_exceeded")>>,
    <<t >= Timeout,                Ceiling("deadline_exceeded")>>,
    <<s.exhausted,                 Ceiling("token_budget_exhausted")>> >>

Guard(s, t) ==
    LET fired == {i \in 1..5 : Predicates(s, t)[i][1]}
    IN  IF fired = {} THEN NoHalt ELSE Predicates(s, t)[Min(fired)][2]

Exempt(n, halt) == n \in Exit /\ halt.route # End

-----------------------------------------------------------------------------
(* The edges.                                                               *)

Latest(s) == s.critiques[Len(s.critiques)]
Asked(s)  == s.critiques # <<>> /\ Latest(s).verdict = "revise"
Twice(s)  == Len(s.critiques) >= 2
Unchanged(s) ==
    Twice(s) /\ Latest(s).sha256 # NoHash /\ Latest(s).sha256 = s.critiques[Len(s.critiques) - 1].sha256
Stalled(s) ==
    Twice(s) /\ Latest(s).unresolved >= s.critiques[Len(s.critiques) - 1].unresolved

Reentered(s) ==
    /\ Asked(s)
    /\ s.revisions < MaxRevisions
    /\ ~Unchanged(s) /\ ~Stalled(s)

Reentry(c) == IF c.target \in {"retriever", "insight", "strategy"} THEN c.target ELSE "insight"

TooLarge(s) == s.steps + s.plan.size + FixedTail > StepCeiling

Onward(n, s) ==
    CASE n = "planner"         -> IF TooLarge(s) THEN "report"
                                  ELSE IF s.plan.fresh THEN "collector" ELSE "retriever"
      [] n = "collector"       -> "retriever"
      [] n = "retriever"       -> "graph_expansion"
      [] n = "graph_expansion" -> "insight"
      [] n = "insight"         -> "strategy"
      [] n = "strategy"        -> "critic"
      [] n = "critic"          -> IF Reentered(s) THEN Reentry(Latest(s)) ELSE "report"

\* The two edges of the exit path are not guarded.
ExitEdge(n) == IF n = "report" THEN "critic_final" ELSE End

\* A stage that passed a ceiling is tried again instead of given up.
RouteRetried(n, s, t) ==
    IF n \in Exit THEN ExitEdge(n)
    ELSE IF Guard(s, t) = NoHalt THEN Onward(n, s)
    ELSE IF Guard(s, t).route = End THEN End ELSE n

Route(n, s, t) ==
    IF n \in Exit THEN ExitEdge(n)
    ELSE IF Guard(s, t) # NoHalt THEN Guard(s, t).route ELSE Onward(n, s)

-----------------------------------------------------------------------------
(* The wrapper.                                                             *)

Phase(n) == CASE n = "planner" -> "planning"
              [] n = "critic"  -> "reflecting"
              [] OTHER         -> "running"

TerminalStatus(s, t) ==
    IF "blocking" \in s.errors THEN "failed"
    ELSE IF /\ Guard(s, t) = NoHalt
            /\ s.report
            /\ s.critiques # <<>> /\ Latest(s).verdict = "accept" /\ Latest(s).unresolved = 0
         THEN "completed" ELSE "completed_with_findings"

StampStatus(n, s, t) ==
    [s EXCEPT !.status = IF n = "critic_final" THEN TerminalStatus(s, t)
                         ELSE IF Guard(s, t).route = End THEN Guard(s, t).status
                         ELSE Phase(n)]

\* Only a skipped node says why.
RecordNothing(halt, s) == s

\* A halted run says why, once.
RecordHalt(halt, s) == [s EXCEPT !.errors = @ \cup ({halt.reason} \ {"none"})]

\* Only a Critic that answered counts.
CountAnswers(n, before, after) ==
    IF n = "critic" /\ Asked(before) /\ after.critiques # before.critiques
    THEN [after EXCEPT !.revisions = @ + 1] ELSE after

\* The Critic counts the revision it was re-entered for, whether or not it
\* answers this time.
Count(n, before, after) ==
    IF n = "critic" /\ Asked(before) THEN [after EXCEPT !.revisions = @ + 1] ELSE after

\* What is left of the run, at least a second of it (MIN_NODE_TIMEOUT), and
\* on the exit path at least the grace.
Slice(n, t) ==
    LET left == IF n \in Exit THEN Max({Timeout - t, Grace}) ELSE Timeout - t
    IN  Max({1, Min({Timeout, left})})

-----------------------------------------------------------------------------
(* The nodes.                                                               *)

Answers(n, s) ==
    CASE n = "planner" -> {[s EXCEPT !.plan = p] : p \in Plans}
      [] n \in {"critic", "critic_final"} ->
           {[s EXCEPT !.critiques =
                LET all == Append(@, c)
                IN  IF Len(all) <= 2 THEN all ELSE Tail(all)] : c \in Critiques}
      [] n = "report" -> {[s EXCEPT !.report = TRUE]}
      [] OTHER -> {s}

\* A failure of an agent.  Only the Planner is marked blocking, and only an
\* output outside its schema carries the mark.
Failed(n, s) ==
    {[s EXCEPT !.errors = @ \cup {f}] :
        f \in IF n = "planner" THEN Failures ELSE {"recoverable"}}

\* The node ran from t for d: its delta lands, the wrapper's bookkeeping is
\* applied and the edge is taken.
Land(delta, d) ==
    \E t \in {Min({elapsed + d, Horizon})} :
    \E said \in {RecordHalt(Guard(state, elapsed), [delta EXCEPT !.steps = Min({@ + 1, StepCap})])} :
    \E after \in {StampStatus(node, Count(node, state, said), t)} :
        /\ state' = after
        /\ elapsed' = t
        /\ node'  = Route(node, after, t)
        /\ ran'   = ran \cup {node} \cup
                    (IF node = "planner" /\ Guard(after, t) = NoHalt /\ TooLarge(after)
                     THEN {"rejected"} ELSE {})
        /\ rewrites' = IF node = "critic" /\ node' \in Stages THEN rewrites + 1 ELSE rewrites

MayRun == node # End /\ (Guard(state, elapsed) = NoHalt \/ Exempt(node, Guard(state, elapsed)))

\* The node answers or fails within its slice; either may have spent the
\* last of the tokens, and an agent reports its tokens on both paths.
Answer ==
    /\ MayRun
    /\ \E d \in 0..Slice(node, elapsed), s \in Answers(node, state), spent \in {state.exhausted, TRUE} :
           Land([s EXCEPT !.exhausted = spent], d)

Fail ==
    /\ MayRun
    /\ \E d \in 0..Slice(node, elapsed), s \in Failed(node, state), spent \in {state.exhausted, TRUE} :
           Land([s EXCEPT !.exhausted = spent], d)

\* The slice ends first: a recoverable error, and the node's tokens are lost.
TimeOut ==
    /\ MayRun
    /\ Land([state EXCEPT !.errors = @ \cup {"recoverable"}], Slice(node, elapsed))

\* A guard fired between the edge and the entry: the node is skipped.  It
\* counts no step, and only a run that ends here is stamped.
Skip ==
    /\ node # End
    /\ LET halt  == Guard(state, elapsed)
           after == [RecordHalt(halt, state) EXCEPT
                        !.status = IF halt.route = End THEN halt.status ELSE @]
       IN  /\ halt # NoHalt /\ ~Exempt(node, halt)
           /\ state' = after
           /\ node'  = Route(node, after, elapsed)
    /\ UNCHANGED <<elapsed, ran, rewrites>>

\* The checkpoint is written, the process is busy: time passes between an
\* edge and the entry it chose.  Past the deadline no guard can tell.
Wait ==
    /\ node # End /\ elapsed < Timeout
    /\ elapsed' = elapsed + 1
    /\ UNCHANGED <<node, state, ran, rewrites>>

Step == Answer \/ Fail \/ TimeOut \/ Skip
GraphNext == Step \/ Wait
GraphSpec == GraphInit /\ [][GraphNext]_graphVars

\* A node is under asyncio.timeout, so each superstep comes to an end.
FairGraphSpec == GraphSpec /\ WF_graphVars(Step)

-----------------------------------------------------------------------------
(* Properties.                                                              *)

\* The state keeps its types, and the counters stay below their caps.
GraphTypeOK ==
    /\ node \in Nodes \cup {End}
    /\ state.status \in Status
    /\ state.errors \subseteq Reasons \cup Failures
    /\ state.plan \in Plans \cup {Entry.plan}
    /\ state.critiques \in UNION {[1..k -> Critiques] : k \in 0..2}
    /\ state.steps \in 0..StepCap /\ state.revisions \in Nat
    /\ {state.exhausted, state.report} \subseteq BOOLEAN
    /\ elapsed \in 0..Horizon
    /\ ran \subseteq Nodes \cup {"rejected"} /\ rewrites \in Nat

\* check_guards, _node_timeout, _enforce_revision_progress: the steps pass
\* their ceiling by no more than the two nodes of the exit path, the time by no
\* more than a grace for each; and however the Critic answers, even if it fails
\* on every pass, no more than MAX_CRITIC_REVISIONS rewrites are made.
WithinLimits ==
    /\ state.steps <= StepCeiling + 2
    /\ elapsed <= Timeout + 2 * Grace
    /\ rewrites <= MaxRevisions

\* _halt_delta, _record_halt, _stamp_status: a status is terminal exactly when
\* the run has come to rest, and a run that ends without one of its stages says
\* in errors what cut it short - whichever of the two readings of the guard
\* fired and whichever node ran after it - and is not called completed.  (A
\* plan rejected by route_after_planner is the exception: nothing records it.)
CutIsTold ==
    /\ node = End <=> state.status \in Ended
    /\ (node = End /\ ~(Stages \subseteq ran) /\ "rejected" \notin ran) =>
          state.errors \cap (Ceilings \cup {"blocking"}) # {} /\ state.status # "completed"

\* Every run comes to rest, whatever its nodes do.
Terminates == <>(node = End)
=============================================================================
