------------------------------ MODULE ModelCalls ------------------------------
(* agents/base.py, services/llm/router.py: how the nodes of one run pay for   *)
(* the model.  A node takes its budget from what the run has booked, executes *)
(* under a retry policy - a call of the model, then tools - and books its     *)
(* ledger whether it succeeds or fails; a call goes down the ladder of tiers  *)
(* while the provider is overloaded.                                          *)
EXTENDS Integers

CONSTANTS
    Limit,         \* token_budget_per_investigation
    Pressure,      \* pressure_fraction, in percent
    CallAttempts,  \* RetryPolicy.max_attempts
    MaxCost,       \* the most billable tokens one answer reports
    MaxNodes       \* bound: nodes of the run

ASSUME CallsAssumption ==
    /\ {Limit, MaxCost, CallAttempts} \subseteq Nat \ {0}
    /\ Pressure \in 0..100 /\ MaxNodes \in Nat

VARIABLES
    booked,   \* tokens_spent of the run's state
    exits,    \* nodes of the exit path that were entered
    entered,  \* nodes that were entered
    active    \* the one that runs: [at, kind, asked, tier, spent, ledger, attempt, sent, shed]

callVars == <<booked, exits, entered, active>>

Fast    == 1
Planner == 3
Tiers   == Fast..Planner

NoNode == [at |-> "idle", kind |-> "loop", asked |-> Fast, tier |-> Fast, spent |-> 0,
           ledger |-> 0, attempt |-> 1, sent |-> 0, shed |-> FALSE]

CallsInit == booked = 0 /\ exits = 0 /\ entered = 0 /\ active = NoNode

\* The Critic and the Report may overdraw by a quarter, wherever they run.
Overdraft  == (Limit * 5) \div 4
Allowed(k) == IF k = "loop" THEN Limit ELSE Overdraft

\* Mutant of Seed: a fresh budget for every node.
SeedAfresh == 0

\* The ceiling is the run's: a node goes on from what the others booked.
Seed == booked

\* The guard of the graph skips a node once the budget is gone, except on the
\* exit path: the Report and the last pass of the Critic.
EnterNode(kind, tier) ==
    /\ active.at = "idle" /\ entered < MaxNodes
    /\ IF kind = "exit" THEN exits < 2 ELSE exits = 0 /\ booked < Limit
    /\ exits' = IF kind = "exit" THEN exits + 1 ELSE exits
    /\ entered' = entered + 1
    /\ active' = [NoNode EXCEPT !.at = "execute", !.kind = kind, !.asked = tier, !.tier = tier, !.spent = Seed]
    /\ UNCHANGED booked

-----------------------------------------------------------------------------
(* Inside one node.                                                         *)

\* What execute raised or returned, the ledger is booked.
Book ==
    /\ booked' = booked + active.ledger
    /\ active' = NoNode /\ UNCHANGED <<exits, entered>>

Executing(next) == active' = next /\ UNCHANGED <<booked, exits, entered>>

\* run_with_retry: the whole of execute again, on the same budget.
RetryOrBook ==
    IF active.attempt < CallAttempts
    THEN Executing([active EXCEPT !.attempt = @ + 1, !.at = "execute"])
    ELSE Book

Exhausted(k, spent) == spent >= Allowed(k)
UnderPressure(k, spent) ==
    /\ Pressure > 0 /\ 100 * (Allowed(k) - spent) <= Pressure * Allowed(k)
    /\ active.asked > Fast

\* RunBudget.check, then one tier down when little is left.
SendCall ==
    /\ active.at = "execute"
    /\ IF Exhausted(active.kind, active.spent) THEN Book
       ELSE LET low == UnderPressure(active.kind, active.spent) IN
            Executing([active EXCEPT !.at = "sent", !.sent = @ + 1, !.shed = @ \/ low,
                                   !.tier = IF low THEN active.asked - 1 ELSE active.asked])

Answered(c) ==
    /\ active.at = "sent"
    /\ Executing([active EXCEPT !.at = "answered", !.spent = @ + c, !.ledger = @ + c])

\* _is_overload: the next tier of the ladder, until there is none.
Overloaded ==
    /\ active.at = "sent"
    /\ IF active.tier > Fast
       THEN Executing([active EXCEPT !.tier = @ - 1, !.sent = @ + 1, !.shed = TRUE])
       ELSE RetryOrBook

\* A status that says later, of the provider or of a tool.
FailsForNow  == active.at # "idle" /\ RetryOrBook

\* An answer outside the schema, which is paid for and not metered, and every
\* other failure that a retry cannot mend; or the node's own result, which it
\* may reach without a call.
Ends == active.at # "idle" /\ Book

\* asyncio.timeout cancels the node, and its ledger goes with it.
TimesOut ==
    /\ active.at # "idle"
    /\ active' = NoNode /\ UNCHANGED <<booked, exits, entered>>

CallsNext ==
    \/ \E kind \in {"loop", "critic", "exit"}, tier \in Tiers : EnterNode(kind, tier)
    \/ SendCall
    \/ \E c \in 0..MaxCost : Answered(c)
    \/ Overloaded \/ FailsForNow \/ Ends \/ TimesOut

CallsSpec == CallsInit /\ [][CallsNext]_callVars

-----------------------------------------------------------------------------
(* Properties.                                                              *)

CallsTypeOK ==
    /\ booked \in Nat /\ exits \in 0..2 /\ entered \in 0..MaxNodes
    /\ active.at \in {"idle", "execute", "sent", "answered"}
    /\ active.tier \in Tiers /\ active.asked \in Tiers /\ active.attempt \in 1..CallAttempts

\* RunBudget, _context: over all nodes, retries and tiers, what is counted
\* overshoots the run's ceiling by one call at most - the overdraft of the exit
\* path included -, an attempt asks each of the three tiers once at most, and an
\* answer of a lower tier than the one asked for leaves a mark.
SpendBounded ==
    /\ booked + active.ledger < Overdraft + MaxCost
    /\ active.at # "idle" => active.spent = booked + active.ledger
    /\ active.at # "idle" /\ active.kind = "loop" => active.spent < Limit + MaxCost
    /\ active.sent <= CallAttempts * Planner
    /\ active.at = "answered" /\ active.tier < active.asked => active.shed
=============================================================================
