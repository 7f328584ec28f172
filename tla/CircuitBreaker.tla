---------------------------- MODULE CircuitBreaker ----------------------------
(* connectors/ratelimit/backoff.py: retry_page runs an operation in a retry   *)
(* envelope behind the circuit of its account.  The runs of one process       *)
(* share the circuit, and every call and every sleep lets the others go on.   *)
EXTENDS Integers, FiniteSets, FiniteSetsExt

CONSTANTS
    Runs,         \* the calls of retry_page for one account
    Threshold,    \* failure_threshold
    OpenFor,      \* open_seconds
    MaxAttempts,  \* BackoffPolicy.max_attempts
    Budget,       \* total_budget_seconds
    DelayCap,     \* cap_seconds
    HoldAbove,    \* quota_threshold_seconds
    RetryAfters,  \* what a provider may ask to wait
    TimeEnd       \* the clock stops here

ASSUME BreakerAssumption ==
    /\ Runs # {} /\ IsFiniteSet(Runs)
    /\ Threshold \in Nat \ {0}
    /\ {OpenFor, MaxAttempts, Budget, DelayCap, HoldAbove, TimeEnd} \subseteq Nat
    /\ RetryAfters \subseteq Nat

VARIABLES
    time,
    circuit,  \* [failures, until (-1: never tripped), probing]
    run,      \* per run: [at, attempts, since, wake]
    down,     \* history: the circuit has tripped and nothing succeeded since
    doomed    \* history: per run, its failures since the circuit last tripped

breakerVars == <<time, circuit, run, down, doomed>>

NoCircuit == [failures |-> 0, until |-> -1, probing |-> FALSE]
Resting   == [at |-> "rest", attempts |-> 0, since |-> 0, wake |-> 0]

BreakerInit ==
    /\ time = 0 /\ circuit = NoCircuit
    /\ run = [r \in Runs |-> Resting]
    /\ down = FALSE /\ doomed = [r \in Runs |-> 0]

-----------------------------------------------------------------------------
(* The circuit.                                                             *)

Tripped == circuit.until # -1
Open    == Tripped /\ time < circuit.until

\* A recovery probe closes the circuit until it fails.
CheckedCloses == IF Tripped THEN NoCircuit ELSE circuit

\* check past the timer: whoever comes is a probe.
Checked == IF Tripped THEN [circuit EXCEPT !.probing = TRUE, !.failures = 0] ELSE circuit

\* record_failure: a failed probe, or the last failure allowed, opens it.
FailureTrips == circuit.probing \/ circuit.failures + 1 >= Threshold
RecordFailure(r) ==
    /\ circuit' = [failures |-> circuit.failures + 1, probing |-> FALSE,
                   until |-> IF FailureTrips THEN time + OpenFor ELSE circuit.until]
    /\ down' = (down \/ FailureTrips)
    /\ doomed' = IF FailureTrips THEN [s \in Runs |-> 0]
                 ELSE IF down THEN [doomed EXCEPT ![r] = @ + 1] ELSE doomed

\* record_success forgets the circuit.
RecordSuccess == circuit' = NoCircuit /\ down' = FALSE /\ doomed' = [r \in Runs |-> 0]

-----------------------------------------------------------------------------
(* retry_page.                                                              *)

Refuse(r) ==
    /\ run[r].at = "rest" /\ Open
    /\ UNCHANGED breakerVars

Admit(r) ==
    /\ run[r].at = "rest" /\ ~Open
    /\ circuit' = Checked
    /\ run' = [run EXCEPT ![r] = [Resting EXCEPT !.at = "call", !.since = time]]
    /\ UNCHANGED <<time, down, doomed>>

Succeed(r) ==
    /\ run[r].at = "call"
    /\ RecordSuccess
    /\ run' = [run EXCEPT ![r] = Resting]
    /\ UNCHANGED time

\* A wait the provider asks for that is too long is a quota; the last attempt
\* and the budget of the envelope end the page as well.
GivesUp(r, wait, asked) ==
    \/ asked /\ wait > HoldAbove
    \/ run[r].attempts + 1 >= MaxAttempts
    \/ wait > Budget - (time - run[r].since)

\* next_delay: what the provider asks for, else full jitter below a ceiling
\* that doubles with each attempt.
Delays(r) == {<<w, TRUE>> : w \in RetryAfters} \cup
             {<<w, FALSE>> : w \in 0..Min({DelayCap, 2 ^ run[r].attempts})}

\* A permanent error, a quota, or a transient error there is no retry for.
GiveUp(r) ==
    /\ run[r].at = "call"
    /\ RecordFailure(r)
    /\ run' = [run EXCEPT ![r] = Resting]
    /\ UNCHANGED time

\* An error that is not the provider's is neither a failure nor a success.
Abort(r) ==
    /\ run[r].at = "call"
    /\ run' = [run EXCEPT ![r] = Resting]
    /\ UNCHANGED <<time, circuit, down, doomed>>

SleepBeforeRetry(r) ==
    /\ run[r].at = "call"
    /\ \E d \in Delays(r) :
          /\ ~GivesUp(r, d[1], d[2])
          /\ run' = [run EXCEPT ![r].at = "sleep", ![r].wake = time + d[1], ![r].attempts = @ + 1]
    /\ UNCHANGED <<time, circuit, down, doomed>>

Retry(r) ==
    /\ run[r].at = "sleep" /\ run[r].wake <= time
    /\ run' = [run EXCEPT ![r].at = "call", ![r].wake = 0]
    /\ UNCHANGED <<time, circuit, down, doomed>>

BreakerTick == time < TimeEnd /\ time' = time + 1 /\ UNCHANGED <<circuit, run, down, doomed>>

BreakerNext ==
    \/ BreakerTick
    \/ \E r \in Runs : \/ Refuse(r) \/ Admit(r) \/ Succeed(r)
                       \/ GiveUp(r) \/ Abort(r) \/ SleepBeforeRetry(r) \/ Retry(r)

BreakerSpec == BreakerInit /\ [][BreakerNext]_breakerVars

-----------------------------------------------------------------------------
(* Properties.                                                              *)

BreakerTypeOK ==
    /\ time \in 0..TimeEnd
    /\ circuit.failures \in Nat /\ circuit.until \in -1..(TimeEnd + OpenFor)
    /\ \A r \in Runs : run[r].at \in {"rest", "call", "sleep"} /\ run[r].attempts \in 0..MaxAttempts

\* check, record_failure: an account that is down is failed at most once by
\* each of its runs before the circuit opens again, whichever of them is the
\* probe, whatever was under way when it opened, and in whatever order they end.
ProbesBounded == down => \A r \in Runs : doomed[r] <= 1
=============================================================================
