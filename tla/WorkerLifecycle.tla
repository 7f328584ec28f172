---------------------------- MODULE WorkerLifecycle ----------------------------
(* workers/runtime/base_worker.py: how a worker starts, is asked to stop,    *)
(* drains and closes.  Three coroutines share one event loop - run itself,   *)
(* the task of _work and the task that refreshes the gauges - and a signal   *)
(* may arrive between any two of their steps.  Signal handlers are           *)
(* installed; dependencies answer a start, a stop and a probe sometime.      *)
EXTENDS Naturals

CONSTANTS
    Pause,      \* ticks the loop rests: the broker's retry, or the interval
    Delay,      \* initial_delay_seconds of a periodic worker
    DrainTime,  \* drain_timeout_seconds
    Refresh     \* collector_interval_seconds

ASSUME WorkerAssumption == {Pause, DrainTime, Refresh} \subseteq Nat \ {0} /\ Delay \in Nat

VARIABLES
    kind,       \* ConsumerWorker or PeriodicWorker
    main,       \* where run is
    loop,       \* where the task of _work is
    collector,  \* where the task of _collect_loop is
    asked,      \* the _shutdown event
    health,     \* HealthState: [ready, draining, started]
    listening,  \* the health server is up
    member,     \* the client of the consumer: "out", "joining", "in" or "leaving"
    left,       \* ticks each sleeper has left: [loop, drain, collector]
    cut         \* history: where the loop was when the drain ran out of time

workerVars == <<kind, main, loop, collector, asked, health, listening, member, left, cut>>

WorkerInit ==
    /\ kind \in {"consumer", "periodic"}
    /\ main = "setup" /\ loop = "none" /\ collector = "none"
    /\ asked = FALSE
    /\ health = [ready |-> FALSE, draining |-> FALSE, started |-> FALSE]
    /\ listening = FALSE /\ member = "out"
    /\ left = [loop |-> 0, drain |-> 0, collector |-> 0]
    /\ cut = "none"

-----------------------------------------------------------------------------
(* Sleeping and being woken.                                                *)

\* A wait that heeds nothing but its timer.
SleepIsOver(sleeper) == left[sleeper] = 0

\* _sleep_or_stop.
Woken(sleeper) == left[sleeper] = 0 \/ asked

\* asyncio.wait without its timeout.
Unlimited == FALSE

DrainExpired == left.drain = 0

\* asyncio.wait on the loop, with the shutdown event or with the deadline.
MainWoken ==
    \/ main = "waiting" /\ (asked \/ loop = "over")
    \/ main = "draining" /\ (DrainExpired \/ loop = "over")

\* Time passes only while every coroutine waits.
WorkerTick ==
    /\ ~MainWoken
    /\ ~(loop = "nap" /\ Woken("loop")) /\ ~(collector = "nap" /\ Woken("collector"))
    /\ \E s \in DOMAIN left : left[s] > 0
    /\ left' = [s \in DOMAIN left |-> IF left[s] = 0 THEN 0 ELSE left[s] - 1]
    /\ UNCHANGED <<kind, main, loop, collector, asked, health, listening, member, cut>>

\* request_shutdown: a repeated signal changes nothing.
RequestShutdown ==
    /\ main # "down" /\ ~asked
    /\ asked' = TRUE
    /\ health' = [health EXCEPT !.ready = FALSE, !.draining = TRUE]
    /\ UNCHANGED <<kind, main, loop, collector, listening, member, left, cut>>

-----------------------------------------------------------------------------
(* The task of _work.                                                       *)

\* What the loop does next when it is at its head: another batch or tick, or
\* the client is closed and the loop ends.
Turned == IF ~asked THEN "busy" ELSE IF kind = "consumer" THEN "leaving" ELSE "over"

\* The loop rests first; once a shutdown is asked for it does not.
RestFor(ticks) ==
    /\ loop' = IF asked \/ ticks = 0 THEN Turned ELSE "nap"
    /\ left' = [left EXCEPT !.loop = IF loop' = "nap" THEN ticks ELSE 0]

\* The client goes with the loop.
MemberAfter == IF loop' = "leaving" THEN "leaving" ELSE member

\* consumer.start answers, or raises outside of the try that stops it again.
Join ==
    /\ loop = "joining"
    /\ \/ /\ loop' = Turned /\ member' = IF asked THEN "leaving" ELSE "in"
          /\ health' = [health EXCEPT !.ready = TRUE]
       \/ loop' = "over" /\ UNCHANGED <<member, health>>
    /\ UNCHANGED <<kind, main, collector, asked, listening, left, cut>>

\* A batch or a tick ends.  A tick that fails is logged; a broker's failure is
\* waited out; any other failure of a batch ends the loop.
BatchEnds ==
    /\ loop = "busy"
    /\ \/ RestFor(Pause)
       \/ kind = "consumer" /\ loop' \in {Turned, "leaving"} /\ UNCHANGED left
    /\ member' = MemberAfter
    /\ UNCHANGED <<kind, main, collector, asked, health, listening, cut>>

NapEnds ==
    /\ loop = "nap" /\ Woken("loop")
    /\ loop' = Turned /\ left' = [left EXCEPT !.loop = 0]
    /\ member' = MemberAfter
    /\ UNCHANGED <<kind, main, collector, asked, health, listening, cut>>

\* consumer.stop, in the finally of the loop.
Leave ==
    /\ loop = "leaving"
    /\ loop' = "over" /\ member' = "out"
    /\ UNCHANGED <<kind, main, collector, asked, health, listening, left, cut>>

-----------------------------------------------------------------------------
(* The task of _collect_loop.                                               *)

GaugesEnd ==
    /\ collector = "gauges"
    /\ collector' = (IF asked THEN "over" ELSE "nap")
    /\ left' = [left EXCEPT !.collector = IF asked THEN 0 ELSE Refresh]
    /\ UNCHANGED <<kind, main, loop, asked, health, listening, member, cut>>

CollectorWakes ==
    /\ collector = "nap" /\ Woken("collector")
    /\ collector' = (IF asked THEN "over" ELSE "gauges")
    /\ left' = [left EXCEPT !.collector = 0]
    /\ UNCHANGED <<kind, main, loop, asked, health, listening, member, cut>>

-----------------------------------------------------------------------------
(* run.                                                                     *)

\* setup and the listener of the health server come up, or either raises.
Setup ==
    /\ main = "setup" /\ main' \in {"listen", "closing"}
    /\ UNCHANGED <<kind, loop, collector, asked, health, listening, member, left, cut>>

\* The listener is up: the collector and the loop are created as tasks.
Listen ==
    /\ main = "listen"
    /\ main' = "waiting" /\ listening' = TRUE
    /\ collector' = (IF asked THEN "over" ELSE "gauges")
    /\ IF kind = "consumer"
       THEN /\ loop' = "joining" /\ member' = "joining" /\ UNCHANGED left
            /\ health' = [health EXCEPT !.started = TRUE]
       ELSE /\ RestFor(Delay)
            /\ health' = [health EXCEPT !.started = TRUE, !.ready = TRUE]
            /\ UNCHANGED member
    /\ UNCHANGED <<kind, asked, cut>>

ListenFails ==
    /\ main = "listen" /\ main' = "closing"
    /\ UNCHANGED <<kind, loop, collector, asked, health, listening, member, left, cut>>

\* The finally of run: not ready, and the collector is cancelled.
Finally ==
    /\ main' = "closing"
    /\ health' = [health EXCEPT !.ready = FALSE, !.started = FALSE]
    /\ left' = [left EXCEPT !.drain = 0, !.collector = 0]
    /\ collector' = (IF collector = "none" THEN "none" ELSE "over")

\* The first wait ends.  A loop that is over has nothing left to drain.
Roused ==
    /\ main = "waiting" /\ MainWoken
    /\ IF loop = "over" THEN Finally
       ELSE /\ main' = "draining" /\ left' = [left EXCEPT !.drain = DrainTime]
            /\ UNCHANGED <<health, collector>>
    /\ UNCHANGED <<kind, loop, asked, listening, member, cut>>

Drained ==
    /\ main = "draining" /\ loop = "over"
    /\ Finally
    /\ UNCHANGED <<kind, loop, asked, listening, member, cut>>

\* Where a cancelled loop goes: a batch unwinds through the finally that stops
\* the client; a start or a stop of the client is itself cut off.
Unwound == IF kind = "consumer" /\ loop \in {"busy", "nap"} THEN "leaving" ELSE "over"

\* The loop is cancelled and not awaited.
CutLoose ==
    /\ main = "draining" /\ loop # "over" /\ DrainExpired
    /\ cut' = loop /\ loop' = Unwound
    /\ member' = MemberAfter
    /\ Finally
    /\ UNCHANGED <<kind, asked, listening>>

\* The drain timed out: the loop is cancelled and awaited.
Cut ==
    /\ main = "draining" /\ loop # "over" /\ DrainExpired
    /\ cut' = loop /\ loop' = Unwound
    /\ member' = MemberAfter
    /\ main' = "cutting" /\ left' = [left EXCEPT !.loop = 0]
    /\ UNCHANGED <<kind, collector, asked, health, listening>>

CutIsOver ==
    /\ main = "cutting" /\ loop = "over"
    /\ Finally
    /\ UNCHANGED <<kind, loop, asked, listening, member, cut>>

\* The listener is closed, then teardown runs; it cannot fail.
StopListening ==
    /\ main = "closing" /\ main' = "teardown" /\ listening' = FALSE
    /\ UNCHANGED <<kind, loop, collector, asked, health, member, left, cut>>

Teardown ==
    /\ main = "teardown" /\ main' = "down"
    /\ UNCHANGED <<kind, loop, collector, asked, health, listening, member, left, cut>>

RunNext ==
    \/ Setup \/ Listen \/ ListenFails \/ Roused \/ Drained \/ Cut \/ CutIsOver
    \/ StopListening \/ Teardown

WorkerNext ==
    \/ RequestShutdown \/ WorkerTick
    \/ Join \/ BatchEnds \/ NapEnds \/ Leave
    \/ GaugesEnd \/ CollectorWakes
    \/ RunNext

\* Coroutines that are ready run, and time passes.  No handler is assumed to
\* end, nor the start of the client; its stop is.

WorkerSpec ==
    /\ WorkerInit /\ [][WorkerNext]_workerVars
    /\ WF_workerVars(RunNext) /\ WF_workerVars(NapEnds) /\ WF_workerVars(Leave)
    /\ WF_workerVars(CollectorWakes) /\ WF_workerVars(WorkerTick)

-----------------------------------------------------------------------------
(* Properties.                                                              *)

WorkerTypeOK ==
    /\ kind \in {"consumer", "periodic"}
    /\ main \in {"setup", "listen", "waiting", "draining", "cutting", "closing", "teardown", "down"}
    /\ loop \in {"none", "joining", "busy", "nap", "leaving", "over"}
    /\ collector \in {"none", "gauges", "nap", "over"}
    /\ asked \in BOOLEAN /\ listening \in BOOLEAN
    /\ health \in [{"ready", "draining", "started"} -> BOOLEAN]
    /\ member \in {"out", "joining", "in", "leaving"}
    /\ left \in [{"loop", "drain", "collector"} -> Nat]

\* /readyz: not ready from the moment a shutdown is asked for, though _work
\* sets the flag after a start that the request came in the middle of.
Advertised == health.ready /\ ~health.draining

\* run, _run_until_drained: what setup opened is released only when nothing
\* runs that may use it and the group has been left - unless the client itself
\* failed to start or was too slow to stop; a rest is never what the drain
\* runs out of time for; and a worker that stops does not call itself ready.
DrainIsClean ==
    /\ main \in {"teardown", "down"} =>
          /\ loop \in {"none", "over"} /\ collector \in {"none", "over"} /\ ~listening
          /\ member # "in" /\ (member = "leaving" => cut = "leaving")
    /\ cut # "nap"
    /\ Advertised => ~asked /\ loop \in {"busy", "nap", "leaving", "over"}

\* _run_until_drained, _cancel_collector, _safe_teardown: a worker that is
\* asked to stop stops, whatever its handler does.
StopIsHeeded == asked ~> main = "down"
=============================================================================
