----------------------------- MODULE Workers_proofs -----------------------------
(***************************************************************************)
(* Proofs about WorkerLifecycle, for any interval, start delay, drain       *)
(* deadline and refresh of the gauges; about SignalFanOut, for any signals, *)
(* enrichers, pipeline versions and texts; and about SchemaMigrator, for    *)
(* any migrators, versions and statements, and any deaths, losses and edits *)
(* in between.                                                              *)
(***************************************************************************)
EXTENDS WorkerLifecycle, SignalFanOut, SchemaMigrator, SequenceTheorems, WellFoundedInduction,
        TLAPS

\* Before the loop is a task nothing has been opened or asked of it.
Unstarted ==
    main \in {"setup", "listen"} =>
        loop = "none" /\ collector = "none" /\ member = "out" /\ ~listening

\* run closes what it opened once neither task can go on.
Ended ==
    /\ main \in {"closing", "teardown", "down"} =>
           loop \in {"none", "over"} /\ collector \in {"none", "over"}
    /\ main \in {"teardown", "down"} => ~listening

\* The client is where the loop left it: a loop that is over is out of the
\* group, never came in, or was cut off on its way out.  A periodic worker has
\* no client.
MemberFollows ==
    /\ kind = "periodic" => member = "out" /\ loop # "joining"
    /\ loop \in {"none", "over"} => member # "in"
    /\ loop = "joining" => member = "joining"
    /\ loop = "leaving" => member = "leaving"
    /\ member = "leaving" => loop = "leaving" \/ cut = "leaving"
    /\ main \in {"setup", "listen", "waiting", "draining"} => cut = "none"

\* A drain under way was asked for or the loop is over; the time a drain has
\* does not pass while the loop is still to be woken.
DrainHasTime ==
    /\ main \in {"draining", "cutting"} => asked \/ loop = "over"
    /\ main = "draining" /\ loop = "nap" => left.drain = DrainTime
    /\ cut # "nap"

\* The flags of the health server.
HealthAgrees ==
    /\ health.draining = asked
    /\ health.ready => loop \in {"busy", "nap", "leaving", "over"}

WorkerInv ==
    /\ WorkerTypeOK
    /\ Unstarted /\ Ended /\ MemberFollows /\ DrainHasTime /\ HealthAgrees

LEMMA WorkerInvInit == WorkerInit => WorkerInv
<1> SUFFICES ASSUME WorkerInit PROVE WorkerInv
  OBVIOUS
<1>1. left \in [{"loop", "drain", "collector"} -> Nat]
  BY DEF WorkerInit
<1>2. health \in [{"ready", "draining", "started"} -> BOOLEAN]
  <2>1. DOMAIN health = {"ready", "draining", "started"}
    BY DEF WorkerInit
  <2>2. \A f \in {"ready", "draining", "started"} : health[f] = FALSE
    BY DEF WorkerInit
  <2>3. health = [f \in {"ready", "draining", "started"} |-> health[f]]
    BY <2>1 DEF WorkerInit
  <2>4. QED
    BY <2>2, <2>3, Zenon
<1>3. QED
  BY <1>1, <1>2
     DEF WorkerInit, WorkerInv, WorkerTypeOK, Unstarted, Ended, MemberFollows, DrainHasTime,
         HealthAgrees

\* The steps of _work.
LEMMA LoopKeeps ==
    ASSUME WorkerInv, Join \/ BatchEnds \/ NapEnds \/ Leave
    PROVE  WorkerInv'
<1>1. Turned \in {"busy", "leaving", "over"} /\ (Turned = "busy" <=> ~asked)
      /\ (Turned = "leaving" => kind = "consumer") /\ (Turned = "over" => kind = "periodic")
  BY DEF Turned, WorkerInv, WorkerTypeOK
<1>2. CASE Join
  <2>1. /\ health' \in [{"ready", "draining", "started"} -> BOOLEAN]
        /\ health'.draining = health.draining
        /\ health'.ready => health.ready \/ loop' = Turned
    BY <1>2 DEF Join, WorkerInv, WorkerTypeOK
  <2>2. WorkerTypeOK'
    BY <1>1, <1>2, <2>1 DEF Join, WorkerInv, WorkerTypeOK
  <2>3. HealthAgrees'
    BY <1>1, <1>2, <2>1 DEF Join, WorkerInv, WorkerTypeOK, HealthAgrees
  <2>4. (Unstarted /\ Ended /\ MemberFollows /\ DrainHasTime)'
    BY <1>1, <1>2
       DEF Join, Turned, WorkerInv, WorkerTypeOK, Unstarted, Ended, MemberFollows, DrainHasTime
  <2>5. QED
    BY <2>2, <2>3, <2>4 DEF WorkerInv
<1>3. CASE BatchEnds
  <2>1. /\ loop' \in {"busy", "nap", "leaving", "over"}
        /\ loop' = "nap" => ~asked
        /\ left' \in [{"loop", "drain", "collector"} -> Nat]
    BY <1>1, <1>3, WorkerAssumption DEF BatchEnds, RestFor, WorkerInv, WorkerTypeOK
  <2>2. WorkerTypeOK'
    BY <1>3, <2>1 DEF BatchEnds, MemberAfter, WorkerInv, WorkerTypeOK
  <2>3. HealthAgrees'
    BY <1>3, <2>1 DEF BatchEnds, WorkerInv, WorkerTypeOK, HealthAgrees
  <2>4. (Unstarted /\ Ended /\ MemberFollows /\ DrainHasTime)'
    BY <1>1, <1>3, <2>1
       DEF BatchEnds, RestFor, MemberAfter, WorkerInv, WorkerTypeOK, Unstarted, Ended, MemberFollows,
           DrainHasTime
  <2>5. QED
    BY <2>2, <2>3, <2>4 DEF WorkerInv
<1>4. CASE NapEnds
  <2>1. left' \in [{"loop", "drain", "collector"} -> Nat]
    BY <1>4 DEF NapEnds, WorkerInv, WorkerTypeOK
  <2>2. WorkerTypeOK'
    BY <1>1, <1>4, <2>1 DEF NapEnds, MemberAfter, WorkerInv, WorkerTypeOK
  <2>3. HealthAgrees'
    BY <1>1, <1>4, <2>1 DEF NapEnds, WorkerInv, WorkerTypeOK, HealthAgrees
  <2>4. (Unstarted /\ Ended /\ MemberFollows /\ DrainHasTime)'
    BY <1>1, <1>4
       DEF NapEnds, MemberAfter, WorkerInv, WorkerTypeOK, Unstarted, Ended, MemberFollows,
           DrainHasTime
  <2>5. QED
    BY <2>2, <2>3, <2>4 DEF WorkerInv
<1>5. CASE Leave
  <2>1. WorkerTypeOK'
    BY <1>5 DEF Leave, WorkerInv, WorkerTypeOK
  <2>2. (Unstarted /\ Ended /\ MemberFollows)'
    BY <1>5 DEF Leave, WorkerInv, Unstarted, Ended, MemberFollows
  <2>3. (DrainHasTime /\ HealthAgrees)'
    BY <1>5 DEF Leave, WorkerInv, DrainHasTime, HealthAgrees
  <2>4. QED
    BY <2>1, <2>2, <2>3 DEF WorkerInv
<1>6. QED
  BY <1>2, <1>3, <1>4, <1>5

\* The steps of _collect_loop.
LEMMA CollectorKeeps ==
    ASSUME WorkerInv, GaugesEnd \/ CollectorWakes
    PROVE  WorkerInv'
<1>1. left' \in [{"loop", "drain", "collector"} -> Nat] /\ left'.drain = left.drain
  BY WorkerAssumption DEF GaugesEnd, CollectorWakes, WorkerInv, WorkerTypeOK
<1>2. WorkerTypeOK'
  BY <1>1 DEF GaugesEnd, CollectorWakes, WorkerInv, WorkerTypeOK
<1>3. (Unstarted /\ Ended /\ MemberFollows)'
  BY DEF GaugesEnd, CollectorWakes, WorkerInv, Unstarted, Ended, MemberFollows
<1>4. (DrainHasTime /\ HealthAgrees)'
  BY <1>1 DEF GaugesEnd, CollectorWakes, WorkerInv, DrainHasTime, HealthAgrees
<1>5. QED
  BY <1>2, <1>3, <1>4 DEF WorkerInv

\* A shutdown is asked for, or time passes.
LEMMA WorldKeeps ==
    ASSUME WorkerInv, RequestShutdown \/ WorkerTick
    PROVE  WorkerInv'
<1>1. CASE RequestShutdown
  <2>1. /\ health' \in [{"ready", "draining", "started"} -> BOOLEAN]
        /\ health'.draining = TRUE /\ health'.ready = FALSE
    BY <1>1 DEF RequestShutdown, WorkerInv, WorkerTypeOK
  <2>2. WorkerTypeOK'
    BY <1>1, <2>1 DEF RequestShutdown, WorkerInv, WorkerTypeOK
  <2>3. (Unstarted /\ Ended /\ MemberFollows)'
    BY <1>1 DEF RequestShutdown, WorkerInv, Unstarted, Ended, MemberFollows
  <2>4. (DrainHasTime /\ HealthAgrees)'
    BY <1>1, <2>1 DEF RequestShutdown, WorkerInv, DrainHasTime, HealthAgrees
  <2>5. QED
    BY <2>2, <2>3, <2>4 DEF WorkerInv
<1>2. CASE WorkerTick
  <2>1. left' \in [{"loop", "drain", "collector"} -> Nat]
    BY <1>2 DEF WorkerTick, WorkerInv, WorkerTypeOK
  <2>2. ~(main = "draining" /\ loop = "nap")
    BY <1>2 DEF WorkerTick, Woken, WorkerInv, DrainHasTime
  <2>3. WorkerTypeOK'
    BY <1>2, <2>1 DEF WorkerTick, WorkerInv, WorkerTypeOK
  <2>4. (Unstarted /\ Ended /\ MemberFollows)'
    BY <1>2 DEF WorkerTick, WorkerInv, Unstarted, Ended, MemberFollows
  <2>5. (DrainHasTime /\ HealthAgrees)'
    BY <1>2, <2>2 DEF WorkerTick, WorkerInv, DrainHasTime, HealthAgrees
  <2>6. QED
    BY <2>3, <2>4, <2>5 DEF WorkerInv
<1>3. QED
  BY <1>1, <1>2

\* run goes into its finally only with the loop over.
LEMMA FinallyKeeps ==
    ASSUME WorkerInv, main \in {"waiting", "draining", "cutting"}, loop = "over", Finally,
           UNCHANGED <<kind, loop, asked, listening, member, cut>>
    PROVE  WorkerInv'
<1>1. /\ left' \in [{"loop", "drain", "collector"} -> Nat]
      /\ health' \in [{"ready", "draining", "started"} -> BOOLEAN]
      /\ health'.draining = health.draining /\ health'.ready = FALSE
  BY DEF Finally, WorkerInv, WorkerTypeOK
<1>2. WorkerTypeOK'
  BY <1>1 DEF Finally, WorkerInv, WorkerTypeOK
<1>3. (Unstarted /\ Ended /\ MemberFollows)'
  BY DEF Finally, WorkerInv, WorkerTypeOK, Unstarted, Ended, MemberFollows
<1>4. (DrainHasTime /\ HealthAgrees)'
  BY <1>1 DEF Finally, WorkerInv, DrainHasTime, HealthAgrees
<1>5. QED
  BY <1>2, <1>3, <1>4 DEF WorkerInv

\* The steps of run.
LEMMA RunKeeps == ASSUME WorkerInv, RunNext PROVE WorkerInv'
<1>1. CASE Setup \/ ListenFails \/ StopListening \/ Teardown
  <2>1. WorkerTypeOK'
    BY <1>1 DEF Setup, ListenFails, StopListening, Teardown, WorkerInv, WorkerTypeOK
  <2>2. (Unstarted /\ Ended /\ MemberFollows /\ DrainHasTime)'
    BY <1>1 DEF Setup, ListenFails, StopListening, Teardown, WorkerInv, Unstarted, Ended,
                MemberFollows, DrainHasTime
  <2>3. HealthAgrees'
    BY <1>1 DEF Setup, ListenFails, StopListening, Teardown, WorkerInv, HealthAgrees
  <2>4. QED
    BY <2>1, <2>2, <2>3 DEF WorkerInv
<1>2. CASE Listen
  <2>1. /\ loop' \in {"joining", "busy", "nap", "over"}
        /\ loop' = "joining" <=> kind = "consumer"
        /\ left' \in [{"loop", "drain", "collector"} -> Nat]
    BY <1>2, WorkerAssumption DEF Listen, RestFor, Turned, WorkerInv, WorkerTypeOK
  <2>2. /\ health' \in [{"ready", "draining", "started"} -> BOOLEAN]
        /\ health'.draining = health.draining
        /\ health'.ready => loop' # "joining"
    BY <1>2 DEF Listen, RestFor, Turned, WorkerInv, WorkerTypeOK, HealthAgrees, Unstarted
  <2>3. WorkerTypeOK'
    BY <1>2, <2>1, <2>2 DEF Listen, WorkerInv, WorkerTypeOK
  <2>4. HealthAgrees'
    BY <1>2, <2>1, <2>2 DEF Listen, WorkerInv, WorkerTypeOK, HealthAgrees
  <2>5. (Unstarted /\ Ended /\ MemberFollows /\ DrainHasTime)'
    BY <1>2, <2>1
       DEF Listen, WorkerInv, WorkerTypeOK, Unstarted, Ended, MemberFollows, DrainHasTime
  <2>6. QED
    BY <2>3, <2>4, <2>5 DEF WorkerInv
<1>3. CASE Roused
  <2>1. CASE loop = "over"
    BY <1>3, <2>1, FinallyKeeps DEF Roused
  <2>2. CASE loop # "over"
    <3>1. /\ left' \in [{"loop", "drain", "collector"} -> Nat] /\ left'.drain = DrainTime
          /\ main' = "draining" /\ asked
          /\ UNCHANGED <<kind, loop, collector, asked, health, listening, member, cut>>
      BY <1>3, <2>2, WorkerAssumption DEF Roused, MainWoken, WorkerInv, WorkerTypeOK
    <3>2. WorkerTypeOK'
      BY <3>1 DEF WorkerInv, WorkerTypeOK
    <3>3. (Unstarted /\ Ended /\ MemberFollows)'
      BY <1>3, <3>1 DEF Roused, WorkerInv, Unstarted, Ended, MemberFollows
    <3>4. (DrainHasTime /\ HealthAgrees)'
      BY <3>1 DEF WorkerInv, DrainHasTime, HealthAgrees
    <3>5. QED
      BY <3>2, <3>3, <3>4 DEF WorkerInv
  <2>3. QED
    BY <2>1, <2>2
<1>4. CASE Drained
  BY <1>4, FinallyKeeps DEF Drained
<1>5. CASE CutIsOver
  BY <1>5, FinallyKeeps DEF CutIsOver
<1>6. CASE Cut
  <2>1. loop # "nap"
    BY <1>6, WorkerAssumption DEF Cut, DrainExpired, WorkerInv, DrainHasTime
  <2>2. /\ loop' \in {"leaving", "over"}
        /\ left' \in [{"loop", "drain", "collector"} -> Nat]
    BY <1>6 DEF Cut, Unwound, WorkerInv, WorkerTypeOK
  <2>3. WorkerTypeOK'
    BY <1>6, <2>2 DEF Cut, MemberAfter, WorkerInv, WorkerTypeOK
  <2>4. HealthAgrees'
    BY <1>6, <2>2 DEF Cut, WorkerInv, WorkerTypeOK, HealthAgrees
  <2>5. (Unstarted /\ Ended /\ DrainHasTime)'
    BY <1>6, <2>1, <2>2 DEF Cut, WorkerInv, Unstarted, Ended, DrainHasTime
  <2>6. MemberFollows'
    <3>1. CASE loop' = "leaving"
      BY <1>6, <3>1 DEF Cut, Unwound, MemberAfter, WorkerInv, MemberFollows
    <3>2. CASE loop' = "over"
      <4>1. member' = member /\ (kind = "consumer" => loop \in {"none", "joining", "leaving"})
        BY <1>6, <2>1, <3>2 DEF Cut, Unwound, MemberAfter, WorkerInv, WorkerTypeOK
      <4>2. member # "in"
        BY <4>1 DEF WorkerInv, WorkerTypeOK, MemberFollows
      <4>3. QED
        BY <1>6, <3>2, <4>1, <4>2 DEF Cut, WorkerInv, MemberFollows
    <3>3. QED
      BY <2>2, <3>1, <3>2
  <2>7. QED
    BY <2>3, <2>4, <2>5, <2>6 DEF WorkerInv
<1>7. QED
  BY <1>1, <1>2, <1>3, <1>4, <1>5, <1>6 DEF RunNext

LEMMA WorkerInvStep == WorkerInv /\ [WorkerNext]_workerVars => WorkerInv'
<1> SUFFICES ASSUME WorkerInv, [WorkerNext]_workerVars PROVE WorkerInv'
  OBVIOUS
<1>1. CASE UNCHANGED workerVars
  BY <1>1 DEF workerVars, WorkerInv, WorkerTypeOK, Unstarted, Ended, MemberFollows,
              DrainHasTime, HealthAgrees
<1>2. CASE WorkerNext
  BY <1>2, LoopKeeps, CollectorKeeps, WorldKeeps, RunKeeps DEF WorkerNext
<1>3. QED
  BY <1>1, <1>2

LEMMA WorkerInvAlways == WorkerSpec => []WorkerInv
  BY WorkerInvInit, WorkerInvStep, PTL DEF WorkerSpec

\* base_worker, run: every variable keeps its type, and a worker that is on its
\* way down is in one of the states its coroutines can be in.
THEOREM WorkerTypesHold == WorkerSpec => []WorkerTypeOK
<1>1. WorkerInv => WorkerTypeOK
  BY DEF WorkerInv
<1>2. QED
  BY <1>1, WorkerInvAlways, PTL

\* base_worker, _run_until_drained and _safe_teardown: whatever the order of the
\* shutdown, the loop, the gauges and the deadlines, what setup opened is
\* released only when no task can use it and the group was left, a rest is never
\* what a drain runs out of time for, and a worker that was asked to stop does
\* not call itself ready.
THEOREM WorkerDrainsCleanly == WorkerSpec => []DrainIsClean
<1>1. WorkerInv => DrainIsClean
  BY DEF WorkerInv, WorkerTypeOK, Ended, MemberFollows, DrainHasTime, HealthAgrees,
         DrainIsClean, Advertised
<1>2. QED
  BY <1>1, WorkerInvAlways, PTL

-----------------------------------------------------------------------------
(* SignalFanOut: what both indexes hold once nothing of a Signal is under way. *)

SignalRows == [version : Nat, text : Texts, status : RowStatuses, embedded : BOOLEAN]
Stages == {"poll", "loaded", "withdrawn", "keyword", "vector", "points"}

FanTypes ==
    /\ row \in [Signals -> SignalRows]
    /\ stamped \in [Signals -> SUBSET {"keyword", "vector", "graph"}]
    /\ due \in [Groups -> [Signals -> Nat]]
    /\ enricher \in [Enrichers -> [at : {"ease", "store", "publish"}, signal : Signals, found : SignalRows]]
    /\ worker \in [Groups -> [at : Stages, signal : Signals, view : SignalRows]]

Stores ==
    /\ keyword = [s \in Signals |-> keyword[s]] /\ vector = [s \in Signals |-> vector[s]]
    /\ missed = [s \in Signals |-> missed[s]]

\* A message is committed once its handler is done, and what the handler has
\* read is no newer than the row.
AtWork(g) ==
    worker[g].at # "poll" =>
        /\ due[g][worker[g].signal] >= 1
        /\ worker[g].view.version <= row[worker[g].signal].version

Busy(s) == worker["index"].at # "poll" /\ worker["index"].signal = s

\* More of the signal is to come than the message the handler works on.
Told(s) ==
    \/ s \in parked
    \/ \E e \in Enrichers : enricher[e].at # "ease" /\ enricher[e].signal = s
    \/ due["index"][s] > 1
    \/ due["index"][s] = 1 /\ ~Busy(s)

KeywordHas(s) ==
    \A i \in 1..Chunks[row[s].text] :
        /\ i \in DOMAIN keyword[s]
        /\ keyword[s][i] = [version |-> row[s].version, text |-> row[s].text]

VectorHas(s) ==
    \A i \in 1..Chunks[row[s].text] : i \in DOMAIN vector[s] /\ vector[s][i] = row[s].text

\* Nothing is left but what the withdrawal did not see.
Withdrawn(s) == DOMAIN keyword[s] \subseteq missed[s]

\* How far a handler is that works on the row as it is.
Working(s) ==
    LET at == worker["index"].at IN
    /\ worker["index"].view = row[s]
    /\ at = "withdrawn" => ~Indexable(row[s]) /\ Withdrawn(s)
    /\ at \in {"keyword", "vector", "points"} => Indexable(row[s]) /\ KeywordHas(s)
    /\ at \in {"vector", "points"} => "keyword" \in stamped[s]
    /\ at = "points" => VectorHas(s)

\* What the retrieval of the row needs.
Whole(s) ==
    /\ "keyword" \in stamped[s]
    /\ Indexable(row[s]) =>
          KeywordHas(s) /\ (row[s].embedded => "vector" \in stamped[s] /\ VectorHas(s))
    /\ ~Indexable(row[s]) => Withdrawn(s) /\ vector[s] = NoDocs

NoneNewer(s) ==
    \A i \in DOMAIN keyword[s] :
        keyword[s][i].version \in Nat /\ keyword[s][i].version <= row[s].version

OnItsWay(s) ==
    ~Told(s) => /\ Busy(s) => Working(s)
                /\ ~Busy(s) /\ row[s].version # 0 => Whole(s)

FanInv ==
    /\ FanTypes /\ Stores
    /\ \A g \in Groups : AtWork(g)
    /\ \A s \in Signals : NoneNewer(s) /\ OnItsWay(s)

-----------------------------------------------------------------------------
LEMMA NoRowIs == NoRow \in SignalRows /\ NoRow.version = 0
BY FanAssumption DEF NoRow, SignalRows, RowStatuses

LEMMA AtRestIs ==
    /\ AtEase.at = "ease" /\ AtEase \in [at : {"ease", "store", "publish"}, signal : Signals, found : SignalRows]
    /\ Polling.at = "poll" /\ Polling \in [at : Stages, signal : Signals, view : SignalRows]
<1>1. (CHOOSE s \in Signals : TRUE) \in Signals
  BY FanAssumption
<1>2. QED
  BY <1>1, NoRowIs DEF AtEase, Polling, Stages

LEMMA FanStarts == FanInit => FanInv
<1> SUFFICES ASSUME FanInit PROVE FanInv
  OBVIOUS
<1>1. FanTypes
  BY NoRowIs, AtRestIs DEF FanInit, FanTypes
<1>2. Stores /\ \A s \in Signals : NoneNewer(s)
  BY DEF FanInit, Stores, NoneNewer, NoDocs
<1>3. \A g \in Groups : AtWork(g)
  BY AtRestIs DEF FanInit, AtWork
<1>4. \A s \in Signals : OnItsWay(s)
  BY AtRestIs, NoRowIs DEF FanInit, OnItsWay, Busy, Groups
<1>5. QED
  BY <1>1, <1>2, <1>3, <1>4 DEF FanInv

\* A signal that a step has nothing to do with, but for a stamp more or news to come.
LEMMA Aside ==
    ASSUME NEW s \in Signals, OnItsWay(s), NoneNewer(s), stamped[s] \subseteq stamped'[s],
           row'[s] = row[s], keyword'[s] = keyword[s], missed'[s] = missed[s], vector'[s] = vector[s],
           Busy(s)' <=> Busy(s), Busy(s) => worker'["index"] = worker["index"],
           Told(s) => Told(s)'
    PROVE  OnItsWay(s)' /\ NoneNewer(s)'
<1>1. NoneNewer(s)'
  BY DEF NoneNewer
<1>2. ASSUME ~Told(s)', Busy(s)' PROVE Working(s)'
  BY <1>2 DEF OnItsWay, Working, KeywordHas, VectorHas, Withdrawn
<1>3. ASSUME ~Told(s)', ~Busy(s)', row'[s].version # 0 PROVE Whole(s)'
  BY <1>3 DEF OnItsWay, Whole, KeywordHas, VectorHas, Withdrawn
<1>4. QED
  BY <1>1, <1>2, <1>3 DEF OnItsWay

\* A handler that is untouched still works on what it has read.
LEMMA WorkGoesOn ==
    ASSUME FanTypes, NEW g \in Groups, AtWork(g), worker'[g] = worker[g],
           due'[g][worker[g].signal] >= due[g][worker[g].signal],
           due'[g][worker[g].signal] \in Nat,
           row'[worker[g].signal].version >= row[worker[g].signal].version,
           row'[worker[g].signal].version \in Nat
    PROVE  AtWork(g)'
<1>1. /\ due[g][worker[g].signal] \in Nat /\ worker[g].view.version \in Nat
      /\ row[worker[g].signal].version \in Nat
  BY DEF FanTypes, SignalRows
<1>2. QED
  BY <1>1 DEF AtWork

LEMMA EnrichKeeps == ASSUME FanInv, NEW e \in Enrichers, Enrich(e) PROVE FanInv'
<1>1. UNCHANGED <<row, stamped, due, worker, keyword, missed, vector, parked>> /\ enricher[e].at = "ease"
  BY DEF Enrich
<1>2. PICK s0 \in Signals, t \in Texts, status \in RowStatuses, embedded \in BOOLEAN :
         enricher' = [enricher EXCEPT ![e] =
                [at |-> "store", signal |-> s0,
                 found |-> [version |-> Version[e], text |-> t, status |-> status,
                            embedded |-> embedded]]]
  BY DEF Enrich
<1>3. FanTypes'
  <2>1. [version |-> Version[e], text |-> t, status |-> status, embedded |-> embedded] \in SignalRows
    BY FanAssumption DEF SignalRows
  <2>2. enricher' \in [Enrichers -> [at : {"ease", "store", "publish"}, signal : Signals, found : SignalRows]]
    BY <1>2, <2>1 DEF FanInv, FanTypes
  <2>3. QED
    BY <1>1, <2>2 DEF FanInv, FanTypes
<1>4. Stores' /\ \A g \in Groups : AtWork(g)'
  BY <1>1 DEF FanInv, Stores, AtWork
<1>5. ASSUME NEW s \in Signals PROVE OnItsWay(s)' /\ NoneNewer(s)'
  <2>1. \A f \in Enrichers : f # e => enricher'[f] = enricher[f]
    BY <1>2 DEF FanInv, FanTypes
  <2>2. Busy(s)' <=> Busy(s)
    BY <1>1 DEF Busy
  <2>3. Told(s) => Told(s)'
    BY <1>1, <2>1, <2>2 DEF Told
  <2>4. QED
    BY <1>1, <2>2, <2>3, Aside DEF FanInv
<1>6. QED
  BY <1>3, <1>4, <1>5 DEF FanInv

LEMMA StoreKeeps == ASSUME FanInv, NEW e \in Enrichers, Store(e) PROVE FanInv'
<1> DEFINE s0 == enricher[e].signal
           found == enricher[e].found
<1>1. /\ UNCHANGED <<due, worker, keyword, missed, vector, parked>> /\ enricher[e].at = "store"
      /\ enricher' = [enricher EXCEPT ![e].at = "publish"]
  BY DEF Store
<1>2. s0 \in Signals /\ found \in SignalRows /\ FanTypes
  BY DEF FanInv, FanTypes
<1>3. \/ /\ found.version >= row[s0].version
         /\ row' = [row EXCEPT ![s0] = found] /\ stamped' = [stamped EXCEPT ![s0] = {}]
      \/ row' = row /\ stamped' = stamped
  BY DEF Store, NotOlder
<1>4. /\ enricher'[e].at = "publish" /\ enricher'[e].signal = s0
      /\ \A f \in Enrichers : f # e => enricher'[f] = enricher[f]
  BY <1>1, <1>2 DEF FanTypes
<1> HIDE DEF s0, found
<1>5. FanTypes'
  <2>1. row' \in [Signals -> SignalRows] /\ stamped' \in [Signals -> SUBSET {"keyword", "vector", "graph"}]
    <3>1. CASE row' = [row EXCEPT ![s0] = found] /\ stamped' = [stamped EXCEPT ![s0] = {}]
      <4>1. row' \in [Signals -> SignalRows]
        BY <1>2, <3>1 DEF FanTypes
      <4>2. {} \in SUBSET {"keyword", "vector", "graph"}
        OBVIOUS
      <4>3. stamped' \in [Signals -> SUBSET {"keyword", "vector", "graph"}]
        BY <1>2, <3>1, <4>2 DEF FanTypes
      <4>4. QED
        BY <4>1, <4>3
    <3>2. CASE row' = row /\ stamped' = stamped
      BY <1>2, <3>2 DEF FanTypes
    <3>3. QED
      BY <1>3, <3>1, <3>2
  <2>2. enricher' \in [Enrichers -> [at : {"ease", "store", "publish"}, signal : Signals, found : SignalRows]]
    BY <1>1, <1>2 DEF FanTypes
  <2>3. QED
    BY <1>1, <1>2, <2>1, <2>2 DEF FanTypes
<1>6. \A s \in Signals : row'[s].version >= row[s].version /\ row'[s].version \in Nat
                            /\ row[s].version \in Nat
  <2>1. ASSUME NEW s \in Signals
        PROVE  row'[s] = row[s] \/ (row'[s] = found /\ found.version >= row[s].version)
    <3>1. CASE row' = [row EXCEPT ![s0] = found] /\ found.version >= row[s0].version
      <4>1. CASE s = s0
        BY <1>2, <3>1, <4>1 DEF FanTypes
      <4>2. CASE s # s0
        BY <1>2, <3>1, <4>2 DEF FanTypes
      <4>3. QED
        BY <4>1, <4>2
    <3>2. CASE row' = row
      BY <3>2
    <3>3. QED
      BY <1>3, <3>1, <3>2
  <2>2. \A s \in Signals : row[s].version \in Nat /\ row'[s].version \in Nat
    BY <1>2, <1>5 DEF FanTypes, SignalRows
  <2>3. QED
    BY <2>1, <2>2
<1>7. Stores'
  BY <1>1 DEF FanInv, Stores
<1>8. ASSUME NEW g \in Groups PROVE AtWork(g)'
  <2>1. worker[g].signal \in Signals /\ due[g][worker[g].signal] \in Nat
    BY <1>2 DEF FanTypes
  <2>2. AtWork(g)
    BY DEF FanInv
  <2>3. QED
    BY <1>1, <1>2, <1>6, <2>1, <2>2, WorkGoesOn
<1>9. ASSUME NEW s \in Signals PROVE OnItsWay(s)' /\ NoneNewer(s)'
  <2>1. CASE s = s0
    <3>1. Told(s)'
      BY <1>4, <2>1 DEF Told
    <3>2. NoneNewer(s)'
      <4>1. ASSUME NEW i \in DOMAIN keyword[s] 
                 PROVE keyword[s][i].version \in Nat /\ keyword[s][i].version <= row'[s].version
        <5>1. keyword[s][i].version \in Nat /\ keyword[s][i].version <= row[s].version
          BY DEF FanInv, NoneNewer
        <5>2. /\ row[s].version <= row'[s].version
              /\ row[s].version \in Nat /\ row'[s].version \in Nat
          BY <1>6
        <5>3. QED
          BY <5>1, <5>2
      <4>2. QED
        BY <1>1, <4>1 DEF NoneNewer
    <3>3. QED
      BY <3>1, <3>2 DEF OnItsWay
  <2>2. CASE s # s0
    <3>1. row'[s] = row[s] /\ stamped'[s] = stamped[s]
      BY <1>2, <1>3, <2>2 DEF FanTypes
    <3>2. Busy(s)' <=> Busy(s)
      BY <1>1 DEF Busy
    <3>3. Told(s) => Told(s)'
      BY <1>1, <1>4, <3>2 DEF Told, s0
    <3>4. QED
      BY <1>1, <3>1, <3>2, <3>3, Aside DEF FanInv
  <2>3. QED
    BY <2>1, <2>2
<1>10. QED
  BY <1>5, <1>7, <1>8, <1>9 DEF FanInv

LEMMA AnnounceKeeps == ASSUME FanInv, NEW e \in Enrichers, Announce(e) PROVE FanInv'
<1> DEFINE s0 == enricher[e].signal
<1>1. /\ UNCHANGED <<row, stamped, worker, keyword, missed, vector, parked>>
      /\ due' = [g \in Groups |-> [due[g] EXCEPT ![s0] = @ + 1]]
      /\ enricher' = [enricher EXCEPT ![e] = AtEase]
  BY DEF Announce
<1>2. s0 \in Signals /\ FanTypes
  BY DEF FanInv, FanTypes
<1>3. \A f \in Enrichers : f # e => enricher'[f] = enricher[f]
  BY <1>1, <1>2 DEF FanTypes
<1>4. \A g \in Groups, s \in Signals : /\ due[g][s] \in Nat
                                       /\ due'[g][s] = IF s = s0 THEN due[g][s] + 1 ELSE due[g][s]
  BY <1>1, <1>2 DEF FanTypes
<1>5. \A s \in Signals : s # enricher[e].signal => (Told(s) => Told(s)')
  <2>1. SUFFICES ASSUME NEW s \in Signals, s # s0, Told(s) PROVE Told(s)'
    OBVIOUS
  <2>2. due'["index"][s] = due["index"][s] /\ (Busy(s)' <=> Busy(s))
    BY <1>1, <1>4, <2>1 DEF Busy, Groups
  <2>3. QED
    BY <1>1, <1>3, <2>1, <2>2 DEF Told
<1> HIDE DEF s0
<1>6. FanTypes'
  <2>1. due' \in [Groups -> [Signals -> Nat]]
    <3>1. \A g \in Groups : [due[g] EXCEPT ![s0] = @ + 1] \in [Signals -> Nat]
      BY <1>2 DEF FanTypes
    <3>2. QED
      BY <1>1, <3>1
  <2>2. enricher' \in [Enrichers -> [at : {"ease", "store", "publish"}, signal : Signals, found : SignalRows]]
    BY <1>1, <1>2, AtRestIs DEF FanTypes
  <2>3. QED
    BY <1>1, <1>2, <2>1, <2>2 DEF FanTypes
<1>7. Stores'
  BY <1>1 DEF FanInv, Stores
<1>8. ASSUME NEW g \in Groups PROVE AtWork(g)'
  <2>1. worker[g].signal \in Signals /\ row[worker[g].signal].version \in Nat
    BY <1>2 DEF FanTypes, SignalRows
  <2>2. /\ due'[g][worker[g].signal] >= due[g][worker[g].signal]
        /\ due'[g][worker[g].signal] \in Nat
    BY <1>4, <2>1
  <2>3. AtWork(g)
    BY DEF FanInv
  <2>4. row'[worker[g].signal].version >= row[worker[g].signal].version
    BY <1>1, <2>1
  <2>5. QED
    BY <1>1, <1>2, <2>1, <2>2, <2>3, <2>4, WorkGoesOn
<1>9. ASSUME NEW s \in Signals PROVE OnItsWay(s)' /\ NoneNewer(s)'
  <2>1. Busy(s)' <=> Busy(s)
    BY <1>1 DEF Busy
  <2>2. Told(s) => Told(s)'
    <3>1. CASE s # s0
      BY <1>5, <3>1 DEF s0
    <3>2. CASE s = s0 /\ s \in parked
      BY <1>1, <3>2 DEF Told
    <3>3. CASE s = s0 /\ s \notin parked
      <4>1. due["index"][s] \in Nat /\ due'["index"][s] = due["index"][s] + 1
        BY <1>4, <3>3 DEF Groups
      <4>2. CASE due["index"][s] = 0 /\ Busy(s)
        <5>1. AtWork("index")
          BY DEF FanInv, Groups
        <5>2. QED
          BY <4>1, <4>2, <5>1 DEF AtWork, Busy
      <4>3. QED
        BY <2>1, <4>1, <4>2 DEF Told
    <3>4. QED
      BY <3>1, <3>2, <3>3
  <2>3. QED
    BY <1>1, <2>1, <2>2, Aside DEF FanInv
<1>10. QED
  BY <1>6, <1>7, <1>8, <1>9 DEF FanInv

LEMMA EnrichFailsKeeps == ASSUME FanInv, NEW e \in Enrichers, EnrichFails(e) PROVE FanInv'
<1> DEFINE s0 == enricher[e].signal
<1>1. /\ UNCHANGED <<row, stamped, due, worker, keyword, missed, vector>> /\ enricher[e].at # "ease"
      /\ \/ enricher' = [enricher EXCEPT ![e].at = "store"] /\ parked' = parked
         \/ enricher' = [enricher EXCEPT ![e] = AtEase] /\ parked' = parked \cup {s0}
  BY DEF EnrichFails
<1>2. s0 \in Signals /\ FanTypes
  BY DEF FanInv, FanTypes
<1>3. \A f \in Enrichers : f # e => enricher'[f] = enricher[f]
  BY <1>1, <1>2 DEF FanTypes
<1>4. \/ enricher'[e].at = "store" /\ enricher'[e].signal = s0 /\ parked' = parked
      \/ parked' = parked \cup {s0}
  BY <1>1, <1>2 DEF FanTypes
<1>5. FanTypes'
  <2>1. enricher' \in [Enrichers -> [at : {"ease", "store", "publish"}, signal : Signals, found : SignalRows]]
    <3>1. CASE enricher' = [enricher EXCEPT ![e] = AtEase]
      BY <1>2, <3>1, AtRestIs DEF FanTypes
    <3>2. CASE enricher' = [enricher EXCEPT ![e].at = "store"]
      BY <1>2, <3>2 DEF FanTypes
    <3>3. QED
      BY <1>1, <3>1, <3>2
  <2>2. QED
    BY <1>1, <1>2, <2>1 DEF FanTypes
<1>6. Stores' /\ \A g \in Groups : AtWork(g)'
  BY <1>1 DEF FanInv, Stores, AtWork
<1>7. ASSUME NEW s \in Signals PROVE OnItsWay(s)' /\ NoneNewer(s)'
  <2>1. Busy(s)' <=> Busy(s)
    BY <1>1 DEF Busy
  <2>2. Told(s) => Told(s)'
    BY <1>1, <1>3, <1>4, <2>1 DEF Told
  <2>3. QED
    BY <1>1, <2>1, <2>2, Aside DEF FanInv
<1>8. QED
  BY <1>5, <1>6, <1>7 DEF FanInv

-----------------------------------------------------------------------------
(* The workers' steps.                                                        *)

\* A step that leaves the index worker and its messages alone.
LEMMA Elsewhere ==
    ASSUME FanInv, FanTypes', Stores', AtWork("graph")', UNCHANGED <<row, enricher, keyword, missed, vector>>,
           worker'["index"] = worker["index"], due'["index"] = due["index"],
           parked \subseteq parked', \A s \in Signals : stamped[s] \subseteq stamped'[s]
    PROVE  FanInv'
<1>1. AtWork("index")'
  BY DEF FanInv, AtWork, Groups
<1>2. ASSUME NEW s \in Signals PROVE OnItsWay(s)' /\ NoneNewer(s)'
  <2>1. Busy(s)' <=> Busy(s)
    BY DEF Busy
  <2>2. Told(s) => Told(s)'
    BY <2>1 DEF Told
  <2>3. QED
    BY <2>1, <2>2, Aside DEF FanInv
<1>3. QED
  BY <1>1, <1>2 DEF FanInv, Groups

\* A step of the index worker on a signal it has read: it goes on, it has
\* done, or more of the signal is to come.
LEMMA IndexStep ==
    ASSUME FanInv, FanTypes', Stores', worker["index"].at # "poll",
           NEW s0 \in Signals, s0 = worker["index"].signal,
           UNCHANGED <<row, enricher>>, parked \subseteq parked',
           worker'["graph"] = worker["graph"], due'["graph"] = due["graph"],
           \A s \in Signals : s # s0 => /\ stamped[s] \subseteq stamped'[s]
                                       /\ keyword'[s] = keyword[s] /\ missed'[s] = missed[s] /\ vector'[s] = vector[s]
                                       /\ due'["index"][s] = due["index"][s],
           NoneNewer(s0)',
           \/ /\ worker'["index"].at # "poll" /\ worker'["index"].signal = s0
              /\ worker'["index"].view = worker["index"].view
              /\ due'["index"][s0] = due["index"][s0]
              /\ Working(s0) => Working(s0)'
           \/ /\ worker'["index"].at = "poll"
              /\ \/ Told(s0)'
                 \/ /\ due'["index"][s0] = due["index"][s0] - 1
                    /\ Working(s0) => Whole(s0)'
    PROVE  FanInv'
<1>1. AtWork("index") /\ AtWork("graph") /\ FanTypes
  BY DEF FanInv, Groups
<1>2. due["index"][s0] \in Nat /\ due["index"][s0] >= 1
  BY <1>1 DEF AtWork, FanTypes, Groups
<1>3. AtWork("index")' /\ AtWork("graph")'
  BY <1>1 DEF AtWork
<1>4. ASSUME NEW s \in Signals, s # s0 PROVE OnItsWay(s)' /\ NoneNewer(s)'
  <2>1. ~Busy(s) /\ ~Busy(s)'
    BY <1>4 DEF Busy
  <2>2. Told(s) => Told(s)'
    BY <1>4, <2>1 DEF Told
  <2>3. OnItsWay(s) /\ NoneNewer(s) /\ stamped[s] \subseteq stamped'[s]
        /\ row'[s] = row[s] /\ keyword'[s] = keyword[s] /\ missed'[s] = missed[s] /\ vector'[s] = vector[s]
    BY <1>4 DEF FanInv
  <2>4. QED
    BY <2>1, <2>2, <2>3, Aside
<1>5. OnItsWay(s0)'
  <2>1. SUFFICES ASSUME ~Told(s0)' PROVE OnItsWay(s0)'
    BY DEF OnItsWay
  <2>2. Busy(s0) /\ OnItsWay(s0)
    BY DEF FanInv, Busy
  <2>3. CASE worker'["index"].at # "poll"
    <3>1. Busy(s0)' /\ due'["index"][s0] = due["index"][s0] /\ (Working(s0) => Working(s0)')
      BY <2>3 DEF Busy
    <3>2. ~Told(s0)
      BY <2>1, <2>2, <3>1 DEF Told
    <3>3. QED
      BY <2>2, <3>1, <3>2 DEF OnItsWay
  <2>4. CASE worker'["index"].at = "poll"
    <3>1. /\ ~Busy(s0)' /\ due'["index"][s0] = due["index"][s0] - 1
          /\ Working(s0) => Whole(s0)'
      BY <2>1, <2>4 DEF Busy
    <3>2. due'["index"][s0] # 1 /\ ~(due'["index"][s0] > 1)
      BY <2>1, <3>1 DEF Told
    <3>3. due["index"][s0] = 1
      BY <1>2, <3>1, <3>2
    <3>4. ~Told(s0)
      BY <2>1, <2>2, <3>3 DEF Told
    <3>5. QED
      BY <2>2, <3>1, <3>4 DEF OnItsWay
  <2>5. QED
    BY <2>3, <2>4
<1>6. QED
  BY <1>3, <1>4, <1>5 DEF FanInv, Groups

LEMMA StampIs ==
    ASSUME FanTypes, NEW g \in Groups, NEW stores \in SUBSET {"keyword", "vector", "graph"},
           Stamp(g, stores)
    PROVE  /\ stamped' \in [Signals -> SUBSET {"keyword", "vector", "graph"}]
           /\ stamped'[worker[g].signal] = stamped[worker[g].signal] \cup stores
           /\ \A s \in Signals : stamped[s] \subseteq stamped'[s]
<1> DEFINE s0 == worker[g].signal
           now == stamped[s0] \cup stores
<1>1. s0 \in Signals
  BY DEF FanTypes
<1>2. now \in SUBSET {"keyword", "vector", "graph"} /\ stamped[s0] \subseteq now
  BY <1>1 DEF FanTypes
<1>3. stamped' = [stamped EXCEPT ![s0] = now]
  BY DEF Stamp
<1> HIDE DEF now, s0
<1>4. stamped' \in [Signals -> SUBSET {"keyword", "vector", "graph"}]
  BY <1>1, <1>2, <1>3 DEF FanTypes
<1>5. stamped'[s0] = now /\ \A s \in Signals : s # s0 => stamped'[s] = stamped[s]
  BY <1>1, <1>3 DEF FanTypes
<1>6. \A s \in Signals : stamped[s] \subseteq stamped'[s]
  BY <1>2, <1>5
<1>7. QED
  BY <1>4, <1>5, <1>6 DEF now, s0

LEMMA HandledIs ==
    ASSUME FanTypes, NEW g \in Groups, due[g][worker[g].signal] >= 1, Handled(g)
    PROVE  /\ due' \in [Groups -> [Signals -> Nat]]
           /\ worker' \in [Groups -> [at : Stages, signal : Signals, view : SignalRows]]
           /\ worker'[g].at = "poll" /\ due'[g][worker[g].signal] = due[g][worker[g].signal] - 1
           /\ \A s \in Signals : s # worker[g].signal => due'[g][s] = due[g][s]
           /\ \A h \in Groups : h # g => worker'[h] = worker[h] /\ due'[h] = due[h]
<1> DEFINE s0 == worker[g].signal
           fewer == due[g][s0] - 1
           ours == [due[g] EXCEPT ![s0] = fewer]
<1>1. s0 \in Signals
  BY DEF FanTypes
<1>2. due[g][s0] \in Nat
  BY <1>1 DEF FanTypes
<1>3. fewer \in Nat
  BY <1>2
<1>4. due' = [due EXCEPT ![g] = ours] /\ worker' = [worker EXCEPT ![g] = Polling]
  BY DEF Handled
<1> HIDE DEF fewer
<1>5. ours \in [Signals -> Nat] /\ ours[s0] = fewer /\ \A s \in Signals : s # s0 => ours[s] = due[g][s]
  BY <1>1, <1>3 DEF FanTypes
<1> HIDE DEF ours, s0
<1>6. due' \in [Groups -> [Signals -> Nat]] /\ due'[g] = ours /\ \A h \in Groups : h # g => due'[h] = due[h]
  BY <1>4, <1>5 DEF FanTypes
<1>7. /\ worker' \in [Groups -> [at : Stages, signal : Signals, view : SignalRows]]
      /\ worker'[g].at = "poll" /\ \A h \in Groups : h # g => worker'[h] = worker[h]
  BY <1>4, AtRestIs DEF FanTypes
<1>8. QED
  BY <1>5, <1>6, <1>7 DEF fewer, s0

LEMMA DoingIs ==
    ASSUME FanTypes, NEW g \in Groups, NEW at \in Stages, Doing(g, at)
    PROVE  /\ worker' \in [Groups -> [at : Stages, signal : Signals, view : SignalRows]]
           /\ worker'[g].at = at /\ worker'[g].signal = worker[g].signal
           /\ worker'[g].view = worker[g].view
           /\ \A h \in Groups : h # g => worker'[h] = worker[h]
BY DEF FanTypes, Doing

LEMMA LoadKeeps == ASSUME FanInv, NEW g \in Groups, Load(g) PROVE FanInv'
<1>1. UNCHANGED <<row, stamped, due, enricher, keyword, missed, vector, parked>> /\ worker[g].at = "poll"
  BY DEF Load
<1>2. PICK s0 \in Signals :
         due[g][s0] > 0 /\ worker' = [worker EXCEPT ![g] = [at |-> "loaded", signal |-> s0, view |-> row[s0]]]
  BY DEF Load
<1>3. FanTypes
  BY DEF FanInv
<1> DEFINE now == [at |-> "loaded", signal |-> s0, view |-> row[s0]]
<1>4. now \in [at : Stages, signal : Signals, view : SignalRows]
  BY <1>3 DEF FanTypes, Stages
<1>5. now.at = "loaded" /\ now.signal = s0 /\ now.view = row[s0]
  OBVIOUS
<1>6. worker' = [worker EXCEPT ![g] = now]
  BY <1>2
<1> HIDE DEF now
<1>7. /\ worker' \in [Groups -> [at : Stages, signal : Signals, view : SignalRows]]
      /\ worker'[g] = now /\ \A h \in Groups : h # g => worker'[h] = worker[h]
  BY <1>3, <1>4, <1>6 DEF FanTypes
<1>8. FanTypes'
  BY <1>1, <1>3, <1>7 DEF FanTypes
<1>9. Stores'
  BY <1>1 DEF FanInv, Stores
<1>10. due[g][s0] \in Nat /\ row[s0].version \in Nat
  BY <1>3 DEF FanTypes, SignalRows
<1>11. AtWork(g)'
  BY <1>1, <1>2, <1>5, <1>7, <1>10 DEF AtWork
<1>12. ASSUME NEW h \in Groups, h # g PROVE AtWork(h)'
  BY <1>1, <1>7, <1>12 DEF FanInv, AtWork
<1>13. CASE g = "graph"
  <2>1. worker'["index"] = worker["index"]
    BY <1>7, <1>13 DEF Groups
  <2>2. QED
    BY <1>1, <1>8, <1>9, <1>11, <1>13, <2>1, Elsewhere
<1>14. CASE g = "index"
  <2>1. ASSUME NEW s \in Signals PROVE OnItsWay(s)' /\ NoneNewer(s)'
    <3>1. ~Busy(s) /\ (Busy(s)' <=> s = s0)
      BY <1>1, <1>5, <1>7, <1>14 DEF Busy
    <3>2. CASE s = s0
      <4>1. Working(s)'
        BY <1>1, <1>5, <1>7, <1>14, <3>2 DEF Working
      <4>2. NoneNewer(s)'
        BY <1>1 DEF FanInv, NoneNewer
      <4>3. QED
        BY <3>1, <3>2, <4>1, <4>2 DEF OnItsWay
    <3>3. CASE s # s0
      <4>1. Told(s) => Told(s)'
        BY <1>1, <3>1, <3>3 DEF Told
      <4>2. QED
        BY <1>1, <3>1, <3>3, <4>1, Aside DEF FanInv
    <3>4. QED
      BY <3>2, <3>3
  <2>2. QED
    BY <1>8, <1>9, <1>11, <1>12, <2>1 DEF FanInv
<1>15. QED
  BY <1>13, <1>14 DEF Groups

LEMMA HandlerFailsKeeps == ASSUME FanInv, NEW g \in Groups, HandlerFails(g) PROVE FanInv'
<1>1. FanTypes /\ AtWork(g)
  BY DEF FanInv
<1>2. PICK s0 \in Signals : s0 = worker[g].signal
  BY <1>1 DEF FanTypes
<1>3. /\ UNCHANGED <<row, stamped, enricher, keyword, missed, vector>> /\ worker[g].at # "poll"
      /\ \/ worker' = [worker EXCEPT ![g] = Polling] /\ due' = due /\ parked' = parked
         \/ Handled(g) /\ parked' = parked \cup {s0}
  BY <1>2 DEF HandlerFails
<1>4. due[g][s0] >= 1 /\ due[g][s0] \in Nat
  BY <1>3, <1>1, <1>2 DEF AtWork, FanTypes
<1>5. /\ due' \in [Groups -> [Signals -> Nat]]
      /\ worker' \in [Groups -> [at : Stages, signal : Signals, view : SignalRows]]
      /\ worker'[g].at = "poll" /\ \A s \in Signals : s # s0 => due'[g][s] = due[g][s]
      /\ \A h \in Groups : h # g => worker'[h] = worker[h] /\ due'[h] = due[h]
      /\ parked \subseteq parked'
      /\ s0 \in parked' \/ due'[g][s0] >= 1
  <2>1. CASE worker' = [worker EXCEPT ![g] = Polling] /\ due' = due /\ parked' = parked
    <3>1. worker' \in [Groups -> [at : Stages, signal : Signals, view : SignalRows]]
      BY <1>1, <2>1, AtRestIs DEF FanTypes
    <3>2. worker'[g].at = "poll" /\ \A h \in Groups : h # g => worker'[h] = worker[h]
      BY <1>1, <2>1, AtRestIs DEF FanTypes
    <3>3. due' \in [Groups -> [Signals -> Nat]]
      BY <1>1, <2>1 DEF FanTypes
    <3>4. QED
      BY <1>4, <2>1, <3>1, <3>2, <3>3
  <2>2. CASE Handled(g) /\ parked' = parked \cup {s0}
    BY <1>1, <1>2, <1>4, <2>2, HandledIs
  <2>3. QED
    BY <1>3, <2>1, <2>2
<1>6. FanTypes'
  BY <1>3, <1>1, <1>5 DEF FanTypes
<1>7. Stores' /\ due'[g][s0] \in Nat
  BY <1>3, <1>1, <1>5 DEF FanInv, Stores
<1>8. CASE g = "graph"
  <2>1. AtWork("graph")' /\ worker'["index"] = worker["index"] /\ due'["index"] = due["index"]
    BY <1>5, <1>8 DEF AtWork, Groups
  <2>2. QED
    BY <1>3, <1>5, <1>6, <1>7, <2>1, Elsewhere
<1>9. CASE g = "index"
  <2>1. worker'["graph"] = worker["graph"] /\ due'["graph"] = due["graph"]
    BY <1>5, <1>9 DEF Groups
  <2>2. worker'["index"].at = "poll" /\ ~Busy(s0)'
    BY <1>5, <1>9 DEF Busy
  <2>3. Told(s0)'
    BY <1>5, <1>7, <1>9, <2>2 DEF Told
  <2>4. NoneNewer(s0)'
    BY <1>3, <1>1 DEF FanInv, NoneNewer
  <2>5. s0 = worker["index"].signal /\ worker["index"].at # "poll"
    BY <1>3, <1>2, <1>9
  <2>6. \A s \in Signals : s # s0 => /\ stamped[s] \subseteq stamped'[s]
                                    /\ keyword'[s] = keyword[s] /\ missed'[s] = missed[s] /\ vector'[s] = vector[s]
                                    /\ due'["index"][s] = due["index"][s]
    BY <1>3, <1>5, <1>9
  <2>7. QED
    BY <1>3, <1>1, <1>5, <1>6, <1>7, <2>1, <2>2, <2>3, <2>4, <2>5, <2>6, IndexStep
<1>10. QED
  BY <1>8, <1>9 DEF Groups

LEMMA HandleGraphKeeps == ASSUME FanInv, HandleGraph PROVE FanInv'
<1>1. /\ UNCHANGED <<row, enricher, keyword, missed, vector, parked>> /\ worker["graph"].at = "loaded"
      /\ Stamp("graph", {"graph"}) /\ Handled("graph")
  BY DEF HandleGraph
<1>2. FanTypes /\ AtWork("graph") /\ "graph" \in Groups /\ "index" \in Groups
  BY DEF FanInv, Groups
<1>3. due["graph"][worker["graph"].signal] >= 1
  BY <1>1, <1>2 DEF AtWork
<1>4. /\ stamped' \in [Signals -> SUBSET {"keyword", "vector", "graph"}]
      /\ \A s \in Signals : stamped[s] \subseteq stamped'[s]
  BY <1>1, <1>2, StampIs
<1>5. /\ due' \in [Groups -> [Signals -> Nat]]
      /\ worker' \in [Groups -> [at : Stages, signal : Signals, view : SignalRows]]
      /\ worker'["graph"].at = "poll" /\ worker'["index"] = worker["index"] /\ due'["index"] = due["index"]
  BY <1>1, <1>2, <1>3, HandledIs
<1>6. FanTypes'
  BY <1>1, <1>2, <1>4, <1>5 DEF FanTypes
<1>7. Stores' /\ AtWork("graph")'
  BY <1>1, <1>5 DEF FanInv, Stores, AtWork
<1>8. QED
  BY <1>1, <1>4, <1>5, <1>6, <1>7, Elsewhere

LEMMA SweepKeeps ==
    ASSUME FanInv, UNCHANGED <<row, stamped, due, enricher, worker, keyword, missed, vector, parked>>
    PROVE  FanInv'
<1>1. FanTypes' /\ Stores' /\ AtWork("graph")'
  BY DEF FanInv, FanTypes, Stores, AtWork, Groups
<1>2. QED
  BY <1>1, Elsewhere

\* What every step of the index worker starts from.
LEMMA IndexerIs ==
    ASSUME FanInv, worker["index"].at # "poll"
    PROVE  /\ FanTypes /\ "index" \in Groups /\ "graph" \in Groups
           /\ worker["index"].signal \in Signals /\ worker["index"].view \in SignalRows
           /\ row[worker["index"].signal] \in SignalRows
           /\ due["index"][worker["index"].signal] >= 1
           /\ worker["index"].view.version <= row[worker["index"].signal].version
           /\ NoneNewer(worker["index"].signal)
<1>1. FanTypes /\ "index" \in Groups /\ "graph" \in Groups /\ AtWork("index")
  BY DEF FanInv, Groups
<1>2. QED
  BY <1>1 DEF FanTypes, FanInv, AtWork

\* The last step of a handler: the message is committed.
LEMMA LastStep ==
    ASSUME FanInv, worker["index"].at # "poll", Handled("index"),
           UNCHANGED <<row, enricher, parked>>, Stores',
           NEW s0 \in Signals, s0 = worker["index"].signal,
           \A s \in Signals : s # s0 => keyword'[s] = keyword[s] /\ missed'[s] = missed[s] /\ vector'[s] = vector[s],
           stamped' \in [Signals -> SUBSET {"keyword", "vector", "graph"}],
           \A s \in Signals : stamped[s] \subseteq stamped'[s],
           NoneNewer(s0)', Working(s0) => Whole(s0)'
    PROVE  FanInv'
<1>1. /\ FanTypes /\ "index" \in Groups /\ "graph" \in Groups
      /\ due["index"][worker["index"].signal] >= 1
  BY IndexerIs
<1>2. /\ due' \in [Groups -> [Signals -> Nat]]
      /\ worker' \in [Groups -> [at : Stages, signal : Signals, view : SignalRows]]
      /\ worker'["index"].at = "poll" /\ due'["index"][s0] = due["index"][s0] - 1
      /\ \A s \in Signals : s # s0 => due'["index"][s] = due["index"][s]
      /\ worker'["graph"] = worker["graph"] /\ due'["graph"] = due["graph"]
  BY <1>1, HandledIs
<1>3. FanTypes'
  BY <1>1, <1>2 DEF FanTypes
<1>4. QED
  BY <1>2, <1>3, IndexStep

\* A step in the middle of a handler.
LEMMA MiddleStep ==
    ASSUME FanInv, worker["index"].at # "poll", NEW at \in Stages, at # "poll", Doing("index", at),
           UNCHANGED <<row, due, enricher, parked>>, Stores',
           NEW s0 \in Signals, s0 = worker["index"].signal,
           \A s \in Signals : s # s0 => keyword'[s] = keyword[s] /\ missed'[s] = missed[s] /\ vector'[s] = vector[s],
           stamped' \in [Signals -> SUBSET {"keyword", "vector", "graph"}],
           \A s \in Signals : stamped[s] \subseteq stamped'[s],
           NoneNewer(s0)', Working(s0) => Working(s0)'
    PROVE  FanInv'
<1>1. FanTypes /\ "index" \in Groups /\ "graph" \in Groups
  BY IndexerIs
<1>2. /\ worker' \in [Groups -> [at : Stages, signal : Signals, view : SignalRows]]
      /\ worker'["index"].at = at /\ worker'["index"].signal = s0
      /\ worker'["index"].view = worker["index"].view
      /\ worker'["graph"] = worker["graph"]
  BY <1>1, DoingIs
<1>3. FanTypes'
  BY <1>1, <1>2 DEF FanTypes
<1>4. QED
  BY <1>2, <1>3, IndexStep

LEMMA OneChanges ==
    ASSUME NEW f, NEW h, f = [s \in Signals |-> f[s]], NEW s0 \in Signals, NEW x,
           h = [f EXCEPT ![s0] = x]
    PROVE  /\ h = [s \in Signals |-> h[s]] /\ h[s0] = x
           /\ \A s \in Signals : s # s0 => h[s] = f[s]
OBVIOUS

LEMMA NothingKeeps == ASSUME FanInv, Nothing PROVE FanInv'
<1>1. /\ UNCHANGED <<row, enricher, keyword, missed, vector, parked>> /\ worker["index"].at = "loaded"
      /\ Chunks[worker["index"].view.text] = 0
      /\ Indexable(worker["index"].view)
      /\ Stamp("index", {"keyword", "vector"}) /\ Handled("index")
  BY DEF Nothing
<1>2. PICK s0 \in Signals : s0 = worker["index"].signal
  BY <1>1, IndexerIs
<1>3. FanTypes /\ "index" \in Groups /\ NoneNewer(s0)
  BY <1>1, <1>2, IndexerIs
<1>4. /\ stamped' \in [Signals -> SUBSET {"keyword", "vector", "graph"}]
      /\ stamped'[s0] = stamped[s0] \cup {"keyword", "vector"}
      /\ \A s \in Signals : stamped[s] \subseteq stamped'[s]
  BY <1>1, <1>2, <1>3, StampIs
<1>5. Stores' /\ NoneNewer(s0)'
  BY <1>1, <1>3 DEF FanInv, Stores, NoneNewer
<1>6. ASSUME Working(s0) PROVE Whole(s0)'
  <2>1. worker["index"].view = row[s0] /\ row'[s0] = row[s0]
    BY <1>1, <1>6 DEF Working
  <2>2. Chunks[row'[s0].text] = 0 /\ Indexable(row'[s0])
    BY <1>1, <2>1
  <2>3. KeywordHas(s0)' /\ VectorHas(s0)'
    BY <2>2 DEF KeywordHas, VectorHas
  <2>4. QED
    BY <1>4, <2>2, <2>3 DEF Whole
<1>7. QED
  BY <1>1, <1>2, <1>4, <1>5, <1>6, LastStep

LEMMA DemoteKeeps == ASSUME FanInv, Demote PROVE FanInv'
<1>1. /\ UNCHANGED <<row, enricher, parked>> /\ Withdraw(worker["index"].signal)
      /\ worker["index"].at \in {"loaded", "withdrawn"}
  BY DEF Demote, Withdraw
<1>2. PICK s0 \in Signals : s0 = worker["index"].signal
  BY <1>1, IndexerIs
<1>3. FanTypes /\ "index" \in Groups /\ NoneNewer(s0) /\ Stores
  BY <1>1, <1>2, IndexerIs DEF FanInv
<1>4. CASE /\ worker["index"].at = "loaded" /\ ~Indexable(worker["index"].view)
           /\ keyword' = [keyword EXCEPT ![s0] = Unreached(s0)]
           /\ missed' = [missed EXCEPT ![s0] = DOMAIN Unreached(s0)]
           /\ Doing("index", "withdrawn") /\ UNCHANGED <<stamped, due, vector>>
  <2>1. keyword' = [s \in Signals |-> keyword'[s]] /\ keyword'[s0] = Unreached(s0)
        /\ \A s \in Signals : s # s0 => keyword'[s] = keyword[s]
    BY <1>3, <1>4, OneChanges DEF Stores
  <2>2. missed' = [s \in Signals |-> missed'[s]] /\ missed'[s0] = DOMAIN Unreached(s0)
        /\ \A s \in Signals : s # s0 => missed'[s] = missed[s]
    BY <1>3, <1>4, OneChanges DEF Stores
  <2>3. \A i \in DOMAIN Unreached(s0) : i \in DOMAIN keyword[s0] /\ Unreached(s0)[i] = keyword[s0][i]
    BY DEF Unreached
  <2>4. Stores' /\ NoneNewer(s0)'
    BY <1>1, <1>3, <1>4, <2>1, <2>2, <2>3 DEF Stores, NoneNewer
  <2>5. worker'["index"].at = "withdrawn" /\ worker'["index"].view = worker["index"].view
    BY <1>3, <1>4, DoingIs DEF Stages
  <2>6. ASSUME Working(s0) PROVE Working(s0)'
    <3>1. Withdrawn(s0)'
      BY <2>1, <2>2 DEF Withdrawn
    <3>2. QED
      BY <1>1, <1>4, <2>5, <2>6, <3>1 DEF Working
  <2>7. stamped' \in [Signals -> SUBSET {"keyword", "vector", "graph"}]
        /\ \A s \in Signals : stamped[s] \subseteq stamped'[s] /\ vector'[s] = vector[s]
    BY <1>3, <1>4 DEF FanTypes
  <2>8. "withdrawn" \in Stages /\ "withdrawn" # "poll" /\ worker["index"].at # "poll" /\ due' = due
    BY <1>4 DEF Stages
  <2>9. QED
    BY <1>1, <1>2, <1>4, <2>1, <2>2, <2>4, <2>6, <2>7, <2>8, MiddleStep
<1>5. CASE /\ worker["index"].at = "withdrawn"
           /\ vector' = [vector EXCEPT ![s0] = NoDocs]
           /\ Stamp("index", {"keyword", "vector"})
           /\ Handled("index") /\ UNCHANGED <<keyword, missed>>
  <2>1. vector' = [s \in Signals |-> vector'[s]] /\ vector'[s0] = NoDocs
        /\ \A s \in Signals : s # s0 => vector'[s] = vector[s]
    BY <1>3, <1>5, OneChanges DEF Stores
  <2>2. Stores' /\ NoneNewer(s0)'
    BY <1>1, <1>3, <1>5, <2>1 DEF Stores, NoneNewer
  <2>3. /\ stamped' \in [Signals -> SUBSET {"keyword", "vector", "graph"}]
        /\ stamped'[s0] = stamped[s0] \cup {"keyword", "vector"}
        /\ \A s \in Signals : stamped[s] \subseteq stamped'[s]
    BY <1>2, <1>3, <1>5, StampIs
  <2>4. ASSUME Working(s0) PROVE Whole(s0)'
    <3>1. ~Indexable(row'[s0]) /\ Withdrawn(s0)'
      BY <1>1, <1>5, <2>4 DEF Working, Withdrawn
    <3>2. QED
      BY <2>1, <2>3, <3>1 DEF Whole
  <2>5. worker["index"].at # "poll" /\ \A s \in Signals : s # s0 => keyword'[s] = keyword[s] /\ missed'[s] = missed[s]
    BY <1>5
  <2>6. QED
    BY <1>1, <1>2, <1>5, <2>1, <2>2, <2>3, <2>4, <2>5, LastStep
<1>6. QED
  BY <1>1, <1>2, <1>4, <1>5 DEF Withdraw

\* A bulk at the row's version leaves every chunk of the text at that version,
\* unless the index holds a newer one.
LEMMA IndexedIs ==
    ASSUME NEW docs, NEW view \in SignalRows, NEW top \in Nat,
           \A i \in DOMAIN docs : docs[i].version \in Nat /\ docs[i].version <= top,
           view.version <= top
    PROVE  /\ \A i \in DOMAIN Indexed(docs, view) :
                 Indexed(docs, view)[i].version \in Nat /\ Indexed(docs, view)[i].version <= top
           /\ view.version = top =>
                 \A i \in 1..Chunks[view.text] :
                    /\ i \in DOMAIN Indexed(docs, view)
                    /\ Indexed(docs, view)[i] = [version |-> view.version, text |-> view.text]
<1> DEFINE doc == [version |-> view.version, text |-> view.text]
<1>1. doc.version = view.version /\ view.version \in Nat /\ Chunks[view.text] \in Nat
  BY FanAssumption DEF SignalRows
<1>2. Indexed(docs, view) =
         [i \in DOMAIN docs \cup 1..Chunks[view.text] |->
            IF i \in Bulk(docs, view) THEN doc ELSE docs[i]]
  BY DEF Indexed
<1> HIDE DEF doc
<1>3. ASSUME NEW i \in DOMAIN Indexed(docs, view)
      PROVE  Indexed(docs, view)[i].version \in Nat /\ Indexed(docs, view)[i].version <= top
  <2>1. CASE Indexed(docs, view)[i] = doc
    BY <1>1, <2>1
  <2>2. CASE i \in DOMAIN docs /\ Indexed(docs, view)[i] = docs[i]
    BY <2>2
  <2>3. i \in DOMAIN docs \/ (i \in 1..Chunks[view.text] /\ i \notin DOMAIN docs)
    BY <1>2, <1>3
  <2>4. CASE i \in 1..Chunks[view.text] /\ i \notin DOMAIN docs
    <3>1. i \in Bulk(docs, view)
      BY <2>4 DEF Bulk
    <3>2. Indexed(docs, view)[i] = doc
      BY <1>2, <2>4, <3>1
    <3>3. QED
      BY <2>1, <3>2
  <2>5. CASE i \in DOMAIN docs
    BY <1>2, <2>1, <2>2, <2>5
  <2>6. QED
    BY <2>3, <2>4, <2>5
<1>4. ASSUME view.version = top, NEW i \in 1..Chunks[view.text]
      PROVE  i \in DOMAIN Indexed(docs, view) /\ Indexed(docs, view)[i] = doc
  <2>1. i \in DOMAIN docs => docs[i].version <= view.version
    BY <1>1, <1>4
  <2>2. i \in Bulk(docs, view)
    BY <2>1 DEF Bulk
  <2>3. QED
    BY <1>2, <2>2
<1>5. QED
  BY <1>3, <1>4 DEF doc

LEMMA IndexKeywordKeeps == ASSUME FanInv, IndexKeyword PROVE FanInv'
<1>1. /\ UNCHANGED <<row, stamped, due, enricher, missed, vector, parked>> /\ worker["index"].at = "loaded"
      /\ Indexable(worker["index"].view) /\ Doing("index", "keyword")
      /\ keyword' = [keyword EXCEPT ![worker["index"].signal] =
                        Indexed(keyword[worker["index"].signal], worker["index"].view)]
  BY DEF IndexKeyword
<1>2. PICK s0 \in Signals : s0 = worker["index"].signal
  BY <1>1, IndexerIs
<1>3. PICK view \in SignalRows : view = worker["index"].view
  BY <1>1, IndexerIs
<1>4. /\ FanTypes /\ "index" \in Groups /\ NoneNewer(s0) /\ Stores
      /\ row[s0].version \in Nat /\ view.version <= row[s0].version
  BY <1>1, <1>2, <1>3, IndexerIs DEF FanInv, SignalRows
<1>5. PICK docs : docs = Indexed(keyword[s0], view)
  OBVIOUS
<1>6. /\ \A i \in DOMAIN docs : docs[i].version \in Nat /\ docs[i].version <= row[s0].version
      /\ view.version = row[s0].version =>
            \A i \in 1..Chunks[view.text] :
                i \in DOMAIN docs /\ docs[i] = [version |-> view.version, text |-> view.text]
  BY <1>4, <1>5, IndexedIs DEF NoneNewer
<1>7. keyword' = [s \in Signals |-> keyword'[s]] /\ keyword'[s0] = docs
      /\ \A s \in Signals : s # s0 => keyword'[s] = keyword[s]
  <2>1. keyword' = [keyword EXCEPT ![s0] = docs]
    BY <1>1, <1>2, <1>3, <1>5
  <2>2. QED
    BY <1>4, <2>1, OneChanges DEF Stores
<1>8. Stores' /\ NoneNewer(s0)'
  BY <1>1, <1>4, <1>6, <1>7 DEF Stores, NoneNewer
<1>9. worker'["index"].at = "keyword" /\ worker'["index"].view = view
  BY <1>1, <1>3, <1>4, DoingIs DEF Stages
<1>10. ASSUME Working(s0) PROVE Working(s0)'
  <2>1. view = row[s0] /\ row'[s0] = row[s0]
    BY <1>1, <1>3, <1>10 DEF Working
  <2>2. KeywordHas(s0)'
    BY <1>6, <1>7, <2>1 DEF KeywordHas
  <2>3. Indexable(row'[s0])
    BY <1>1, <1>3, <2>1
  <2>4. QED
    BY <1>9, <2>1, <2>2, <2>3 DEF Working
<1>11. /\ stamped' \in [Signals -> SUBSET {"keyword", "vector", "graph"}]
       /\ \A s \in Signals : stamped[s] \subseteq stamped'[s] /\ missed'[s] = missed[s] /\ vector'[s] = vector[s]
       /\ "keyword" \in Stages /\ "keyword" # "poll" /\ worker["index"].at # "poll"
  BY <1>1, <1>4 DEF FanTypes, Stages
<1>12. QED
  BY <1>1, <1>2, <1>7, <1>8, <1>10, <1>11, MiddleStep

LEMMA StampKeywordKeeps == ASSUME FanInv, StampKeyword PROVE FanInv'
<1>1. /\ UNCHANGED <<row, due, enricher, keyword, missed, vector, parked>> /\ worker["index"].at = "keyword"
      /\ Stamp("index", {"keyword"}) /\ Doing("index", "vector")
  BY DEF StampKeyword
<1>2. PICK s0 \in Signals : s0 = worker["index"].signal
  BY <1>1, IndexerIs
<1>3. FanTypes /\ "index" \in Groups /\ NoneNewer(s0) /\ Stores
  BY <1>1, <1>2, IndexerIs DEF FanInv
<1>4. /\ stamped' \in [Signals -> SUBSET {"keyword", "vector", "graph"}]
      /\ stamped'[s0] = stamped[s0] \cup {"keyword"}
      /\ \A s \in Signals : stamped[s] \subseteq stamped'[s]
  BY <1>1, <1>2, <1>3, StampIs
<1>5. worker'["index"].at = "vector" /\ worker'["index"].view = worker["index"].view
  BY <1>1, <1>3, DoingIs DEF Stages
<1>6. Stores' /\ NoneNewer(s0)'
  BY <1>1, <1>3 DEF Stores, NoneNewer
<1>7. ASSUME Working(s0) PROVE Working(s0)'
  <2>1. KeywordHas(s0)'
    BY <1>1, <1>7 DEF Working, KeywordHas
  <2>2. QED
    BY <1>1, <1>4, <1>5, <1>7, <2>1 DEF Working
<1>8. /\ "vector" \in Stages /\ "vector" # "poll" /\ worker["index"].at # "poll"
      /\ \A s \in Signals : keyword'[s] = keyword[s] /\ missed'[s] = missed[s] /\ vector'[s] = vector[s]
  BY <1>1 DEF Stages
<1>9. QED
  BY <1>1, <1>2, <1>4, <1>6, <1>7, <1>8, MiddleStep

LEMMA IndexVectorKeeps == ASSUME FanInv, IndexVector PROVE FanInv'
<1>1. /\ UNCHANGED <<row, stamped, due, enricher, keyword, missed, parked>> /\ worker["index"].at = "vector"
      /\ Doing("index", "points")
      /\ vector' = [vector EXCEPT ![worker["index"].signal] =
                      [i \in DOMAIN vector[worker["index"].signal]
                               \cup 1..Chunks[worker["index"].view.text] |->
                        IF i \in 1..Chunks[worker["index"].view.text] THEN worker["index"].view.text
                        ELSE vector[worker["index"].signal][i]]]
  BY DEF IndexVector
<1>2. PICK s0 \in Signals : s0 = worker["index"].signal
  BY <1>1, IndexerIs
<1>3. PICK view \in SignalRows : view = worker["index"].view
  BY <1>1, IndexerIs
<1>4. FanTypes /\ "index" \in Groups /\ NoneNewer(s0) /\ Stores
  BY <1>1, <1>2, IndexerIs DEF FanInv
<1>5. PICK points : points = [i \in DOMAIN vector[s0] \cup 1..Chunks[view.text] |->
                               IF i \in 1..Chunks[view.text] THEN view.text ELSE vector[s0][i]]
  OBVIOUS
<1>6. \A i \in 1..Chunks[view.text] : i \in DOMAIN points /\ points[i] = view.text
  BY <1>5
<1>7. vector' = [s \in Signals |-> vector'[s]] /\ vector'[s0] = points
      /\ \A s \in Signals : s # s0 => vector'[s] = vector[s]
  <2>1. vector' = [vector EXCEPT ![s0] = points]
    BY <1>1, <1>2, <1>3, <1>5
  <2>2. QED
    BY <1>4, <2>1, OneChanges DEF Stores
<1>8. Stores' /\ NoneNewer(s0)'
  BY <1>1, <1>4, <1>7 DEF Stores, NoneNewer
<1>9. worker'["index"].at = "points" /\ worker'["index"].view = view
  BY <1>1, <1>3, <1>4, DoingIs DEF Stages
<1>10. ASSUME Working(s0) PROVE Working(s0)'
  <2>1. view = row[s0] /\ row'[s0] = row[s0]
    BY <1>1, <1>3, <1>10 DEF Working
  <2>2. VectorHas(s0)'
    BY <1>6, <1>7, <2>1 DEF VectorHas
  <2>3. KeywordHas(s0)'
    BY <1>1, <1>10 DEF Working, KeywordHas
  <2>4. Indexable(row'[s0]) /\ "keyword" \in stamped'[s0]
    BY <1>1, <1>10 DEF Working
  <2>5. QED
    BY <1>9, <2>1, <2>2, <2>3, <2>4 DEF Working
<1>11. /\ stamped' \in [Signals -> SUBSET {"keyword", "vector", "graph"}]
       /\ \A s \in Signals : stamped[s] \subseteq stamped'[s] /\ keyword'[s] = keyword[s] /\ missed'[s] = missed[s]
       /\ "points" \in Stages /\ "points" # "poll" /\ worker["index"].at # "poll"
  BY <1>1, <1>4 DEF FanTypes, Stages
<1>12. QED
  BY <1>1, <1>2, <1>7, <1>8, <1>10, <1>11, MiddleStep

LEMMA FinishIndexKeeps == ASSUME FanInv, FinishIndex PROVE FanInv'
<1>1. /\ UNCHANGED <<row, enricher, keyword, missed, vector, parked>> /\ worker["index"].at \in {"vector", "points"}
      /\ Handled("index")
      /\ \/ worker["index"].at = "points" /\ Stamp("index", {"vector"})
         \/ worker["index"].at = "vector" /\ ~worker["index"].view.embedded /\ stamped' = stamped
  BY DEF FinishIndex
<1>2. PICK s0 \in Signals : s0 = worker["index"].signal
  BY <1>1, IndexerIs
<1>3. FanTypes /\ "index" \in Groups /\ NoneNewer(s0) /\ Stores
  BY <1>1, <1>2, IndexerIs DEF FanInv
<1>4. /\ stamped' \in [Signals -> SUBSET {"keyword", "vector", "graph"}]
      /\ \A s \in Signals : stamped[s] \subseteq stamped'[s]
      /\ worker["index"].view.embedded =>
            "vector" \in stamped'[s0] /\ worker["index"].at = "points"
  <2>1. CASE worker["index"].at = "points" /\ Stamp("index", {"vector"})
    <3>1. /\ stamped' \in [Signals -> SUBSET {"keyword", "vector", "graph"}]
          /\ stamped'[s0] = stamped[s0] \cup {"vector"}
          /\ \A s \in Signals : stamped[s] \subseteq stamped'[s]
      BY <1>2, <1>3, <2>1, StampIs
    <3>2. QED
      BY <2>1, <3>1
  <2>2. CASE ~worker["index"].view.embedded /\ stamped' = stamped
    BY <1>3, <2>2 DEF FanTypes
  <2>3. QED
    BY <1>1, <2>1, <2>2
<1>5. Stores' /\ NoneNewer(s0)'
  BY <1>1, <1>3 DEF Stores, NoneNewer
<1>6. ASSUME Working(s0) PROVE Whole(s0)'
  <2>1. worker["index"].view = row[s0] /\ row'[s0] = row[s0]
    BY <1>1, <1>6 DEF Working
  <2>2. KeywordHas(s0)' /\ Indexable(row'[s0]) /\ "keyword" \in stamped[s0]
    BY <1>1, <1>6 DEF Working, KeywordHas
  <2>3. "keyword" \in stamped'[s0]
    BY <1>4, <2>2
  <2>4. row'[s0].embedded => VectorHas(s0)'
    BY <1>1, <1>4, <1>6, <2>1 DEF Working, VectorHas
  <2>5. row'[s0].embedded => "vector" \in stamped'[s0]
    BY <1>4, <2>1
  <2>6. QED
    BY <2>2, <2>3, <2>4, <2>5 DEF Whole
<1>7. \A s \in Signals : keyword'[s] = keyword[s] /\ missed'[s] = missed[s] /\ vector'[s] = vector[s]
  BY <1>1
<1>8. QED
  BY <1>1, <1>2, <1>4, <1>5, <1>6, <1>7, LastStep

LEMMA FanStep == FanInv /\ [FanNext]_fanVars => FanInv'
<1> SUFFICES ASSUME FanInv, [FanNext]_fanVars PROVE FanInv'
  OBVIOUS
<1>1. CASE \E e \in Enrichers : Enrich(e) \/ Store(e) \/ Announce(e) \/ EnrichFails(e)
  BY <1>1, EnrichKeeps, StoreKeeps, AnnounceKeeps, EnrichFailsKeeps
<1>2. CASE \E g \in Groups : Load(g) \/ HandlerFails(g)
  BY <1>2, LoadKeeps, HandlerFailsKeeps
<1>3. CASE Nothing \/ Demote \/ IndexKeyword \/ StampKeyword \/ IndexVector \/ FinishIndex
  BY <1>3, NothingKeeps, DemoteKeeps, IndexKeywordKeeps, StampKeywordKeeps, IndexVectorKeeps,
     FinishIndexKeeps
<1>4. CASE HandleGraph
  BY <1>4, HandleGraphKeeps
<1>5. CASE ClaimPending
  BY <1>5, SweepKeeps DEF ClaimPending
<1>6. CASE StampTimesOut
  BY <1>6, SweepKeeps DEF StampTimesOut
<1>7. CASE IndexRefresh
  BY <1>7, SweepKeeps DEF IndexRefresh
<1>8. CASE UNCHANGED fanVars
  BY <1>8, SweepKeeps DEF fanVars
<1>9. QED
  BY <1>1, <1>2, <1>3, <1>4, <1>5, <1>6, <1>7, <1>8 DEF FanNext

LEMMA QuietIsWhole == FanInv => QuietIsIndexed
<1> SUFFICES ASSUME FanInv, NEW s \in Signals, Quiet(s), row[s].version # 0
             PROVE  Whole(s)
  <2>1. (\A s \in Signals : Quiet(s) /\ row[s].version # 0 => Whole(s)) => QuietIsIndexed
    BY DEF QuietIsIndexed, Whole, KeywordHas, VectorHas, Withdrawn
  <2>2. QED
    BY <2>1
<1>1. ~Busy(s)
  <2>1. FanTypes /\ AtWork("index")
    BY DEF FanInv, Groups
  <2>2. QED
    BY <2>1 DEF AtWork, Busy, Quiet
<1>2. ~Told(s)
  BY <1>1 DEF Told, Quiet
<1>3. OnItsWay(s)
  BY DEF FanInv
<1>4. QED
  BY <1>1, <1>2, <1>3 DEF OnItsWay

\* StoreStage.apply, IndexingWorker.handle: whatever versions, texts and
\* failures, and whenever the index is refreshed: when nothing of a Signal is
\* under way both indexes hold what its row says, or of a Signal that lost its
\* election nothing but what its withdrawal was too early to see, and the row is
\* stamped.
THEOREM QuietIsIndexedHolds == FanSpec => []QuietIsIndexed
<1>1. FanInit => FanInv
  BY FanStarts
<1>2. FanInv /\ [FanNext]_fanVars => FanInv'
  BY FanStep
<1>3. FanInv => QuietIsIndexed
  BY QuietIsWhole
<1>4. QED
  BY <1>1, <1>2, <1>3, PTL DEF FanSpec

-----------------------------------------------------------------------------
(* The schema migrator.                                                     *)

Entries    == [version : Versions, checksum : Nat, over : SUBSET Versions]
Rows       == [applied : Seq(Entries), current : Versions]
Migrations == [at : {"stopped", "found", "apply", "recording"}, files : [Versions -> Nat],
               read : SUBSET Versions, todo : SUBSET Versions, next : Nat,
               found : Nat, lacking : SUBSET Nat]

MigratorTypes ==
    /\ disk \in [Versions -> Nat] /\ recorded \in Seq(Rows)
    /\ migration \in [Migrators -> Migrations] /\ overlapped \in BOOLEAN

\* A file that was discovered stays on disk, whatever becomes of its text.
FilesStay ==
    \A m \in Migrators : \A v \in Versions : migration[m].files[v] # 0 => disk[v] # 0

\* What a migrator has left is newer than all it has read of the record, and
\* the statements before its next one have run.
Newer(move)     == \A v \in move.todo : \A w \in move.read : v > w
Done(move, log) == \A n \in Nat : 1 <= n /\ n < move.next =>
                      <<Min(move.todo), move.files[Min(move.todo)], n>> \in log
Ready(move, log) ==
    /\ move.at = "found" => move.next = 1
    /\ move.at \in {"apply", "recording"} => move.todo # {} /\ Newer(move) /\ Done(move, log)
    /\ move.at = "recording" => move.next > Statements
WorkIsRight == \A m \in Migrators : Ready(migration[m], executed)

\* As long as no two migrators were writing at once, what the one that is has
\* found is what there is.
Missing(move, nodes) == {k \in DOMAIN nodes : Min(move.todo) \notin Numbers(nodes[k].applied)}
Sees(move, nodes) ==
    move.at = "recording" => move.found = Len(nodes) /\ move.lacking = Missing(move, nodes)
WriterSees == ~overlapped => \A m \in Migrators : Sees(migration[m], recorded)

\* RecordIsTrue, in its parts.
TrueEntry(r, log) ==
    /\ \A n \in 1..Statements : <<r.version, r.checksum, n>> \in log
    /\ \A w \in r.over : r.version > w
TrueRow(node, log) == \A i \in DOMAIN node.applied : TrueEntry(node.applied[i], log)
Once(node) ==
    \A i, j \in DOMAIN node.applied : node.applied[i].version = node.applied[j].version => i = j
EntriesAreTrue == \A k \in DOMAIN recorded : TrueRow(recorded[k], executed)
OneRecord      == ~overlapped => Len(recorded) <= 1 /\ \A k \in DOMAIN recorded : Once(recorded[k])

MigratorInv ==
    MigratorTypes /\ FilesStay /\ WorkIsRight /\ WriterSees /\ EntriesAreTrue /\ OneRecord

-----------------------------------------------------------------------------
\* What is due is one of the versions left.
LEMMA DueIsLeft ==
    ASSUME NEW rest \in SUBSET Versions, rest # {}
    PROVE  Min(rest) \in rest /\ Min(rest) \in Versions
<1>1. rest \in SUBSET Nat
  BY MigratorAssumption DEF MigratorAssumption
<1> DEFINE below == {pair \in Nat \X Nat : pair[1] < pair[2]}
<1>2. IsWellFoundedOn(below, Nat)
  BY NatLessThanWellFounded DEF OpToRel
<1> HIDE DEF below
<1>3. \E x \in rest : \A y \in rest : <<y, x>> \notin below
  BY <1>1, <1>2, WFMin
<1>4. PICK x \in rest : \A y \in rest : <<y, x>> \notin below
  BY <1>3
<1>5. ASSUME NEW y \in rest PROVE x <= y
  <2>1. x \in Nat /\ y \in Nat /\ <<y, x>> \in Nat \X Nat
    BY <1>1
  <2>2. ~(y < x)
    BY <1>4, <2>1 DEF below
  <2>3. QED
    BY <2>1, <2>2
<1>6. QED
  BY <1>5 DEF Min

LEMMA StoppedIsReady == Stopped \in Migrations
<1>1. Stopped.files \in [Versions -> Nat]
  BY DEF Stopped
<1>2. QED
  BY <1>1 DEF Stopped, Migrations

\* A migrator that moves to work it is ready for disturbs nobody.
LEMMA MoveKeeps ==
    ASSUME MigratorTypes, FilesStay, WorkIsRight, NEW m \in Migrators,
           NEW move \in Migrations, migration' = [migration EXCEPT ![m] = move],
           disk' = disk, executed \subseteq executed', Ready(move, executed'),
           \A v \in Versions : move.files[v] # 0 => disk[v] # 0
    PROVE  migration' \in [Migrators -> Migrations] /\ FilesStay' /\ WorkIsRight'
<1>1. /\ migration' \in [Migrators -> Migrations] /\ migration'[m] = move
      /\ \A o \in Migrators : o # m => migration'[o] = migration[o]
  BY DEF MigratorTypes
<1>2. FilesStay'
  BY <1>1 DEF FilesStay
<1>3. WorkIsRight'
  <2> SUFFICES ASSUME NEW o \in Migrators PROVE Ready(migration'[o], executed')
    BY DEF WorkIsRight
  <2>1. CASE o = m
    BY <2>1, <1>1
  <2>2. CASE o # m
    BY <2>2, <1>1 DEF WorkIsRight, Ready, Done
  <2>3. QED
    BY <2>1, <2>2
<1>4. QED
  BY <1>1, <1>2, <1>3

\* And as long as nobody writes, the record stays as it was found, and true.
LEMMA RecordStands ==
    ASSUME MigratorInv, NEW m \in Migrators, NEW move \in Migrations, Sees(move, recorded),
           migration' = [migration EXCEPT ![m] = move], executed \subseteq executed',
           UNCHANGED <<recorded, overlapped>>
    PROVE  recorded' \in Seq(Rows) /\ overlapped' \in BOOLEAN /\ WriterSees' /\ EntriesAreTrue' /\ OneRecord'
<1>1. /\ migration'[m] = move
      /\ \A o \in Migrators : o # m => migration'[o] = migration[o]
  BY DEF MigratorInv, MigratorTypes
<1>2. WriterSees'
  <2> SUFFICES ASSUME ~overlapped, NEW o \in Migrators PROVE Sees(migration'[o], recorded)
    BY DEF WriterSees
  <2>1. QED
    BY <1>1 DEF MigratorInv, WriterSees
<1>3. EntriesAreTrue'
  BY DEF MigratorInv, EntriesAreTrue, TrueRow, TrueEntry
<1>4. QED
  BY <1>2, <1>3 DEF MigratorInv, MigratorTypes, OneRecord

LEMMA DiscoverKeeps == ASSUME MigratorInv, NEW m \in Migrators, Discover(m) PROVE MigratorInv'
<1> DEFINE move == [Stopped EXCEPT !.at = "found", !.files = disk]
<1>1. /\ move.at = "found" /\ move.files = disk
      /\ move.read = {} /\ move.todo = {} /\ move.next = 1
  BY DEF Stopped
<1>2. move \in Migrations
  <2>1. disk \in [Versions -> Nat]
    BY DEF MigratorInv, MigratorTypes
  <2>2. QED
    BY <2>1, StoppedIsReady DEF Migrations
<1>3. migration' = [migration EXCEPT ![m] = move] /\ UNCHANGED <<disk, executed, recorded, overlapped>>
  BY DEF Discover
<1> HIDE DEF move
<1>4. Ready(move, executed') /\ \A v \in Versions : move.files[v] # 0 => disk[v] # 0
  BY <1>1 DEF Ready
<1>5. migration' \in [Migrators -> Migrations] /\ FilesStay' /\ WorkIsRight'
  BY <1>2, <1>3, <1>4, MoveKeeps DEF MigratorInv
<1>6. Sees(move, recorded)
  BY <1>1 DEF Sees
<1>7. recorded' \in Seq(Rows) /\ overlapped' \in BOOLEAN /\ WriterSees' /\ EntriesAreTrue' /\ OneRecord'
  BY <1>2, <1>3, <1>6, RecordStands
<1>8. QED
  BY <1>3, <1>5, <1>7 DEF MigratorInv, MigratorTypes

LEMMA StopKeeps ==
    ASSUME MigratorTypes, FilesStay, WorkIsRight, NEW m \in Migrators,
           migration' = [migration EXCEPT ![m] = Stopped],
           disk' = disk, executed \subseteq executed'
    PROVE  migration' \in [Migrators -> Migrations] /\ FilesStay' /\ WorkIsRight'
<1>1. Ready(Stopped, executed') /\ \A v \in Versions : Stopped.files[v] = 0
  BY DEF Ready, Stopped
<1>2. QED
  BY <1>1, StoppedIsReady, MoveKeeps

\* A migrator that stops without recording.
LEMMA StopStands ==
    ASSUME MigratorInv, NEW m \in Migrators, migration' = [migration EXCEPT ![m] = Stopped],
           executed \subseteq executed', UNCHANGED <<disk, recorded, overlapped>>
    PROVE  MigratorInv'
<1>1. Sees(Stopped, recorded)
  BY DEF Sees, Stopped
<1>2. recorded' \in Seq(Rows) /\ overlapped' \in BOOLEAN /\ WriterSees' /\ EntriesAreTrue' /\ OneRecord'
  BY <1>1, StoppedIsReady, RecordStands
<1>3. QED
  BY <1>2, StopKeeps DEF MigratorInv, MigratorTypes

LEMMA ReadRecordKeeps == ASSUME MigratorInv, NEW m \in Migrators, ReadRecord(m) PROVE MigratorInv'
<1> DEFINE pending == OnDisk(migration[m].files) \ Numbers(TheRecord)
<1>1. /\ migration[m] \in Migrations /\ pending \subseteq Versions
      /\ migration[m].at = "found" /\ migration[m].next = 1
  BY DEF MigratorInv, MigratorTypes, OnDisk, ReadRecord, Now, WorkIsRight, Ready
<1>2. UNCHANGED <<disk, executed, recorded, overlapped>>
  BY DEF ReadRecord
<1>3. PICK plan \in {[files |-> migration[m].files, todo |-> pending]}
                    \cup {[files |-> disk, todo |-> {v}] : v \in pending} :
        migration' = [migration EXCEPT ![m] =
            IF Len(recorded) <= 1 /\ Consistent(plan.files, TheRecord)
            THEN IF plan.todo = {} THEN Stopped
                 ELSE [migration[m] EXCEPT !.at = "apply", !.read = Numbers(TheRecord), !.todo = plan.todo]
            ELSE Stopped]
  BY ZenonT(60) DEF ReadRecord
<1>4. plan.todo \subseteq pending /\ \A v \in plan.todo : plan.files[v] # 0
  BY DEF MigratorInv, FilesStay, OnDisk
<1>5. Numbers(TheRecord) \subseteq Versions
  <2>1. CASE recorded = <<>>
    BY <2>1 DEF TheRecord, Numbers
  <2>2. CASE recorded # <<>>
    <3>1. recorded[1] \in Rows
      BY <2>2 DEF MigratorInv, MigratorTypes
    <3>2. recorded[1].applied \in Seq(Entries) /\ TheRecord = recorded[1].applied
      BY <2>2, <3>1 DEF Rows, TheRecord
    <3>3. \A i \in DOMAIN TheRecord : TheRecord[i] \in Entries
      BY <3>2
    <3>4. QED
      BY <3>3 DEF Numbers, Entries
  <2>3. QED
    BY <2>1, <2>2
<1> HIDE DEF pending
<1>6. CASE migration' = [migration EXCEPT ![m] = Stopped]
  BY <1>2, <1>6, StopStands
<1>7. CASE /\ Consistent(plan.files, TheRecord) /\ plan.todo # {}
           /\ migration' = [migration EXCEPT ![m] =
                 [migration[m] EXCEPT !.at = "apply", !.read = Numbers(TheRecord), !.todo = plan.todo]]
  <2> DEFINE move == [migration[m] EXCEPT !.at = "apply", !.read = Numbers(TheRecord), !.todo = plan.todo]
  <2>1. migration' = [migration EXCEPT ![m] = move]
    BY <1>7
  <2>2. plan.todo \in SUBSET Versions
    BY <1>1, <1>4
  <2>3. move \in Migrations
    BY <1>1, <1>5, <2>2 DEF Migrations
  <2>4. /\ move.at = "apply" /\ move.read = Numbers(TheRecord) /\ move.todo = plan.todo
        /\ move.next = migration[m].next /\ move.files = migration[m].files
    BY <1>1 DEF Migrations
  <2>5. \A v \in plan.todo : \A w \in Numbers(TheRecord) : v > w
    BY <1>1, <1>4, <1>7 DEF Consistent, OnDisk, pending
  <2> HIDE DEF move
  <2>6. Newer(move) /\ Done(move, executed')
    BY <1>1, <2>4, <2>5 DEF Newer, Done
  <2>7. Ready(move, executed') /\ Sees(move, recorded)
    BY <1>7, <2>4, <2>6 DEF Ready, Sees
  <2>8. migration' \in [Migrators -> Migrations] /\ FilesStay' /\ WorkIsRight'
    BY <1>1, <1>2, <2>1, <2>3, <2>4, <2>7, MoveKeeps DEF MigratorInv, FilesStay
  <2>9. recorded' \in Seq(Rows) /\ overlapped' \in BOOLEAN /\ WriterSees' /\ EntriesAreTrue' /\ OneRecord'
    BY <1>2, <2>1, <2>3, <2>7, RecordStands
  <2>10. QED
    BY <1>2, <2>8, <2>9 DEF MigratorInv, MigratorTypes
<1>8. QED
  BY <1>3, <1>6, <1>7

LEMMA ExecuteKeeps == ASSUME MigratorInv, NEW m \in Migrators, Execute(m) PROVE MigratorInv'
<1> DEFINE move == [migration[m] EXCEPT !.next = @ + 1]
<1>1. /\ migration[m] \in Migrations /\ migration[m].at = "apply" /\ Ready(migration[m], executed)
      /\ executed' = executed \cup {<<Due(m), Text(m), migration[m].next>>}
      /\ UNCHANGED <<disk, recorded, overlapped>>
  BY DEF MigratorInv, MigratorTypes, WorkIsRight, Execute, Now
<1>2. executed \subseteq executed'
  BY <1>1
<1>3. CASE migration' = [migration EXCEPT ![m] = Stopped]
  BY <1>1, <1>2, <1>3, StopStands
<1>4. CASE migration' = [migration EXCEPT ![m] = move]
  <2>1. /\ move \in Migrations /\ move.next = migration[m].next + 1 /\ move.at = "apply"
        /\ move.files = migration[m].files /\ move.read = migration[m].read
        /\ move.todo = migration[m].todo
    <3>1. migration[m].next \in Nat /\ migration[m].next + 1 \in Nat
      BY <1>1 DEF Migrations
    <3> DEFINE next == migration[m].next + 1
    <3>2. move = [migration[m] EXCEPT !.next = next]
      OBVIOUS
    <3> HIDE DEF move, next
    <3>3. /\ move \in Migrations /\ move.next = next /\ move.at = "apply"
          /\ move.files = migration[m].files /\ move.read = migration[m].read
          /\ move.todo = migration[m].todo
      BY <1>1, <3>1, <3>2 DEF Migrations, next
    <3>4. QED
      BY <3>3 DEF next
  <2> HIDE DEF move
  <2>2. Done(move, executed')
    <3> SUFFICES ASSUME NEW n \in Nat, 1 <= n, n < move.next
                 PROVE  <<Min(move.todo), move.files[Min(move.todo)], n>> \in executed'
      BY DEF Done
    <3>1. n = migration[m].next \/ n < migration[m].next
      BY <1>1, <2>1 DEF Migrations
    <3>2. QED
      BY <1>1, <2>1, <3>1 DEF Ready, Done, Due, Text
  <2>3. Ready(move, executed') /\ Sees(move, recorded)
    BY <1>1, <2>1, <2>2 DEF Ready, Newer, Sees
  <2>4. \A v \in Versions : move.files[v] # 0 => disk[v] # 0
    BY <2>1 DEF MigratorInv, FilesStay
  <2>5. migration' \in [Migrators -> Migrations] /\ FilesStay' /\ WorkIsRight'
    BY <1>1, <1>2, <1>4, <2>1, <2>3, <2>4, MoveKeeps DEF MigratorInv
  <2>6. recorded' \in Seq(Rows) /\ overlapped' \in BOOLEAN /\ WriterSees' /\ EntriesAreTrue' /\ OneRecord'
    BY <1>1, <1>2, <1>4, <2>1, <2>3, RecordStands
  <2>7. QED
    BY <1>1, <2>5, <2>6 DEF MigratorInv, MigratorTypes
<1>5. QED
  BY <1>3, <1>4 DEF Execute, Went

LEMMA MergeKeeps == ASSUME MigratorInv, NEW m \in Migrators, Merge(m) PROVE MigratorInv'
<1> DEFINE move == [migration[m] EXCEPT !.at = "recording", !.found = Len(recorded), !.lacking = Lacking(m)]
<1>1. /\ migration[m] \in Migrations /\ migration[m].at \in {"apply", "recording"}
      /\ Ready(migration[m], executed) /\ recorded \in Seq(Rows)
      /\ migration' = [migration EXCEPT ![m] = move] /\ UNCHANGED <<disk, recorded, executed, overlapped>>
      /\ migration[m].next > Statements
  BY DEF MigratorInv, MigratorTypes, WorkIsRight, Merge
<1>2. Len(recorded) \in Nat /\ Lacking(m) \in SUBSET Nat
  BY <1>1 DEF Lacking
<1>3. move \in Migrations
  BY <1>1, <1>2 DEF Migrations
<1>4. /\ move.at = "recording" /\ move.found = Len(recorded) /\ move.lacking = Lacking(m)
      /\ move.next = migration[m].next /\ move.files = migration[m].files
      /\ move.read = migration[m].read /\ move.todo = migration[m].todo
  BY <1>1 DEF Migrations
<1> HIDE DEF move
<1>5. Newer(move) /\ Done(move, executed') /\ move.todo # {}
  BY <1>1, <1>4 DEF Ready, Newer, Done
<1>6. Ready(move, executed')
  BY <1>1, <1>4, <1>5 DEF Ready
<1>7. Sees(move, recorded)
  BY <1>4 DEF Sees, Missing, Lacking, Due
<1>8. \A v \in Versions : move.files[v] # 0 => disk[v] # 0
  BY <1>4 DEF MigratorInv, FilesStay
<1>9. migration' \in [Migrators -> Migrations] /\ FilesStay' /\ WorkIsRight'
  BY <1>1, <1>3, <1>6, <1>8, MoveKeeps DEF MigratorInv
<1>10. recorded' \in Seq(Rows) /\ overlapped' \in BOOLEAN /\ WriterSees' /\ EntriesAreTrue' /\ OneRecord'
  BY <1>1, <1>3, <1>7, RecordStands
<1>11. QED
  BY <1>1, <1>9, <1>10 DEF MigratorInv, MigratorTypes

-----------------------------------------------------------------------------
(* What a migrator writes.                                                  *)

\* Every statement of its text has run, and it is newer than all that was read.
LEMMA EntryIsTrue ==
    ASSUME MigratorInv, NEW m \in Migrators, migration[m].at = "recording"
    PROVE  /\ NewEntry(m) \in Entries /\ TrueEntry(NewEntry(m), executed)
           /\ Due(m) \in migration[m].todo /\ Due(m) \in Versions /\ NewEntry(m).version = Due(m)
<1>1. /\ migration[m] \in Migrations /\ Newer(migration[m]) /\ Done(migration[m], executed)
      /\ migration[m].todo # {} /\ migration[m].next > Statements
  BY DEF MigratorInv, MigratorTypes, WorkIsRight, Ready
<1>2. Due(m) \in migration[m].todo /\ Due(m) \in Versions
  BY <1>1, DueIsLeft DEF Due, Migrations
<1>3. /\ NewEntry(m) \in Entries /\ NewEntry(m).version = Due(m)
      /\ NewEntry(m).checksum = Text(m) /\ NewEntry(m).over = migration[m].read
  BY <1>1, <1>2 DEF NewEntry, Entries, Migrations, Text
<1>4. ASSUME NEW n \in 1..Statements PROVE <<Due(m), Text(m), n>> \in executed
  <2>1. migration[m].next \in Nat /\ Statements \in Nat
    BY <1>1, MigratorAssumption DEF Migrations, MigratorAssumption
  <2>2. n \in Nat /\ 1 <= n /\ n < migration[m].next
    BY <1>1, <2>1
  <2>3. QED
    BY <1>1, <2>2 DEF Done, Due, Text
<1>5. \A w \in migration[m].read : Due(m) > w
  BY <1>1, <1>2 DEF Newer
<1>6. QED
  BY <1>2, <1>3, <1>4, <1>5 DEF TrueEntry

Fits(m, k, node) == k \in migration[m].lacking => Due(m) \notin Numbers(node.applied)

\* A node that gets a true entry stays true, and gets no version twice when it
\* lacks the one that goes in.
LEMMA SetIsTrue ==
    ASSUME NEW m, NEW k, NEW node \in Rows, NewEntry(m) \in Entries, Due(m) \in Versions,
           NewEntry(m).version = Due(m), TrueRow(node, executed), TrueEntry(NewEntry(m), executed)
    PROVE  /\ Set(m, node, k) \in Rows /\ TrueRow(Set(m, node, k), executed)
           /\ Once(node) /\ Fits(m, k, node) => Once(Set(m, node, k))
<1> DEFINE old == node.applied
           new == Append(old, NewEntry(m))
           entry == NewEntry(m)
<1>1. old \in Seq(Entries)
  BY DEF Rows
<1>2. CASE k \notin migration[m].lacking
  <2>1. Set(m, node, k).applied = old /\ Set(m, node, k) \in Rows
    BY <1>1, <1>2 DEF Set, Rows
  <2>2. QED
    BY <2>1 DEF TrueRow, Once
<1>3. CASE k \in migration[m].lacking
  <2>1. entry \in Entries /\ TrueEntry(entry, executed)
    OBVIOUS
  <2>2. Set(m, node, k).applied = new /\ Set(m, node, k).current = Due(m)
    BY <1>3 DEF Set
  <2> HIDE DEF entry, old
  <2>3. /\ new \in Seq(Entries) /\ DOMAIN new = 1..(Len(old) + 1) /\ Len(old) \in Nat
        /\ DOMAIN old = 1..Len(old) /\ new[Len(old) + 1] = entry
        /\ \A i \in DOMAIN old : new[i] = old[i]
    BY <1>1, <2>1 DEF entry
  <2>4. Set(m, node, k) \in Rows
    BY <1>3, <2>3 DEF Set, Rows, old
  <2> HIDE DEF new
  <2>5. ASSUME NEW i \in DOMAIN new PROVE i \in DOMAIN old \/ i = Len(old) + 1
    BY <2>3
  <2>6. ASSUME NEW i \in DOMAIN new PROVE TrueEntry(new[i], executed)
    BY <2>1, <2>3, <2>5 DEF TrueRow, old
  <2>7. ASSUME Fits(m, k, node), Once(node),
               NEW i \in DOMAIN new, NEW j \in DOMAIN new, new[i].version = new[j].version
        PROVE  i = j
    <3>1. \A l \in DOMAIN old : old[l].version # entry.version
      BY <1>3, <2>7 DEF Numbers, Fits, old, entry
    <3>2. \A l, o \in DOMAIN old : old[l].version = old[o].version => l = o
      BY <2>7 DEF Once, old
    <3>3. QED
      BY <2>3, <2>5, <2>7, <3>1, <3>2
  <2>8. QED
    BY <1>3, <2>2, <2>4, <2>6, <2>7 DEF TrueRow, Once, entry, old
<1>4. QED
  BY <1>2, <1>3

\* What it creates when it found no node.
LEMMA FreshIsTrue ==
    ASSUME NEW entry \in Entries, TrueEntry(entry, executed), NEW v \in Versions
    PROVE  LET node == [applied |-> <<entry>>, current |-> v]
           IN  node \in Rows /\ TrueRow(node, executed) /\ Once(node)
<1> DEFINE node == [applied |-> <<entry>>, current |-> v]
<1>1. /\ <<entry>> \in Seq(Entries) /\ DOMAIN <<entry>> = {1} /\ <<entry>>[1] = entry
  OBVIOUS
<1>2. node.applied = <<entry>> /\ node \in Rows
  BY <1>1 DEF Rows
<1> HIDE DEF node
<1>3. TrueRow(node, executed) /\ Once(node)
  BY <1>1, <1>2 DEF TrueRow, Once
<1>4. QED
  BY <1>2, <1>3 DEF node

\* The record a migrator leaves is true; and when nobody else was writing, it
\* is one node with each version once.
LEMMA CommitKeeps ==
    ASSUME MigratorInv, NEW m \in Migrators, Commit(m), executed' = executed
    PROVE  /\ recorded' \in Seq(Rows) /\ overlapped' \in BOOLEAN
           /\ EntriesAreTrue' /\ OneRecord' /\ Due(m) \in migration[m].todo
<1>1. /\ migration[m].at = "recording" /\ migration[m] \in Migrations
      /\ recorded \in Seq(Rows) /\ recorded' = NewRecord(m) /\ overlapped' \in BOOLEAN
      /\ overlapped' \/ ~overlapped
  BY DEF Commit, Now, MigratorInv, MigratorTypes
<1>2. /\ NewEntry(m) \in Entries /\ TrueEntry(NewEntry(m), executed) /\ Due(m) \in migration[m].todo
      /\ Due(m) \in Versions /\ NewEntry(m).version = Due(m)
  BY <1>1, EntryIsTrue
<1>3. /\ DOMAIN recorded = 1..Len(recorded) /\ Len(recorded) \in Nat
      /\ \A k \in DOMAIN recorded : recorded[k] \in Rows /\ TrueRow(recorded[k], executed)
  BY <1>1 DEF MigratorInv, EntriesAreTrue
<1>4. ~overlapped' => Len(recorded) <= 1 /\ migration[m].found = Len(recorded)
        /\ \A k \in DOMAIN recorded : Once(recorded[k]) /\ Fits(m, k, recorded[k])
  BY <1>1, <1>2 DEF MigratorInv, OneRecord, WriterSees, Sees, Missing, Due, Fits
<1>5. CASE migration[m].found = 0
  <2> DEFINE fresh == [applied |-> <<NewEntry(m)>>, current |-> Due(m)]
  <2>1. fresh \in Rows /\ TrueRow(fresh, executed) /\ Once(fresh)
    BY <1>2, FreshIsTrue
  <2>2. recorded' = Append(recorded, fresh)
    BY <1>1, <1>5 DEF NewRecord
  <2> HIDE DEF fresh
  <2>3. /\ recorded' \in Seq(Rows) /\ DOMAIN recorded' = 1..(Len(recorded) + 1)
        /\ Len(recorded') = Len(recorded) + 1 /\ recorded'[Len(recorded) + 1] = fresh
        /\ \A k \in DOMAIN recorded : recorded'[k] = recorded[k]
    BY <1>1, <2>1, <2>2
  <2>4. \A k \in DOMAIN recorded' : k \in DOMAIN recorded \/ k = Len(recorded) + 1
    BY <1>3, <2>3
  <2>5. EntriesAreTrue'
    <3> SUFFICES ASSUME NEW k \in DOMAIN recorded' PROVE TrueRow(recorded'[k], executed)
      BY DEF EntriesAreTrue
    <3>1. QED
      BY <1>3, <2>1, <2>3, <2>4
  <2>6. OneRecord'
    <3> SUFFICES ASSUME ~overlapped' PROVE Len(recorded') <= 1 /\ \A k \in DOMAIN recorded' : Once(recorded'[k])
      BY DEF OneRecord
    <3>1. Len(recorded) = 0
      BY <1>4, <1>5
    <3>2. Len(recorded') <= 1
      BY <2>3, <3>1
    <3>3. ASSUME NEW k \in DOMAIN recorded' PROVE recorded'[k] = fresh
      <4>1. k \notin DOMAIN recorded
        BY <1>3, <3>1
      <4>2. QED
        BY <2>3, <2>4, <4>1
    <3>4. QED
      BY <2>1, <3>2, <3>3
  <2>7. QED
    BY <1>1, <1>2, <2>3, <2>5, <2>6
<1>6. CASE migration[m].found # 0
  <2> DEFINE put(k) == IF k <= migration[m].found THEN Set(m, recorded[k], k) ELSE recorded[k]
  <2>1. recorded' = [k \in DOMAIN recorded |-> put(k)]
    BY <1>1, <1>6 DEF NewRecord
  <2>2. ASSUME NEW k \in DOMAIN recorded
        PROVE  /\ put(k) \in Rows /\ TrueRow(put(k), executed)
               /\ ~overlapped' => Once(put(k))
    <3> DEFINE node == recorded[k]
    <3>1. /\ node \in Rows /\ TrueRow(node, executed)
          /\ ~overlapped' => Once(node) /\ Fits(m, k, node)
      BY <1>3, <1>4
    <3> HIDE DEF node
    <3>2. /\ Set(m, node, k) \in Rows /\ TrueRow(Set(m, node, k), executed)
          /\ ~overlapped' => Once(Set(m, node, k))
      BY <1>2, <3>1, SetIsTrue
    <3>3. put(k) = Set(m, node, k) \/ put(k) = node
      BY DEF node
    <3> HIDE DEF put
    <3>4. QED
      BY <3>1, <3>2, <3>3
  <2> HIDE DEF put
  <2>3. /\ DOMAIN recorded' = 1..Len(recorded)
        /\ \A k \in DOMAIN recorded : recorded'[k] = put(k) /\ recorded'[k] \in Rows
    BY <1>3, <2>1, <2>2
  <2>4. recorded' \in Seq(Rows) /\ Len(recorded') = Len(recorded)
    <3>1. recorded' = [k \in 1..Len(recorded) |-> recorded'[k]]
      BY <1>3, <2>1
    <3>2. recorded' \in [1..Len(recorded) -> Rows]
      BY <1>3, <2>3, <3>1
    <3>3. QED
      BY <1>3, <2>3, <3>2, LenProperties
  <2>5. EntriesAreTrue'
    BY <1>3, <2>2, <2>3 DEF EntriesAreTrue
  <2>6. OneRecord'
    BY <1>3, <1>4, <2>2, <2>3, <2>4 DEF OneRecord
  <2>7. QED
    BY <1>1, <1>2, <2>4, <2>5, <2>6
<1>7. QED
  BY <1>5, <1>6

\* Nobody but the one that commits was writing, or the record counts as overlapped.
LEMMA WriterLeaves ==
    ASSUME MigratorInv, NEW m \in Migrators, Commit(m), NEW move, move.at # "recording",
           migration' = [migration EXCEPT ![m] = move]
    PROVE  WriterSees'
<1> SUFFICES ASSUME ~overlapped', NEW o \in Migrators PROVE Sees(migration'[o], recorded')
  BY DEF WriterSees
<1>1. CASE o = m
  BY <1>1 DEF Sees, MigratorInv, MigratorTypes
<1>2. CASE o # m
  BY <1>2 DEF Sees, Commit, Now, MigratorInv, MigratorTypes
<1>3. QED
  BY <1>1, <1>2

LEMMA RecordKeeps == ASSUME MigratorInv, NEW m \in Migrators, Record(m) PROVE MigratorInv'
<1> DEFINE move == [migration[m] EXCEPT !.at = "apply", !.todo = @ \ {Due(m)}, !.next = 1]
<1>1. /\ migration[m] \in Migrations /\ migration[m].at = "recording"
      /\ Ready(migration[m], executed) /\ Commit(m) /\ UNCHANGED <<disk, executed>>
  BY DEF MigratorInv, MigratorTypes, WorkIsRight, Record, Commit, Now
<1>2. /\ recorded' \in Seq(Rows) /\ overlapped' \in BOOLEAN
      /\ EntriesAreTrue' /\ OneRecord' /\ Due(m) \in migration[m].todo
  BY <1>1, CommitKeeps
<1>3. CASE migration' = [migration EXCEPT ![m] = Stopped]
  <2>1. Stopped.at # "recording"
    BY DEF Stopped
  <2>2. WriterSees'
    BY <1>1, <1>3, <2>1, WriterLeaves
  <2>3. QED
    BY <1>1, <1>2, <1>3, <2>2, StopKeeps DEF MigratorInv, MigratorTypes
<1>4. CASE migration' = [migration EXCEPT ![m] = move] /\ migration[m].todo # {Due(m)}
  <2>1. /\ move.next = 1 /\ move.at = "apply"
        /\ move.files = migration[m].files /\ move.read = migration[m].read
        /\ move.todo = migration[m].todo \ {Due(m)}
    BY <1>1 DEF Migrations
  <2>2. move \in Migrations
    <3>1. [migration[m] EXCEPT !.todo = @ \ {Due(m)}] \in Migrations
      BY <1>1 DEF Migrations
    <3> DEFINE rest == migration[m].todo \ {Due(m)}
    <3>2. move = [migration[m] EXCEPT !.at = "apply", !.todo = rest, !.next = 1]
      OBVIOUS
    <3>3. [migration[m] EXCEPT !.todo = rest] \in Migrations
      BY <3>1
    <3> HIDE DEF rest, move
    <3> DEFINE less == [migration[m] EXCEPT !.todo = rest]
    <3>4. move = [less EXCEPT !.at = "apply", !.next = 1] /\ less \in Migrations
      BY <1>1, <3>2, <3>3 DEF Migrations
    <3> HIDE DEF less
    <3>5. [less EXCEPT !.at = "apply", !.next = 1] \in Migrations
      BY <3>4 DEF Migrations
    <3>6. QED
      BY <3>4, <3>5
  <2> HIDE DEF move
  <2>3. Ready(move, executed')
    BY <1>1, <1>2, <1>4, <2>1 DEF Ready, Newer, Done
  <2>4. \A v \in Versions : move.files[v] # 0 => disk[v] # 0
    BY <2>1 DEF MigratorInv, FilesStay
  <2>5. WriterSees'
    BY <1>1, <1>4, <2>1, WriterLeaves
  <2>6. QED
    BY <1>1, <1>2, <1>4, <2>2, <2>3, <2>4, <2>5, MoveKeeps DEF MigratorInv, MigratorTypes
<1>5. QED
  BY <1>3, <1>4 DEF Record, Went

LEMMA RecordUnheardKeeps ==
    ASSUME MigratorInv, NEW m \in Migrators, RecordUnheard(m) PROVE MigratorInv'
<1> DEFINE move == [migration[m] EXCEPT !.at = "apply"]
<1>1. /\ migration[m] \in Migrations /\ migration[m].at = "recording"
      /\ Ready(migration[m], executed) /\ Commit(m) /\ UNCHANGED <<disk, executed>>
      /\ migration' = [migration EXCEPT ![m] = move]
  BY DEF MigratorInv, MigratorTypes, WorkIsRight, RecordUnheard, Commit, Now
<1>2. /\ recorded' \in Seq(Rows) /\ overlapped' \in BOOLEAN
      /\ EntriesAreTrue' /\ OneRecord' /\ Due(m) \in migration[m].todo
  BY <1>1, CommitKeeps
<1>3. /\ move \in Migrations /\ move.next = migration[m].next /\ move.at = "apply"
      /\ move.files = migration[m].files /\ move.read = migration[m].read
      /\ move.todo = migration[m].todo
  BY <1>1 DEF Migrations
<1> HIDE DEF move
<1>4. Ready(move, executed')
  BY <1>1, <1>3 DEF Ready, Newer, Done
<1>5. \A v \in Versions : move.files[v] # 0 => disk[v] # 0
  BY <1>3 DEF MigratorInv, FilesStay
<1>6. WriterSees'
  BY <1>1, <1>3, WriterLeaves
<1>7. QED
  BY <1>1, <1>2, <1>3, <1>4, <1>5, <1>6, MoveKeeps DEF MigratorInv, MigratorTypes

-----------------------------------------------------------------------------
\* GraphMigrator: for any migrators that run at once, die, lose answers and edit
\* files, every entry of the record is of a text whose statements have run, and
\* went in above every version its migrator had read; and as long as no two
\* migrators were writing at once, there is one node with each version once.
THEOREM RecordIsTrueHolds == MigratorSpec => []RecordIsTrue
<1>1. MigratorInit => MigratorInv
  <2> SUFFICES ASSUME MigratorInit PROVE MigratorInv
    OBVIOUS
  <2>1. MigratorTypes
    <3>1. disk \in [Versions -> Nat] /\ recorded = <<>> /\ overlapped = FALSE
      BY DEF MigratorInit
    <3>2. migration \in [Migrators -> Migrations]
      BY StoppedIsReady DEF MigratorInit
    <3>3. recorded \in Seq(Rows)
      BY <3>1
    <3>4. QED
      BY <3>1, <3>2, <3>3 DEF MigratorTypes
  <2>2. FilesStay
    BY DEF MigratorInit, FilesStay, Stopped
  <2>3. WorkIsRight
    BY DEF MigratorInit, WorkIsRight, Ready, Stopped
  <2>4. WriterSees
    BY DEF MigratorInit, WriterSees, Sees, Stopped
  <2>5. QED
    BY <2>1, <2>2, <2>3, <2>4 DEF MigratorInit, MigratorInv, EntriesAreTrue, OneRecord
<1>2. MigratorInv /\ [MigratorNext]_migratorVars => MigratorInv'
  <2> SUFFICES ASSUME MigratorInv, [MigratorNext]_migratorVars PROVE MigratorInv'
    OBVIOUS
  <2>1. CASE Change
    <3>1. disk' \in [Versions -> Nat] /\ \A v \in Versions : disk[v] # 0 => disk'[v] # 0
      BY <2>1 DEF Change, MigratorInv, MigratorTypes
    <3>2. QED
      BY <2>1, <3>1 DEF Change, MigratorInv, MigratorTypes, FilesStay, WorkIsRight,
                        WriterSees, EntriesAreTrue, OneRecord
  <2>2. CASE UNCHANGED migratorVars
    BY <2>2 DEF migratorVars, MigratorInv, MigratorTypes, FilesStay, WorkIsRight,
                WriterSees, EntriesAreTrue, OneRecord
  <2>3. ASSUME NEW m \in Migrators, CutShort(m) PROVE MigratorInv'
    BY <2>3, StopStands DEF CutShort
  <2>4. QED
    BY <2>1, <2>2, <2>3, DiscoverKeeps, ReadRecordKeeps, ExecuteKeeps, MergeKeeps,
       RecordKeeps, RecordUnheardKeeps DEF MigratorNext
<1>3. MigratorInv => RecordIsTrue
  BY DEF MigratorInv, EntriesAreTrue, OneRecord, TrueRow, TrueEntry, Once, RecordIsTrue
<1>4. QED
  BY <1>1, <1>2, <1>3, PTL DEF MigratorSpec
=============================================================================
