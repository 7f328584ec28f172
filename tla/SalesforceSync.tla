---------------------------- MODULE SalesforceSync ----------------------------
(***************************************************************************)
(* The Salesforce connector under the ingestion runtime: SOQL ordered by   *)
(* SystemModstamp, paged with a query locator that is never persisted, so  *)
(* that the watermark alone is the resume state                            *)
(* (connectors/enterprise/salesforce.py).                                  *)
(***************************************************************************)
EXTENDS ConnectorRuntime

\* A page is the oldest rows left; the query breaks no ties.
OldestOf(S) == {P \in SUBSET S :
                  /\ Cardinality(P) = IF Cardinality(S) < PageSize
                                        THEN Cardinality(S) ELSE PageSize
                  /\ \A v \in P, w \in S \ P : v[2] <= w[2]}

\* The first request runs the query, later ones read on in its result; an
\* empty result is still a page, and carries the cursor unchanged.
Fetch(p) ==
  /\ run[p].phase \in {"query", "paging"}
  /\ LET S == IF run[p].phase = "query" THEN Matching(run[p].start.wm) ELSE run[p].rest
     IN  \E P \in OldestOf(S) :
           \E t \in Newest(P, run[p].next.wm) :
             Receive(p, P, S \ P, [NoCursor EXCEPT !.wm = t], S \ P = {})

Step(p) == Fetch(p) \/ Drain(p)

Next ==
  \/ \E p \in Runners : Begin(p) \/ Step(p) \/ Failure(p)
  \/ Environment

Spec == Init /\ [][Next]_vars

\* A run's awaits all return, within their timeouts; a scheduler keeps starting
\* runs; the provider indexes what it stores.
FairSpec ==
  /\ Spec
  /\ \A p \in Runners : WF_vars(Step(p)) /\ WF_vars(Begin(p))
  /\ \A r \in Records : WF_vars(BecomeQueryable(r))

-----------------------------------------------------------------------------
\* What a run that started from the cursor c, now, would be given.
Reach(c) == Matching(EffectiveStart(c).wm)

\* connector_service.py:17-28, commit after ack: whatever runs overlap, fail or
\* die, a version queries can see is settled, or still within the reach of the
\* next run that starts from the committed cursor.  The one exception is a
\* version the seen-set suppressed, which DuplicatesWerePublished is about.
StillReachable ==
  \A v \in Queryable : v \in Settled \cup shadowed \cup Reach(cursor)

\* connector_service.py:867-877, the page replays and dedup absorbs the
\* duplicate: what the seen-set drops has been published.
DuplicatesWerePublished == shadowed \subseteq Settled

\* base.py:330-372: no run moves the watermark it committed backwards, however
\* idle the feed and however far the overlap rewinds its start.
WatermarkForward ==
  [][\A p \in Runners :
       (run[p].phase # "idle" /\ run'[p].phase # "idle")
         => run'[p].committed.wm >= run[p].committed.wm]_vars

\* base.py:446-451, a run stopped at its page budget is resumed by the next
\* one: once nothing changes or fails any more, every version queries can see
\* has been settled.
CaughtUp == <>[](\A v \in Queryable : v \in Settled \cup shadowed)
=============================================================================
