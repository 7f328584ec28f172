---------------------------- MODULE SignalFanOut ----------------------------
(* From the archived record to the derived stores.  An enrichment process     *)
(* runs the pipeline over a raw record, commits the Signal's row and only     *)
(* then announces it; the indexing and the graph workers read the row the     *)
(* announcement names, write their store and stamp the row; the backfill      *)
(* worker locks the rows that have no vector stamp and sweeps them.           *)
EXTENDS Integers, FiniteSets

CONSTANTS
    Signals,
    Enrichers,    \* processes that run the pipeline: live traffic, a backfill
    Version,      \* per enricher, the ordinal of its pipeline version
    Texts,        \* what a record may say
    Chunks,       \* per text, into how many chunks it splits
    MaxRecords,   \* raw records enriched
    MaxFailures   \* steps that fail

ASSUME FanAssumption ==
    /\ Signals # {} /\ Texts # {}
    /\ Version \in [Enrichers -> Nat \ {0}]
    /\ Chunks \in [Texts -> Nat]
    /\ {MaxRecords, MaxFailures} \subseteq Nat

RowStatuses == {"enriched", "partial", "duplicate"}

VARIABLES
    row,         \* per signal: [version (0: no row), text, status, embedded]
    stamped,     \* per signal: the stores its index-state columns name
    due,         \* per group, per signal: announcements not yet committed
    enricher,    \* per enricher: [at, signal, found (the values of the row)]
    worker,      \* per group: [at, signal, view (the row as it was read)]
    keyword,     \* OpenSearch, per signal: chunk index -> [version, text]
    unseen,      \* per signal: the chunks written since the index was last refreshed
    missed,      \* history, per signal: the chunks its last withdrawal did not see
    vector,      \* Qdrant, per signal: chunk index -> text
    sweep,       \* the backfill: the rows its open transaction holds, FOR UPDATE
    records,     \* raw records taken
    failures,    \* steps that failed
    parked       \* history: signals one of whose messages went to the DLQ

fanVars == <<row, stamped, due, enricher, worker, keyword, unseen, missed, vector, sweep,
             records, failures, parked>>

Groups  == {"index", "graph"}
NoRow   == [version |-> 0, text |-> CHOOSE t \in Texts : TRUE, status |-> "partial",
            embedded |-> FALSE]
NoDocs  == [i \in {} |-> 0]
AtEase  == [at |-> "ease", signal |-> CHOOSE s \in Signals : TRUE, found |-> NoRow]
Polling == [at |-> "poll", signal |-> CHOOSE s \in Signals : TRUE, view |-> NoRow]

FanInit ==
    /\ row = [s \in Signals |-> NoRow]
    /\ stamped = [s \in Signals |-> {}]
    /\ due = [g \in Groups |-> [s \in Signals |-> 0]]
    /\ enricher = [e \in Enrichers |-> AtEase]
    /\ worker = [g \in Groups |-> Polling]
    /\ keyword = [s \in Signals |-> NoDocs] /\ vector = [s \in Signals |-> NoDocs]
    /\ unseen = [s \in Signals |-> {}] /\ missed = [s \in Signals |-> {}]
    /\ sweep = {}
    /\ records = 0 /\ failures = 0 /\ parked = {}

CanFail == failures < MaxFailures

\* PostgreSQL: an UPDATE of a row waits for the transaction that has locked it.
Unheld(s) == s \notin sweep

-----------------------------------------------------------------------------
(* IngestionWorker.handle: the pipeline over one raw record.                *)

\* SignalPipeline.run up to the store.  Only Clean, Normalize and Store are
\* fatal: a language, entity, sentiment or embedding stage that fails leaves a
\* `partial` Signal, and without the embedding stage one that has no refs.
Enrich(e) ==
    /\ enricher[e].at = "ease" /\ records < MaxRecords
    /\ \E s \in Signals, t \in Texts, status \in RowStatuses, embedded \in BOOLEAN :
          /\ ~embedded => status # "enriched"
          /\ enricher' = [enricher EXCEPT ![e] =
                [at |-> "store", signal |-> s,
                 found |-> [version |-> Version[e], text |-> t, status |-> status,
                            embedded |-> embedded]]]
    /\ records' = records + 1
    /\ UNCHANGED <<row, stamped, due, worker, keyword, unseen, missed, vector, sweep, failures, parked>>

\* Any version overwrites the row.
AnyVersion(s, found) == TRUE
\* The upsert's guard: output of an older pipeline does not replace newer.
NotOlder(s, found) == found.version >= row[s].version

\* StoreStage.apply: the upsert resets the three index-state columns.
Store(e) ==
    /\ enricher[e].at = "store" /\ Unheld(enricher[e].signal)
    /\ LET s == enricher[e].signal IN
       IF NotOlder(s, enricher[e].found)
       THEN /\ row' = [row EXCEPT ![s] = enricher[e].found]
            /\ stamped' = [stamped EXCEPT ![s] = {}]
       ELSE UNCHANGED <<row, stamped>>
    /\ enricher' = [enricher EXCEPT ![e].at = "publish"]
    /\ UNCHANGED <<due, worker, keyword, unseen, missed, vector, sweep,
                   records, failures, parked>>

\* The announcement follows the commit, whether or not the guard let it through.
Announce(e) ==
    /\ enricher[e].at = "publish"
    /\ due' = [g \in Groups |-> [due[g] EXCEPT ![enricher[e].signal] = @ + 1]]
    /\ enricher' = [enricher EXCEPT ![e] = AtEase]
    /\ UNCHANGED <<row, stamped, worker, keyword, unseen, missed, vector, sweep,
                   records, failures, parked>>

\* The store, the publish or the process fails: the record is redelivered, or
\* parked after the last attempt.
EnrichFails(e) ==
    /\ enricher[e].at # "ease" /\ CanFail /\ failures' = failures + 1
    /\ \/ enricher' = [enricher EXCEPT ![e].at = "store"] /\ UNCHANGED parked
       \/ /\ enricher' = [enricher EXCEPT ![e] = AtEase]
          /\ parked' = parked \cup {enricher[e].signal}
    /\ UNCHANGED <<row, stamped, due, worker, keyword, unseen, missed, vector, sweep, records>>

-----------------------------------------------------------------------------
(* IndexingWorker and GraphWorker.                                          *)

Indexable(view) == view.status \in {"enriched", "partial"}

Doing(g, at) == worker' = [worker EXCEPT ![g].at = at]

\* _load: the event names the Signal, the row is read now.
Load(g) ==
    /\ worker[g].at = "poll"
    /\ \E s \in Signals :
          /\ due[g][s] > 0
          /\ worker' = [worker EXCEPT ![g] = [at |-> "loaded", signal |-> s, view |-> row[s]]]
    /\ UNCHANGED <<row, stamped, due, enricher, keyword, unseen, missed, vector, sweep,
                   records, failures, parked>>

\* stamp_index_state: an UPDATE of the columns whatever the row has become.
Stamp(g, stores) ==
    /\ Unheld(worker[g].signal)
    /\ stamped' = [stamped EXCEPT ![worker[g].signal] = @ \cup stores]

Handled(g) ==
    /\ due' = [due EXCEPT ![g][worker[g].signal] = @ - 1]
    /\ worker' = [worker EXCEPT ![g] = Polling]

\* Nothing to index.  (No row at all is the same return without a stamp: a row
\* is committed before it is announced, and nothing here deletes one.)
Nothing ==
    /\ worker["index"].at = "loaded"
    /\ Indexable(worker["index"].view) /\ Chunks[worker["index"].view.text] = 0
    /\ Stamp("index", {"keyword", "vector"})
    /\ Handled("index")
    /\ UNCHANGED <<row, enricher, keyword, unseen, missed, vector, sweep,
                   records, failures, parked>>

\* delete_by_query reads what the last refresh made searchable: a chunk written
\* since is not in it, or changed under it, a conflict it proceeds past.
Unreached(s) == [i \in DOMAIN keyword[s] \cap unseen[s] |-> keyword[s][i]]

\* _withdraw: a Signal that lost an election leaves both stores, one at a time.
\* How many documents went, or did not, is not asked.
Withdraw(s) ==
    \/ /\ worker["index"].at = "loaded" /\ ~Indexable(worker["index"].view)
       /\ keyword' = [keyword EXCEPT ![s] = Unreached(s)]
       /\ missed' = [missed EXCEPT ![s] = DOMAIN Unreached(s)]
       /\ Doing("index", "withdrawn") /\ UNCHANGED <<stamped, due, vector>>
    \/ /\ worker["index"].at = "withdrawn"
       /\ vector' = [vector EXCEPT ![s] = NoDocs]
       /\ Stamp("index", {"keyword", "vector"})
       /\ Handled("index") /\ UNCHANGED <<keyword, missed>>

Demote ==
    /\ Withdraw(worker["index"].signal)
    /\ UNCHANGED <<row, enricher, unseen, sweep, records, failures, parked>>

\* KeywordIndexer.index_chunks: a bulk of chunks at the row's version; a chunk
\* the index holds at a newer one is a conflict, and no failure.
Bulk(docs, view) ==
    {i \in 1..Chunks[view.text] : i \in DOMAIN docs => docs[i].version <= view.version}
Indexed(docs, view) ==
    [i \in DOMAIN docs \cup 1..Chunks[view.text] |->
        IF i \in Bulk(docs, view) THEN [version |-> view.version, text |-> view.text] ELSE docs[i]]

IndexKeyword ==
    /\ worker["index"].at = "loaded"
    /\ LET view == worker["index"].view  s == worker["index"].signal IN
       /\ Indexable(view) /\ Chunks[view.text] > 0
       /\ keyword' = [keyword EXCEPT ![s] = Indexed(@, view)]
       /\ unseen' = [unseen EXCEPT ![s] = @ \cup Bulk(keyword[s], view)]
    /\ Doing("index", "keyword")
    /\ UNCHANGED <<row, stamped, due, enricher, missed, vector, sweep,
                   records, failures, parked>>

\* Nothing here asks for a refresh: the index does it at its own interval.
IndexRefresh ==
    /\ \E s \in Signals : unseen[s] # {}
    /\ unseen' = [s \in Signals |-> {}]
    /\ UNCHANGED <<row, stamped, due, enricher, worker, keyword, missed, vector, sweep,
                   records, failures, parked>>

StampKeyword ==
    /\ worker["index"].at = "keyword"
    /\ Stamp("index", {"keyword"})
    /\ Doing("index", "vector")
    /\ UNCHANGED <<row, due, enricher, keyword, unseen, missed, vector, sweep,
                   records, failures, parked>>

\* VectorIndexer.index_chunks overwrites the points by their id; a Signal the
\* embedding stage left without refs is for the backfill.
IndexVector ==
    /\ worker["index"].at = "vector" /\ worker["index"].view.embedded
    /\ LET view == worker["index"].view  s == worker["index"].signal IN
       vector' = [vector EXCEPT ![s] =
                    [i \in DOMAIN @ \cup 1..Chunks[view.text] |->
                        IF i \in 1..Chunks[view.text] THEN view.text ELSE @[i]]]
    /\ Doing("index", "points")
    /\ UNCHANGED <<row, stamped, due, enricher, keyword, unseen, missed, sweep,
                   records, failures, parked>>

FinishIndex ==
    /\ \/ worker["index"].at = "points" /\ Stamp("index", {"vector"})
       \/ /\ worker["index"].at = "vector" /\ ~worker["index"].view.embedded
          /\ UNCHANGED stamped
    /\ Handled("index")
    /\ UNCHANGED <<row, enricher, keyword, unseen, missed, vector, sweep,
                   records, failures, parked>>

\* GraphWorker.handle: a mention of the row has a `surface`, _resolve looks for
\* a `name` or a `text`: no mention resolves, no batch is built, the row of a
\* canonical or other Signal is stamped.
HandleGraph ==
    /\ worker["graph"].at = "loaded"
    /\ Stamp("graph", {"graph"})
    /\ Handled("graph")
    /\ UNCHANGED <<row, enricher, keyword, unseen, missed, vector, sweep,
                   records, failures, parked>>

\* A handler or its process fails: the message is redelivered, or parked.
HandlerFails(g) ==
    /\ worker[g].at # "poll" /\ CanFail /\ failures' = failures + 1
    /\ \/ worker' = [worker EXCEPT ![g] = Polling] /\ UNCHANGED <<due, parked>>
       \/ Handled(g) /\ parked' = parked \cup {worker[g].signal}
    /\ UNCHANGED <<row, stamped, enricher, keyword, unseen, missed, vector, sweep, records>>

-----------------------------------------------------------------------------
(* EmbeddingBackfillWorker.tick.                                            *)

ClaimPending ==
    /\ sweep = {}
    /\ sweep' = {s \in Signals : row[s].version # 0 /\ "vector" \notin stamped[s]}
    /\ sweep' # {}
    /\ UNCHANGED <<row, stamped, due, enricher, worker, keyword, unseen, missed, vector,
                   records, failures, parked>>

\* _text_of finds no attribute of the row by the names it tries, so the first
\* row has nothing to embed and is stamped - through a second session, which
\* waits for the lock of the first until the command times out.  The tick is
\* over and the locks are gone.
StampTimesOut ==
    /\ sweep # {} /\ sweep' = {}
    /\ UNCHANGED <<row, stamped, due, enricher, worker, keyword, unseen, missed, vector,
                   records, failures, parked>>

FanNext ==
    \/ \E e \in Enrichers : Enrich(e) \/ Store(e) \/ Announce(e) \/ EnrichFails(e)
    \/ \E g \in Groups : Load(g) \/ HandlerFails(g)
    \/ Nothing \/ Demote \/ IndexKeyword \/ IndexRefresh \/ StampKeyword \/ IndexVector \/ FinishIndex
    \/ HandleGraph \/ ClaimPending \/ StampTimesOut

FanSpec == FanInit /\ [][FanNext]_fanVars

\* Every worker runs on, and what a lock stops in passing is done in the end.
FairFanSpec ==
    /\ FanSpec
    /\ SF_fanVars(\E e \in Enrichers : Store(e) \/ Announce(e))
    /\ SF_fanVars(Load("index") \/ Nothing \/ Demote \/ IndexKeyword \/ StampKeyword
                   \/ IndexVector \/ FinishIndex)
    /\ SF_fanVars(Load("graph") \/ HandleGraph)
    /\ WF_fanVars(ClaimPending) /\ WF_fanVars(StampTimesOut)

-----------------------------------------------------------------------------
(* Properties.                                                              *)

FanTypeOK ==
    /\ \A s \in Signals :
          /\ row[s].version \in {0} \cup {Version[e] : e \in Enrichers}
          /\ stamped[s] \subseteq {"keyword", "vector", "graph"}
          /\ unseen[s] \subseteq DOMAIN keyword[s]
          /\ missed[s] \subseteq UNION {1..Chunks[t] : t \in Texts}
          /\ \A g \in Groups : due[g][s] \in 0..(2 * MaxRecords)
    /\ \A e \in Enrichers : enricher[e].at \in {"ease", "store", "publish"}
    /\ records \in 0..MaxRecords /\ failures \in 0..MaxFailures

\* Nothing of the Signal is under way.
Quiet(s) ==
    /\ \A e \in Enrichers : enricher[e].at = "ease" \/ enricher[e].signal # s
    /\ due["index"][s] = 0 /\ s \notin parked

\* StoreStage.apply, IndexingWorker.handle: whatever two pipelines wrote while
\* a handler was between its read and its stamps, once nothing is under way
\* both indexes hold every chunk of the committed text - the keyword index at
\* the committed version, the vectors unless the embedding stage failed - and
\* the row says so; of a Signal that may not be retrieved they hold nothing but
\* what was too fresh for the withdrawal to see (see WithdrawnIsGone).
QuietIsIndexed ==
    \A s \in Signals : Quiet(s) /\ row[s].version # 0 =>
        /\ "keyword" \in stamped[s]
        /\ IF Indexable(row[s])
           THEN \A i \in 1..Chunks[row[s].text] :
                   /\ i \in DOMAIN keyword[s]
                   /\ keyword[s][i] = [version |-> row[s].version, text |-> row[s].text]
                   /\ row[s].embedded =>
                         /\ "vector" \in stamped[s]
                         /\ i \in DOMAIN vector[s] /\ vector[s][i] = row[s].text
           ELSE DOMAIN keyword[s] \subseteq missed[s] /\ vector[s] = NoDocs

\* KeywordIndexer.delete_signal: a Signal that stops being retrievable, "its
\* documents must leave the index while its row stays", and what a rewrite hid
\* from the deletion "is caught by the next reconciler sweep": once nothing is
\* under way and the row is stamped, so that no sweep returns it, it is gone.
WithdrawnIsGone ==
    \A s \in Signals :
        Quiet(s) /\ row[s].version # 0 /\ ~Indexable(row[s]) /\ "keyword" \in stamped[s] =>
            keyword[s] = NoDocs

\* EmbeddingBackfillWorker._claim_pending: "Stamped anyway so the sweep stops
\* returning it".
SweptIsStamped == \A s \in Signals : s \in sweep ~> "vector" \in stamped[s]
=============================================================================
