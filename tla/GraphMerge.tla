------------------------------ MODULE GraphMerge ------------------------------
(* What one batch does to the graph.  GraphWriter plans a transaction: nodes  *)
(* before edges, one statement row per identity; the MERGE fragments keep a   *)
(* counter, a span and, per edge, an interval.                                *)
EXTENDS Integers, FiniteSets, Sequences, SequencesExt

\* A row: [kind |-> "node", id, at (observed_at), signals (new_signal_count)] or
\* [kind |-> "edge", symmetric, from, to, since, until, evidence].
\* The graph: nodes by id and edges by key.
EmptyGraph == [nodes |-> [i \in {} |-> {}], edges |-> [k \in {} |-> {}]]

LOCAL Least(S)    == CHOOSE x \in S : \A y \in S : x <= y
LOCAL Greatest(S) == CHOOSE x \in S : \A y \in S : x >= y

\* orient: a symmetric pair has one orientation, whoever reports it.
Oriented(e) == IF e.symmetric /\ e.to < e.from THEN <<e.to, e.from>> ELSE <<e.from, e.to>>

\* edge_key: the type, both ends, the start of the interval.
EdgeKey(e) == <<e.symmetric, Oriented(e), e.since>>

\* batch_id_for: the hash of a sorted list, as the bag that it is.
Part(r) == IF r.kind = "node" THEN <<"n", r.id, r.signals>> ELSE <<"e", EdgeKey(r), r.evidence>>
BatchId(rows) ==
    [p \in {Part(rows[i]) : i \in DOMAIN rows} |->
        Cardinality({i \in DOMAIN rows : Part(rows[i]) = p})]

\* _merge_rows: the deltas of one identity add up, of the instants the greatest
\* stays, of other scalars the last one that is not None.
Total(deltas) ==
    LET sum[n \in 0..Len(deltas)] == IF n = 0 THEN 0 ELSE sum[n - 1] + deltas[n]
    IN  sum[Len(deltas)]

IsNode(r, n) == r.kind = "node" /\ r.id = n
IsEdge(r, k) == r.kind = "edge" /\ EdgeKey(r) = k
Signals(rows, n)  == Total([i \in 1..Len(rows) |-> IF IsNode(rows[i], n) THEN rows[i].signals ELSE 0])
EdgeEvidence(rows, k) == Total([i \in 1..Len(rows) |-> IF IsEdge(rows[i], k) THEN rows[i].evidence ELSE 0])
LastUntil(rows, k) ==
    LET closing == {i \in DOMAIN rows : IsEdge(rows[i], k) /\ rows[i].until # 0}
    IN  IF closing = {} THEN 0 ELSE rows[Greatest(closing)].until

\* The increment is applied whatever the last batch was.
AddAlways(old, new, id) == old.count + new
\* "replayed": the increment, unless the last batch was this one.
AddOnce(old, new, id) == old.count + IF old.batch = id THEN 0 ELSE new

\* _group_nodes, and the node fragment: the counter moves unless the node's
\* last batch was this one, the span grows.
MergeNodes(nodes, rows, id) ==
    LET named == {r.id : r \in {x \in ToSet(rows) : x.kind = "node"}}
        merged(n) ==
            LET at  == Greatest({r.at : r \in {x \in ToSet(rows) : IsNode(x, n)}})
                new == Signals(rows, n)
            IN  IF n \notin DOMAIN nodes
                THEN [count |-> new, first |-> at, last |-> at, batch |-> id]
                ELSE [count |-> AddOnce(nodes[n], new, id),
                      first |-> Least({at, nodes[n].first}),
                      last  |-> Greatest({at, nodes[n].last}),
                      batch |-> id]
    IN  [n \in DOMAIN nodes \cup named |-> IF n \in named THEN merged(n) ELSE nodes[n]]

Ends(e, nodes) == {e.from, e.to} \subseteq DOMAIN nodes

\* _group_edges, and the edge fragment: a row whose end is not there matches
\* nothing; valid_from is the creator's, valid_to closes.
MergeEdges(graph, rows, id) ==
    LET keys == {EdgeKey(r) : r \in {x \in ToSet(rows) : x.kind = "edge" /\ Ends(x, graph.nodes)}}
        merged(k) ==
            LET new == EdgeEvidence(rows, k)
                end == LastUntil(rows, k)
            IN  IF k \notin DOMAIN graph.edges
                THEN [until |-> end, count |-> new, batch |-> id]
                ELSE LET old == graph.edges[k]
                     IN  [until |-> IF end = 0 THEN old.until ELSE end,
                          count |-> AddOnce(old, new, id),
                          batch |-> id]
    IN  [k \in DOMAIN graph.edges \cup keys |-> IF k \in keys THEN merged(k) ELSE graph.edges[k]]

\* GraphWriter.plan, one transaction: the nodes, then the edges.
Applied(graph, rows) ==
    LET nodes == MergeNodes(graph.nodes, rows, BatchId(rows))
    IN  [nodes |-> nodes,
         edges |-> MergeEdges([nodes |-> nodes, edges |-> graph.edges], rows, BatchId(rows))]

\* GraphWriter._verify reads the counts after the transaction: every edge of
\* the batch is there.
Verified(graph, rows) ==
    \A i \in DOMAIN rows : rows[i].kind = "edge" => EdgeKey(rows[i]) \in DOMAIN graph.edges
=============================================================================
