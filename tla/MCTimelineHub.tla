----------------------------- MODULE MCTimelineHub -----------------------------
(* Instances of TimelineHub for TLC: a run of four events, the second of    *)
(* which cannot be encoded.                                                 *)
EXTENDS TimelineHub

CONSTANTS k1, k2

MCUnencodable == {1}

\* Above, against the filter subscribe applies, on every ring the hub can hold.
ASSUME AboveIsTheFilter ==
  \A r \in SUBSET Seqs :
    \E h \in [1 .. Cardinality(r) -> r] :
      /\ \A i, j \in 1 .. Cardinality(r) : i < j => h[i] < h[j]
      /\ \A s \in Seqs \cup {-1} : Above(h, s) = SelectSeq(h, LAMBDA e : e > s)

=============================================================================
