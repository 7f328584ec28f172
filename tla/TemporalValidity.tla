--------------------------- MODULE TemporalValidity ---------------------------
(* graph/temporal/validity.py, merge_assertions: what is said about one edge *)
(* - by several sources, over half-open intervals that may disagree - is     *)
(* folded, in the order of valid time, into a history of disjoint intervals  *)
(* and the list of the contradictions that were met.                         *)
EXTENDS Naturals, Sequences, SequencesExt, FiniteSetsExt

CONSTANTS
    OpenEnd,  \* where an interval ends that is still open: after every instant
    Claims,   \* assertions: [from, to, value, confidence, seen, source]
    MaxClaims \* of them at most, about this edge

ASSUME ClaimsAssumption ==
    /\ MaxClaims \in Nat /\ OpenEnd \in Nat
    /\ Claims \subseteq [from : Nat, to : 0..OpenEnd, value : Nat, confidence : Nat,
                         seen : Nat, source : Nat]
    /\ \A a \in Claims : a.from < a.to

VARIABLES
    claims,     \* all of the assertions, as a set
    todo,       \* those not folded yet
    history,    \* the accumulators: assertions that stand for one or several
    conflicts   \* contradictions: [loser, winner, kind]

validityVars == <<claims, todo, history, conflicts>>

\* _sort_key; an open end comes after every other one.  No two claims of one
\* source differ only in what the key leaves out.
SortKey(a) == <<a.from, a.to, a.seen, a.source, a.value>>

SortsFirst(a, b) ==
    \E i \in 1..5 : /\ SortKey(a)[i] < SortKey(b)[i]
                    /\ \A j \in 1..(i - 1) : SortKey(a)[j] = SortKey(b)[j]

ValidityInit ==
    /\ \E chosen \in [1..MaxClaims -> Claims] : claims = ToSet(chosen)
    /\ \A a, b \in claims : SortKey(a) = SortKey(b) => a = b
    /\ todo = claims
    /\ history = <<>> /\ conflicts = {}

-----------------------------------------------------------------------------

Overlaps(a, b) == a.from < b.to /\ b.from < a.to
Meets(a, b)    == a.to = b.from

\* The end of the newer claim replaces that of the accumulator.
AbsorbNewest(last, a) ==
    [last EXCEPT !.to = a.to, !.confidence = Max({@, a.confidence}),
                 !.seen = Min({@, a.seen})]

\* _Accumulator.absorb: the accumulator keeps its first source.
Absorb(last, a) ==
    [last EXCEPT !.to = Max({@, a.to}), !.confidence = Max({@, a.confidence}),
                 !.seen = Min({@, a.seen})]

\* _rank_simultaneous: higher confidence wins, then the later observation, then
\* the source that sorts first, then the claim that was there.
Wins(a, last) ==
    \/ a.confidence > last.confidence
    \/ a.confidence = last.confidence
       /\ (a.seen > last.seen \/ (a.seen = last.seen /\ a.source < last.source))

Contradiction(kind, loser, winner) == [kind |-> kind, loser |-> loser, winner |-> winner]

\* One turn of the loop.
Fold(a) ==
    LET last    == history[Len(history)]
        Replace(by) == [history EXCEPT ![Len(history)] = by]
        With(acc)   == Append(history, acc)
    IN  CASE history = <<>> -> history' = <<a>> /\ UNCHANGED conflicts
          [] history # <<>> /\ last.value = a.value ->
               /\ history' = IF Overlaps(last, a) \/ Meets(last, a)
                             THEN Replace(Absorb(last, a)) ELSE With(a)
               /\ UNCHANGED conflicts
          [] history # <<>> /\ last.value # a.value /\ ~Overlaps(last, a) ->
               history' = With(a) /\ UNCHANGED conflicts
          [] history # <<>> /\ last.value # a.value /\ Overlaps(last, a) /\ a.from > last.from ->
               /\ conflicts' = conflicts \cup {Contradiction("overlap", last, a)}
               /\ history' = Append(Replace([last EXCEPT !.to = a.from]), a)
          [] OTHER ->
               IF Wins(a, last)
               THEN /\ conflicts' = conflicts \cup {Contradiction("simultaneous", last, a)}
                    /\ history' = Replace(a)
               ELSE /\ conflicts' = conflicts \cup {Contradiction("simultaneous", a, last)}
                    /\ UNCHANGED history

\* The loop runs over the sorted claims: its next one sorts before all the others.
MergeNext ==
    /\ \E a \in todo : /\ \A b \in todo \ {a} : SortsFirst(a, b)
                      /\ Fold(a)
                      /\ todo' = todo \ {a}
    /\ UNCHANGED claims

ValidityNext == MergeNext
ValiditySpec == ValidityInit /\ [][ValidityNext]_validityVars

-----------------------------------------------------------------------------
(* Properties.                                                              *)

ValidityTypeOK ==
    /\ claims \subseteq Claims /\ todo \subseteq claims
    /\ \A i \in DOMAIN history : history[i].from < history[i].to /\ history[i].to <= OpenEnd

Covers(a, t) == a.from <= t /\ t < a.to
Says(a, t, value) == Covers(a, t) /\ a.value = value

\* IntervalSet, Contradiction: the history has one answer at most for every
\* instant, in order; it says nothing that no source said; and whatever a
\* source said it says too, or a contradiction keeps the claim that lost.
HistoryIsAuditable ==
    /\ \A i, j \in DOMAIN history : i < j => history[i].to <= history[j].from
    /\ \A i \in DOMAIN history : \A t \in history[i].from..(history[i].to - 1) :
          \E a \in claims : Says(a, t, history[i].value)
    /\ \A a \in claims \ todo : \A t \in a.from..(a.to - 1) :
          \/ \E i \in DOMAIN history : Says(history[i], t, a.value)
          \/ \E c \in conflicts : Says(c.loser, t, a.value)
=============================================================================
