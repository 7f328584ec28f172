--------------------------- MODULE Pagers_proofs ---------------------------
(***************************************************************************)
(* Proofs about two walks over lists of GitHub that change while they are   *)
(* read, page by page: the connector's streams (GitHubSync) and the         *)
(* artifact sync's (ArtifactSync).  Neither needs the other; both rest on   *)
(* what a page is, the first n of a finite set in an order.                 *)
(*                                                                         *)
(* GitHubSync: nothing the connector has not published slips below what its *)
(* next run reads, for any topics, page size, budget of pages, lag of a     *)
(* replica and length of a run.  The invariant says of what is kept         *)
(* (Parked) that an unpublished update lies above the floor of the          *)
(* watermark, and that the parked descent still reaches it; and of a run    *)
(* under way that such an update is still Ahead of it: buffered, below the  *)
(* descent, above it and so read by a later run, or torn out by a cut.  Of  *)
(* the issues walk it says that an update is buffered, ahead of the walk,   *)
(* in a marked second, or too young to be seen.                             *)
(*                                                                         *)
(* ArtifactSync: a pull request at or below a stream's watermark is stored  *)
(* as it is, for any pages, chunks, changes and failures.  The invariant    *)
(* says where each one above the watermark is (Found): seen as it is now,   *)
(* still to come in the list, or changed since all that was seen, so that   *)
(* no watermark that gives passes it.                                       *)
(***************************************************************************)
EXTENDS GitHubSync, ArtifactSync, FiniteSetTheorems, WellFoundedInduction, TLAPS
-----------------------------------------------------------------------------
(* What First takes from a finite set, for any strict order R.              *)

Precede(R, S, x) == {y \in S : <<y, x>> \in R}
FirstOf(R, S, n) == {x \in S : Cardinality(Precede(R, S, x)) < n}

Strict(R, S) ==
    /\ \A x \in S : <<x, x>> \notin R
    /\ \A x, y, z \in S : <<x, y>> \in R /\ <<y, z>> \in R => <<x, z>> \in R

LEMMA PrecedeGrows ==
    ASSUME NEW R, NEW S, IsFiniteSet(S), Strict(R, S),
           NEW x \in S, NEW y \in S, <<x, y>> \in R
    PROVE  /\ Cardinality(Precede(R, S, x)) \in Nat /\ Cardinality(Precede(R, S, y)) \in Nat
           /\ Cardinality(Precede(R, S, x)) < Cardinality(Precede(R, S, y))
<1>1. IsFiniteSet(Precede(R, S, x)) /\ IsFiniteSet(Precede(R, S, y))
  BY FS_Subset DEF Precede
<1>2. Precede(R, S, x) \in SUBSET Precede(R, S, y)
  BY DEF Precede, Strict
<1>3. x \in Precede(R, S, y) /\ x \notin Precede(R, S, x)
  BY DEF Precede, Strict
<1>4. /\ Cardinality(Precede(R, S, x)) <= Cardinality(Precede(R, S, y))
      /\ Cardinality(Precede(R, S, y)) # Cardinality(Precede(R, S, x))
  BY <1>1, <1>2, <1>3, FS_Subset
<1>5. Cardinality(Precede(R, S, x)) \in Nat /\ Cardinality(Precede(R, S, y)) \in Nat
  BY <1>1, FS_CardinalityType
<1>6. QED
  BY <1>4, <1>5

\* A finite set has a member that none of it precedes: what CHOOSE needs.
LEMMA SomeIsFirst ==
    ASSUME NEW R, NEW S, IsFiniteSet(S), S # {}, Strict(R, S)
    PROVE  \E x \in S : \A y \in S : <<y, x>> \notin R
<1> DEFINE sizes == {Cardinality(Precede(R, S, x)) : x \in S}
<1>1. ASSUME NEW x \in S PROVE Cardinality(Precede(R, S, x)) \in Nat
  BY FS_Subset, FS_CardinalityType DEF Precede
<1>2. sizes \subseteq Nat /\ sizes # {}
  BY <1>1
<1>3. PICK m \in sizes : \A n \in sizes : <<n, m>> \notin OpToRel(<, Nat)
  BY <1>2, WFMin, NatLessThanWellFounded, Zenon
<1>4. PICK x \in S : m = Cardinality(Precede(R, S, x))
  BY <1>3
<1>5. ASSUME NEW y \in S, <<y, x>> \in R PROVE FALSE
  <2>1. Cardinality(Precede(R, S, y)) < Cardinality(Precede(R, S, x))
    BY <1>5, PrecedeGrows
  <2>2. <<Cardinality(Precede(R, S, y)), m>> \in OpToRel(<, Nat)
    BY <1>1, <1>4, <2>1 DEF OpToRel
  <2>3. QED
    BY <1>3, <2>2
<1>6. QED
  BY <1>5

\* What is left out is preceded by n members and precedes none that is taken;
\* fewer than n are taken only when nothing is left.
LEMMA FirstTakes ==
    ASSUME NEW R, NEW S, IsFiniteSet(S), Strict(R, S), NEW n \in Nat \ {0}
    PROVE  /\ FirstOf(R, S, n) \subseteq S /\ IsFiniteSet(FirstOf(R, S, n))
           /\ Cardinality(FirstOf(R, S, n)) \in Nat
           /\ \A x \in S \ FirstOf(R, S, n), y \in FirstOf(R, S, n) : <<x, y>> \notin R
           /\ Cardinality(FirstOf(R, S, n)) < n => FirstOf(R, S, n) = S
           /\ FirstOf(R, S, n) = {} => S = {}
<1> DEFINE P == FirstOf(R, S, n)
<1>1. P \subseteq S /\ IsFiniteSet(P) /\ Cardinality(P) \in Nat
  BY FS_Subset, FS_CardinalityType DEF FirstOf
<1>2. ASSUME NEW x \in S \ P, NEW y \in P, <<x, y>> \in R PROVE FALSE
  <2>1. Cardinality(Precede(R, S, x)) < Cardinality(Precede(R, S, y))
    BY <1>1, <1>2, PrecedeGrows
  <2>2. Cardinality(Precede(R, S, x)) \in Nat /\ Cardinality(Precede(R, S, y)) \in Nat
    BY <1>1, <1>2, PrecedeGrows
  <2>3. Cardinality(Precede(R, S, y)) < n /\ ~(Cardinality(Precede(R, S, x)) < n)
    BY DEF FirstOf
  <2>4. QED
    BY <2>1, <2>2, <2>3
<1>3. ASSUME Cardinality(P) < n, P # S PROVE FALSE
  <2>1. IsFiniteSet(S \ P) /\ S \ P # {}
    BY <1>1, <1>3, FS_Difference
  <2>2. Strict(R, S \ P)
    BY <1>1 DEF Strict
  <2>3. PICK x \in S \ P : \A y \in S \ P : <<y, x>> \notin R
    BY <2>1, <2>2, SomeIsFirst
  <2>4. Precede(R, S, x) \in SUBSET P
    BY <2>3 DEF Precede
  <2>5. Cardinality(Precede(R, S, x)) <= Cardinality(P) /\ Cardinality(Precede(R, S, x)) \in Nat
    BY <1>1, <2>4, FS_Subset, FS_CardinalityType
  <2>6. Cardinality(Precede(R, S, x)) < n
    BY <1>1, <1>3, <2>5
  <2>7. QED
    BY <2>3, <2>6 DEF FirstOf
<1>4. P = {} => S = {}
  BY <1>3, FS_EmptySet
<1>5. QED
  BY <1>1, <1>2, <1>3, <1>4

\* Where every two members are ordered, the first n are n, or all there are.
LEMMA FirstAreN ==
    ASSUME NEW R, NEW S, IsFiniteSet(S), Strict(R, S), NEW n \in Nat,
           \A x, y \in S : x = y \/ <<x, y>> \in R \/ <<y, x>> \in R
    PROVE  /\ IsFiniteSet(FirstOf(R, S, n)) /\ Cardinality(FirstOf(R, S, n)) \in Nat
           /\ Cardinality(FirstOf(R, S, n)) <= n
           /\ n <= Cardinality(S) => Cardinality(FirstOf(R, S, n)) = n
<1> DEFINE P == FirstOf(R, S, n)
<1>1. P \subseteq S /\ IsFiniteSet(P) /\ Cardinality(P) \in Nat
  BY FS_Subset, FS_CardinalityType DEF FirstOf
<1>2. Cardinality(P) <= n
  <2>1. CASE P = {}
    BY <2>1, FS_EmptySet
  <2>2. CASE P # {}
    <3> DEFINE Q == {q \in P \X P : <<q[2], q[1]>> \in R}
    <3>1. Strict(Q, P)
      BY <1>1 DEF Strict
    <3>2. PICK x \in P : \A y \in P : <<y, x>> \notin Q
      BY <1>1, <2>2, <3>1, SomeIsFirst
    <3>3. \A y \in P : <<x, y>> \notin R
      BY <3>2
    <3>4. P \in SUBSET (Precede(R, S, x) \cup {x})
      BY <1>1, <3>3 DEF Precede
    <3>5. /\ IsFiniteSet(Precede(R, S, x)) /\ Cardinality(Precede(R, S, x)) \in Nat
          /\ Cardinality(Precede(R, S, x)) < n
      BY FS_Subset, FS_CardinalityType DEF Precede, FirstOf
    <3>6. /\ IsFiniteSet(Precede(R, S, x) \cup {x})
          /\ Cardinality(Precede(R, S, x) \cup {x}) <= Cardinality(Precede(R, S, x)) + 1
          /\ Cardinality(Precede(R, S, x) \cup {x}) \in Nat
      <4>1. /\ IsFiniteSet(Precede(R, S, x) \cup {x})
            /\ Cardinality(Precede(R, S, x) \cup {x}) =
                  IF x \in Precede(R, S, x) THEN Cardinality(Precede(R, S, x))
                  ELSE Cardinality(Precede(R, S, x)) + 1
        BY <3>5, FS_AddElement
      <4>2. Cardinality(Precede(R, S, x) \cup {x}) \in Nat
        BY <4>1, FS_CardinalityType
      <4>3. QED
        BY <3>5, <4>1, <4>2
    <3>7. Cardinality(P) <= Cardinality(Precede(R, S, x) \cup {x})
      BY <3>4, <3>6, FS_Subset
    <3>8. QED
      BY <1>1, <3>5, <3>6, <3>7
  <2>3. QED
    BY <2>1, <2>2
<1>3. ASSUME n <= Cardinality(S) PROVE Cardinality(P) = n
  <2>1. CASE n = 0
    BY <1>1, <1>2, <2>1
  <2>2. CASE n # 0
    <3>1. Cardinality(P) < n => P = S
      BY <2>2, FirstTakes
    <3>2. Cardinality(S) \in Nat
      BY FS_CardinalityType
    <3>3. QED
      BY <1>1, <1>2, <1>3, <3>1, <3>2
  <2>3. QED
    BY <2>1, <2>2
<1>4. QED
  BY <1>1, <1>2, <1>3
-----------------------------------------------------------------------------
(* GitHubSync.                                                              *)

Items  == [at : Nat, topic : Topics]
Points == [at : Int, topic : Nat]
Pages  == {P \in SUBSET Items : IsFiniteSet(P)}

\* The marks that are kept.
MarkLists == {q \in Seq(Int) : Len(q) <= MaxMarks}

StreamStates == [watermark : Nat, pending : Nat, token : Points, saturated : MarkLists, dropped : SUBSET Int]

Crawls ==
    [at : {"home", "ask", "publish", "keep", "end"}, state : StreamStates, from : Points,
     pages : Seq(Pages), complete : BOOLEAN, asked : Nat, since : Nat]

CrawlTypes ==
    /\ stream \in {"issues", "discussions"} /\ beat \in 1 .. MaxBeats
    /\ touched \in [Topics -> Nat] /\ shown \in [Topics -> Nat]
    /\ kept \in StreamStates /\ crawl \in Crawls
    /\ settled \subseteq Topics /\ torn \subseteq Items

\* The update a replica shows of a topic; whether anything has published it; and
\* what the run has fetched and not handed over.
Item(t)   == [at |-> shown[t], topic |-> t]
Unread(t) == shown[t] # 0 /\ t \notin settled
Buffer    == Unhanded(crawl.pages)

\* Nothing is ahead of the provider's clock; what a replica does not show is
\* younger than its lag, and a run no longer than its duration.
CrawlClocked ==
    /\ \A t \in Topics :
          /\ shown[t] <= touched[t] /\ touched[t] <= beat
          /\ shown[t] # touched[t] => beat - touched[t] <= Replication
    /\ kept.watermark <= beat /\ kept.pending <= beat
    /\ crawl.state.watermark <= beat /\ crawl.state.pending <= beat
    /\ \A y \in Buffer : y.at <= beat
    /\ crawl.at # "home" => crawl.since <= beat /\ beat <= crawl.since + Duration
    /\ crawl.at \in {"home", "end"} => crawl.pages = <<>>

\* An unpublished update a run that starts from s comes to: it is newer than
\* what the descent has kept, below its token, or buffered by the run that has
\* just kept that token - unless it was torn out.
Reached(s, x) ==
    \/ x.at > s.pending - Rewind
    \/ Below(x, s.token)
    \/ x \in torn
    \/ ~crawl.complete /\ s.token = crawl.from /\ x \in Buffer

\* What holds of a state that is, or may be, kept.
Parked(s) ==
    /\ s.token = Top \/ s.token.at <= s.pending
    /\ \A t \in Topics : Unread(t) =>
          /\ Item(t).at > s.watermark - Rewind \/ Item(t) \in torn
          /\ Reached(s, Item(t))

\* Newer than all this descent hands over, but for the overlap: the watermark it
\* ends with does not pass it.
Above(x) ==
    /\ x.at > crawl.state.pending - Rewind
    /\ \A y \in Buffer : x.at > y.at - Rewind

\* Where an unpublished update is while a descent is under way.
Ahead(x) ==
    \/ x \in Buffer
    \/ ~crawl.complete /\ Below(x, crawl.from)
    \/ Above(x)
    \/ x \in torn

\* A descent reads below its token, and hands back from where it stopped.
Descending ==
    /\ \A t \in Topics : Unread(t) => Ahead(Item(t))
    /\ ~crawl.complete =>
          \/ crawl.from = Top \/ crawl.from.at <= crawl.state.pending
          \/ crawl.pages # <<>> /\ \E y \in Head(crawl.pages) : crawl.from.at <= y.at
    /\ crawl.at = "ask" =>
          /\ ~crawl.complete /\ kept = crawl.state
          /\ crawl.from = crawl.state.token \/ Below(crawl.from, crawl.state.token)
    /\ crawl.at = "ask" \/ crawl.complete => \A y \in Buffer : Below(y, crawl.state.token)

\* The two streams, at each place a run can be.
DiscussionsInv ==
    stream = "discussions" =>
       /\ Parked(kept)
       /\ crawl.at # "home" => Parked(crawl.state)
       /\ crawl.at \in {"ask", "publish", "keep"} => Descending

\* A second the issues walk stepped over: it is marked, or as many later steps
\* as are kept have pushed its mark out.
Stepped(s, at) == at \in Marks(s) \/ (at \in s.dropped /\ Len(s.saturated) = MaxMarks)

\* In the window of the next issues walk, or in a second it stepped over.
Marked(s, at) == at >= WindowStart(s) \/ Stepped(s, at)

\* The walk holds one page, and what is behind it is settled or marked.
Walking ==
    /\ Len(crawl.pages) <= 1 /\ (crawl.at # "publish" => crawl.pages = <<>>)
    /\ crawl.from.at >= WindowStart(crawl.state)
    /\ \A t \in Topics : Unread(t) =>
          \/ Item(t) \in Buffer
          \/ shown[t] >= crawl.from.at
          \/ Stepped(crawl.state, shown[t])
          \/ shown[t] >= crawl.since - Replication

IssuesInv ==
    stream = "issues" =>
       /\ \A t \in Topics : Unread(t) => Marked(kept, shown[t])
       /\ crawl.at # "home" => Walking

CrawlInv == CrawlTypes /\ CrawlClocked /\ DiscussionsInv /\ IssuesInv
\* The two orders of the listings.
Up(S)   == {p \in S \X S : Below(p[1], p[2])}
Down(S) == {p \in S \X S : Below(p[2], p[1])}

LEMMA OrdersAreStrict ==
    ASSUME NEW S \in SUBSET Points PROVE Strict(Up(S), S) /\ Strict(Down(S), S)
<1>1. \A x \in S : x.at \in Int /\ x.topic \in Int
  BY DEF Points
<1>2. \A x \in S : ~Below(x, x)
  BY <1>1 DEF Below
<1>3. \A x, y, z \in S : Below(x, y) /\ Below(y, z) => Below(x, z)
  BY <1>1 DEF Below
<1>4. QED
  BY <1>2, <1>3 DEF Strict, Up, Down

\* Two points of one set are the same or one is below the other.
LEMMA PointsAreOrdered ==
    ASSUME NEW x \in Points, NEW y \in Points
    PROVE  x = y \/ Below(x, y) \/ Below(y, x)
<1>1. x = [at |-> x.at, topic |-> x.topic] /\ y = [at |-> y.at, topic |-> y.topic]
  BY DEF Points
<1>2. x.at \in Int /\ y.at \in Int /\ x.topic \in Nat /\ y.topic \in Nat
  BY DEF Points
<1>3. x.at = y.at /\ x.topic = y.topic => x = y
  BY <1>1
<1>4. QED
  BY <1>2, <1>3 DEF Below

\* The oldest n: what is left out is no older than any of them.
LEMMA OldestTakes ==
    ASSUME NEW S \in SUBSET Points, IsFiniteSet(S), NEW n \in Nat \ {0}
    PROVE  LET P == First(S, n, Below)
           IN  /\ P \subseteq S /\ IsFiniteSet(P) /\ Cardinality(P) \in Nat
               /\ \A x \in S \ P, y \in P : y.at <= x.at
               /\ Cardinality(P) < n => P = S
<1>1. ASSUME NEW x \in S PROVE Precede(Up(S), S, x) = {y \in S : Below(y, x)}
  BY DEF Precede, Up
<1>2. FirstOf(Up(S), S, n) = First(S, n, Below)
  BY <1>1 DEF FirstOf, First
<1> DEFINE P == First(S, n, Below)
<1> HIDE DEF P
<1>3. /\ P \subseteq S /\ IsFiniteSet(P) /\ Cardinality(P) \in Nat
      /\ \A x \in S \ P, y \in P : <<x, y>> \notin Up(S)
      /\ Cardinality(P) < n => P = S
  BY <1>2, OrdersAreStrict, FirstTakes DEF P
<1>4. ASSUME NEW x \in S \ P, NEW y \in P PROVE y.at <= x.at
  <2>1. ~Below(x, y) /\ x.at \in Int /\ y.at \in Int
    BY <1>3 DEF Up, Points
  <2>2. QED
    BY <2>1 DEF Below
<1>5. QED
  BY <1>3, <1>4 DEF P

\* The newest n of a set that is not empty: the last of them is there, and what
\* is left out lies below it.
LEMMA NewestTakes ==
    ASSUME NEW S \in SUBSET Points, IsFiniteSet(S), S # {}, NEW n \in Nat \ {0}
    PROVE  LET P    == First(S, n, LAMBDA x, y : Below(y, x))
               last == CHOOSE x \in P : \A y \in P : ~Below(y, x)
           IN  /\ P \subseteq S /\ IsFiniteSet(P) /\ P # {}
               /\ last \in P /\ \A y \in P : ~Below(y, last)
               /\ \A x \in S \ P : Below(x, last)
<1>1. ASSUME NEW x \in S PROVE Precede(Down(S), S, x) = {y \in S : Below(x, y)}
  BY DEF Precede, Down
<1> DEFINE P    == First(S, n, LAMBDA x, y : Below(y, x))
           last == CHOOSE x \in P : \A y \in P : ~Below(y, x)
<1>2. FirstOf(Down(S), S, n) = P
  BY <1>1 DEF FirstOf, First
<1> HIDE DEF P
<1>3. /\ P \subseteq S /\ IsFiniteSet(P) /\ P # {}
      /\ \A x \in S \ P, y \in P : <<x, y>> \notin Down(S)
  BY <1>2, OrdersAreStrict, FirstTakes
<1>4. PICK x \in P : \A y \in P : <<y, x>> \notin Up(P)
  BY <1>3, OrdersAreStrict, SomeIsFirst
<1>5. \A y \in P : ~Below(y, x)
  BY <1>4 DEF Up
<1>6. last \in P /\ \A y \in P : ~Below(y, last)
  BY <1>5
<1> HIDE DEF last
<1>7. ASSUME NEW z \in S \ P PROVE Below(z, last)
  <2>1. ~Below(last, z) /\ z # last
    BY <1>3, <1>6 DEF Down
  <2>2. QED
    BY <1>3, <1>6, <2>1, PointsAreOrdered
<1>8. QED
  BY <1>3, <1>6, <1>7 DEF P, last

\* The newest update of a finite set is there, and none is newer.
LEMMA NewestIsThere ==
    ASSUME NEW P \in SUBSET Points, IsFiniteSet(P), NEW d \in Int
    PROVE  /\ Newest(P, d) \in Int
           /\ P = {} => Newest(P, d) = d
           /\ P # {} => \E y \in P : Newest(P, d) = y.at
           /\ \A y \in P : y.at <= Newest(P, d)
<1>1. CASE P = {}
  BY <1>1 DEF Newest
<1>2. CASE P # {}
  <2>1. PICK x \in P : \A y \in P : <<y, x>> \notin Down(P)
    BY <1>2, OrdersAreStrict, SomeIsFirst
  <2>2. ASSUME NEW y \in P PROVE y.at <= x.at
    <3>1. ~Below(x, y) /\ x.at \in Int /\ y.at \in Int
      BY <2>1 DEF Down, Points
    <3>2. QED
      BY <3>1 DEF Below
  <2>3. x.at \in {y.at : y \in P} /\ \A y \in P : y.at <= x.at
    BY <2>2
  <2>4. Newest(P, d) \in {y.at : y \in P} /\ \A y \in P : y.at <= Newest(P, d)
    BY <1>2, <2>3 DEF Newest
  <2>5. Newest(P, d) \in Int
    BY <2>4 DEF Points
  <2>6. QED
    BY <1>2, <2>4, <2>5
<1>3. QED
  BY <1>1, <1>2
-----------------------------------------------------------------------------
(* The numbers and sets of a state.                                         *)

\* The assumptions of the module, each by itself.
LEMMA Constants ==
    /\ TopicsPage \in Nat \ {0} /\ MaxBeats \in Nat \ {0} /\ MaxMarks \in Nat \ {0} /\ Rewind \in Nat
    /\ Replication \in Nat /\ Duration \in Nat \ {0} /\ Replication + Duration <= Rewind
    /\ Topics \subseteq Nat /\ IsFiniteSet(Topics)
    /\ OthersFollow \in BOOLEAN
  BY GitHubAssumption, WindowAssumption DEF GitHubAssumption, WindowAssumption

\* What the records and their fields are.
LEMMA PointsAre ==
    /\ Items \subseteq Points /\ Top \in Points
    /\ \A x \in Points : x.at \in Int /\ x.topic \in Nat
    /\ \A x \in Items : x.at \in Nat /\ x.topic \in Topics
<1>1. ASSUME NEW x \in Items PROVE x \in Points
  <2>1. x = [at |-> x.at, topic |-> x.topic] /\ x.at \in Nat /\ x.topic \in Topics
    BY DEF Items
  <2>2. x.at \in Int /\ x.topic \in Nat
    BY <2>1, Constants
  <2>3. QED
    BY <2>1, <2>2 DEF Points
<1>2. Top \in Points
  <2>1. MaxBeats + 1 \in Int /\ 0 \in Nat
    BY Constants
  <2>2. QED
    BY <2>1 DEF Points, Top
<1>3. QED
  BY <1>1, <1>2 DEF Items, Points

LEMMA StatesAre ==
    ASSUME NEW s \in StreamStates
    PROVE  /\ s.watermark \in Nat /\ s.pending \in Nat /\ s.token \in Points
           /\ s.token.at \in Int /\ s.saturated \in MarkLists /\ s.dropped \in SUBSET Int
  BY PointsAre DEF StreamStates

LEMMA CrawlsAre ==
    ASSUME NEW c \in Crawls
    PROVE  /\ c.at \in {"home", "ask", "publish", "keep", "end"} /\ c.state \in StreamStates
           /\ c.from \in Points /\ c.from.at \in Int /\ c.pages \in Seq(Pages)
           /\ c.complete \in BOOLEAN /\ c.asked \in Nat /\ c.since \in Nat
  BY PointsAre DEF Crawls

LEMMA AtHomeIs == NewStream \in StreamStates /\ AtHome \in Crawls
<1>1. NewStream \in StreamStates
  <2>1. <<>> \in MarkLists
    BY Constants DEF MarkLists
  <2>2. QED
    BY <2>1, PointsAre DEF NewStream, StreamStates
<1>2. <<>> \in Seq(Pages)
  OBVIOUS
<1>3. QED
  BY <1>1, <1>2, PointsAre DEF AtHome, Crawls

\* What a sequence of pages holds, and a page added in front or taken from it.
LEMMA UnhandedIs ==
    ASSUME NEW q \in Seq(Pages)
    PROVE  \A x : x \in Unhanded(q) <=> \E i \in 1 .. Len(q) : x \in q[i]
<1>1. DOMAIN q = 1 .. Len(q)
  OBVIOUS
<1>2. QED
  BY <1>1 DEF Unhanded

LEMMA Unhanding ==
    ASSUME NEW q \in Seq(Pages), NEW P \in Pages
    PROVE  /\ Unhanded(q) \subseteq Items
           /\ Unhanded(<<>>) = {} /\ Unhanded(<<P>>) = P
           /\ <<P>> \o q \in Seq(Pages) /\ Head(<<P>> \o q) = P /\ <<P>> \o q # <<>>
           /\ Unhanded(<<P>> \o q) = P \cup Unhanded(q)
<1>1. ASSUME NEW x \in Unhanded(q) PROVE x \in Items
  <2>1. PICK i \in 1 .. Len(q) : x \in q[i]
    BY UnhandedIs
  <2>2. q[i] \in Pages
    OBVIOUS
  <2>3. QED
    BY <2>1, <2>2 DEF Pages
<1>2. Unhanded(<<>>) = {} /\ Unhanded(<<P>>) = P
  BY DEF Unhanded
<1>3. /\ <<P>> \o q \in Seq(Pages) /\ Len(<<P>> \o q) = Len(q) + 1
      /\ (<<P>> \o q)[1] = P
      /\ \A i \in 1 .. Len(q) : (<<P>> \o q)[i + 1] = q[i]
  OBVIOUS
<1>4. Unhanded(<<P>> \o q) = P \cup Unhanded(q)
  <2>1. ASSUME NEW x \in Unhanded(<<P>> \o q) PROVE x \in P \cup Unhanded(q)
    <3>1. PICK i \in 1 .. Len(q) + 1 : x \in (<<P>> \o q)[i]
      BY <1>3, UnhandedIs
    <3>2. CASE i = 1
      BY <1>3, <3>1, <3>2
    <3>3. CASE i # 1
      <4>1. i - 1 \in 1 .. Len(q) /\ x \in q[i - 1]
        BY <1>3, <3>1, <3>3
      <4>2. QED
        BY <4>1, UnhandedIs
    <3>4. QED
      BY <3>2, <3>3
  <2>2. ASSUME NEW x \in Unhanded(q) PROVE x \in Unhanded(<<P>> \o q)
    <3>1. PICK i \in 1 .. Len(q) : x \in q[i]
      BY UnhandedIs
    <3>2. i + 1 \in 1 .. Len(<<P>> \o q) /\ x \in (<<P>> \o q)[i + 1]
      BY <1>3, <3>1
    <3>3. QED
      BY <1>3, <3>2, UnhandedIs
  <2>3. ASSUME NEW x \in P PROVE x \in Unhanded(<<P>> \o q)
    <3>1. 1 \in 1 .. Len(<<P>> \o q) /\ x \in (<<P>> \o q)[1]
      BY <1>3
    <3>2. QED
      BY <1>3, <3>1, UnhandedIs
  <2>4. QED
    BY <2>1, <2>2, <2>3
<1>5. QED
  BY <1>1, <1>2, <1>3, <1>4

LEMMA Heading ==
    ASSUME NEW q \in Seq(Pages), q # <<>>
    PROVE  /\ Head(q) \in Pages /\ Tail(q) \in Seq(Pages) /\ Len(q) \in Nat /\ Len(q) >= 1
           /\ Unhanded(q) = Head(q) \cup Unhanded(Tail(q))
           /\ Len(q) = 1 => Tail(q) = <<>>
<1>1. /\ Head(q) \in Pages /\ Tail(q) \in Seq(Pages) /\ Len(Tail(q)) = Len(q) - 1
      /\ Head(q) = q[1] /\ Len(q) >= 1
      /\ \A i \in 1 .. Len(q) - 1 : Tail(q)[i] = q[i + 1]
  OBVIOUS
<1>2. ASSUME NEW x \in Unhanded(q) PROVE x \in Head(q) \cup Unhanded(Tail(q))
  <2>1. PICK i \in 1 .. Len(q) : x \in q[i]
    BY UnhandedIs
  <2>2. CASE i # 1
    <3>1. i - 1 \in 1 .. Len(Tail(q)) /\ x \in Tail(q)[i - 1]
      BY <1>1, <2>1, <2>2
    <3>2. QED
      BY <1>1, <3>1, UnhandedIs
  <2>3. QED
    BY <1>1, <2>1, <2>2
<1>3. ASSUME NEW x \in Unhanded(Tail(q)) PROVE x \in Unhanded(q)
  <2>1. PICK i \in 1 .. Len(q) - 1 : x \in Tail(q)[i]
    BY <1>1, UnhandedIs
  <2>2. i + 1 \in 1 .. Len(q) /\ x \in q[i + 1]
    BY <1>1, <2>1
  <2>3. QED
    BY <2>2, UnhandedIs
<1>4. Head(q) \subseteq Unhanded(q)
  BY <1>1, UnhandedIs
<1>5. ASSUME Len(q) = 1 PROVE Tail(q) = <<>>
  <2>1. Len(Tail(q)) = 0
    BY <1>1, <1>5
  <2>2. ASSUME NEW r \in Seq(Pages), Len(r) = 0 PROVE r = <<>>
    BY <2>2
  <2>3. QED
    BY <1>1, <2>1, <2>2
<1>6. QED
  BY <1>1, <1>2, <1>3, <1>4, <1>5

\* What the provider lists is finite, and none of it is ahead of its clock.
LEMMA ListedIs ==
    ASSUME CrawlTypes
    PROVE  /\ Listed \in SUBSET Items /\ IsFiniteSet(Listed)
           /\ \A t \in Topics : Item(t) \in Items /\ Item(t).at = shown[t] /\ Item(t).topic = t
           /\ \A t \in Topics : shown[t] # 0 => Item(t) \in Listed
<1>1. /\ \A t \in Topics : Item(t) \in Items /\ Item(t).at = shown[t] /\ Item(t).topic = t
      /\ Listed = {Item(t) : t \in {u \in Topics : shown[u] # 0}}
  BY DEF CrawlTypes, Item, Items, Listed
<1>2. Listed \in SUBSET Items /\ \A x \in Listed : x.topic \in Topics /\ x = Item(x.topic)
  BY <1>1
<1> DEFINE f == [x \in Listed |-> x.topic]
<1>3. f \in [Listed -> Topics] /\ \A x, y \in Listed : f[x] = f[y] => x = y
  BY <1>2
<1>4. f \in Injection(Listed, Topics)
  BY <1>3 DEF Injection, IsInjective
<1>5. IsFiniteSet(Listed)
  BY <1>4, Constants, FS_Injection
<1>6. QED
  BY <1>1, <1>2, <1>5

\* The numbers a step is about.
LEMMA TypesGive ==
    ASSUME CrawlTypes
    PROVE  /\ beat \in Nat /\ 1 <= beat /\ beat <= MaxBeats
           /\ \A t \in Topics : shown[t] \in Nat /\ touched[t] \in Nat
           /\ kept.watermark \in Nat /\ kept.pending \in Nat /\ kept.token \in Points
           /\ kept.token.at \in Int /\ kept.saturated \in MarkLists /\ kept.dropped \in SUBSET Int
           /\ crawl.state.watermark \in Nat /\ crawl.state.pending \in Nat /\ crawl.state.token \in Points
           /\ crawl.state.token.at \in Int
           /\ crawl.state.saturated \in MarkLists /\ crawl.state.dropped \in SUBSET Int
           /\ crawl.from \in Points /\ crawl.from.at \in Int /\ crawl.complete \in BOOLEAN
           /\ crawl.since \in Nat /\ crawl.pages \in Seq(Pages)
           /\ Buffer \in SUBSET Items
<1>1. kept \in StreamStates /\ crawl \in Crawls /\ crawl.state \in StreamStates
  BY CrawlsAre DEF CrawlTypes
<1>2. crawl.pages \in Seq(Pages) /\ Buffer \in SUBSET Items
  <2>1. crawl.pages \in Seq(Pages)
    BY <1>1, CrawlsAre
  <2>2. ASSUME NEW q \in Seq(Pages) PROVE Unhanded(q) \in SUBSET Items
    BY Unhanding, FS_EmptySet DEF Pages
  <2>3. QED
    BY <2>1, <2>2 DEF Buffer
<1>3. QED
  BY <1>1, <1>2, StatesAre, CrawlsAre, Constants DEF CrawlTypes

\* A fresh descent starts above every topic.
LEMMA AllBelowTop ==
    ASSUME CrawlTypes, CrawlClocked, NEW t \in Topics PROVE Below(Item(t), Top)
<1>1. Item(t).at = shown[t] /\ shown[t] <= touched[t] /\ touched[t] <= beat
  BY ListedIs DEF CrawlClocked
<1>2. QED
  BY <1>1, TypesGive, Constants DEF Below, Top

LEMMA BelowIsTransitive ==
    ASSUME NEW x \in Points, NEW y \in Points, NEW z \in Points, Below(x, y), Below(y, z)
    PROVE  Below(x, z)
  BY PointsAre DEF Below
-----------------------------------------------------------------------------
(* The provider's steps.                                                    *)

\* While the provider moves, only the clock and what it shows can matter.
LEMMA NothingHandedChanges ==
    ASSUME DiscussionsInv, IssuesInv, UNCHANGED <<stream, shown, kept, crawl, settled, torn>>
    PROVE  DiscussionsInv' /\ IssuesInv'
<1>1. /\ \A t \in Topics : Unread(t)' = Unread(t) /\ Item(t)' = Item(t)
      /\ Buffer' = Buffer
  BY DEF Unread, Item, Buffer
<1>2. DiscussionsInv'
  BY <1>1 DEF DiscussionsInv, Parked, Reached, Descending, Ahead, Above
<1>3. IssuesInv'
  BY <1>1 DEF IssuesInv, Walking, Marked, WindowStart
<1>4. QED
  BY <1>2, <1>3

LEMMA TouchKeeps ==
    ASSUME CrawlInv, NEW t \in Topics, Touch(t) PROVE CrawlInv'
<1>1. CrawlTypes'
  BY TypesGive DEF CrawlInv, CrawlTypes, Touch
<1>2. CrawlClocked'
  <2>1. Buffer' = Buffer
    BY DEF Touch, Buffer
  <2>2. touched'[t] = beat /\ \A u \in Topics \ {t} : touched'[u] = touched[u]
    BY DEF CrawlInv, CrawlTypes, Touch
  <2>3. \A u \in Topics : /\ shown[u] <= touched'[u] /\ touched'[u] <= beat
                          /\ shown[u] # touched'[u] => beat - touched'[u] <= Replication
    <3>1. beat \in Nat /\ Replication \in Nat /\ \A u \in Topics : shown[u] \in Nat /\ touched[u] \in Nat
      BY TypesGive, Constants DEF CrawlInv
    <3>2. \A u \in Topics : /\ shown[u] <= touched[u] /\ touched[u] <= beat
                            /\ shown[u] # touched[u] => beat - touched[u] <= Replication
      BY DEF CrawlInv, CrawlClocked
    <3>3. beat - beat <= Replication
      BY <3>1
    <3>4. QED
      BY <2>2, <3>1, <3>2, <3>3
  <2>4. QED
    BY <2>1, <2>3 DEF CrawlInv, CrawlClocked, Touch
<1>3. QED
  BY <1>1, <1>2, NothingHandedChanges DEF CrawlInv, Touch

LEMMA BeatKeeps ==
    ASSUME CrawlInv, Beat PROVE CrawlInv'
<1>1. CrawlTypes'
  BY TypesGive, Constants DEF CrawlInv, CrawlTypes, Beat
<1>2. CrawlClocked'
  <2>1. Buffer' = Buffer
    BY DEF Beat, Buffer
  <2>2. \A y \in Buffer : y.at \in Nat
    BY TypesGive, PointsAre DEF CrawlInv
  <2>3. \A y \in Buffer : y.at <= beat'
    BY <2>2, TypesGive DEF CrawlInv, CrawlClocked, Beat
  <2>4. \A u \in Topics : /\ shown[u] <= touched[u] /\ touched[u] <= beat'
                          /\ shown[u] # touched[u] => beat' - touched[u] <= Replication
    <3>1. beat \in Nat /\ \A u \in Topics : shown[u] \in Nat /\ touched[u] \in Nat
      BY TypesGive DEF CrawlInv
    <3>2. beat' = beat + 1 /\ \A u \in Topics : shown[u] # touched[u] => beat + 1 - touched[u] <= Replication
      BY DEF Beat
    <3>3. \A u \in Topics : shown[u] <= touched[u] /\ touched[u] <= beat
      BY DEF CrawlInv, CrawlClocked
    <3>4. QED
      BY <3>1, <3>2, <3>3
  <2>5. crawl.at # "home" => crawl.since <= beat' /\ beat' <= crawl.since + Duration
    BY TypesGive, Constants DEF CrawlInv, CrawlClocked, Beat
  <2>6. /\ kept.watermark <= beat' /\ kept.pending <= beat'
        /\ crawl.state.watermark <= beat' /\ crawl.state.pending <= beat'
    BY TypesGive DEF CrawlInv, CrawlClocked, Beat
  <2>7. QED
    BY <2>1, <2>3, <2>4, <2>5, <2>6 DEF CrawlInv, CrawlClocked, Beat
<1>3. QED
  BY <1>1, <1>2, NothingHandedChanges DEF CrawlInv, Beat

\* What the replica shows only now is younger than the lag, and so newer than
\* the window below anything read so far.
LEMMA ReplicateKeeps ==
    ASSUME CrawlInv, NEW t \in Topics, Replicate(t) PROVE CrawlInv'
<1>1. CrawlTypes'
  BY TypesGive DEF CrawlInv, CrawlTypes, Replicate
<1>2. /\ \A u \in Topics : shown'[u] = IF u = t THEN touched[u] ELSE shown[u]
      /\ Buffer' = Buffer /\ CrawlTypes /\ CrawlClocked
  BY DEF CrawlInv, CrawlTypes, Replicate, Buffer
<1>3. CrawlClocked'
  <2>1. \A u \in Topics : /\ shown'[u] <= touched[u] /\ touched[u] <= beat
                          /\ shown'[u] # touched[u] => beat - touched[u] <= Replication
    BY <1>2, TypesGive DEF CrawlClocked
  <2>2. QED
    BY <1>2, <2>1 DEF CrawlClocked, Replicate
<1>4. touched[t] \in Nat /\ beat - Replication <= touched[t] /\ touched[t] <= beat /\ beat \in Nat
  <2>1. beat \in Nat /\ Replication \in Nat /\ touched[t] \in Nat
    BY <1>2, TypesGive, Constants
  <2>2. touched[t] <= beat /\ beat - touched[t] <= Replication
    BY <1>2 DEF CrawlClocked, Replicate
  <2>3. QED
    BY <2>1, <2>2
<1>5. ASSUME NEW n \in Nat, n <= beat PROVE touched[t] > n - Rewind
  <2>1. Rewind \in Nat /\ Replication \in Nat /\ Replication < Rewind
    BY Constants
  <2>2. QED
    BY <1>4, <1>5, <2>1
<1>6. /\ Item(t)' \in Items /\ Item(t)'.at = touched[t] /\ Item(t)'.topic = t
      /\ \A u \in Topics \ {t} : Item(u)' = Item(u) /\ (Unread(u)' => Unread(u))
  <2>1. Item(t)' = [at |-> touched[t], topic |-> t]
    BY <1>2 DEF Item
  <2>2. \A u \in Topics \ {t} : Item(u)' = Item(u) /\ (Unread(u)' => Unread(u))
    BY <1>2 DEF Item, Unread, Replicate
  <2>3. QED
    BY <1>4, <2>1, <2>2 DEF Items
<1>7. DiscussionsInv'
  <2> SUFFICES ASSUME stream = "discussions" PROVE DiscussionsInv'
    BY DEF DiscussionsInv, Replicate
  <2>1. ASSUME NEW s \in StreamStates, Parked(s), s.pending <= beat, s.watermark <= beat
        PROVE  /\ s.token = Top \/ s.token.at <= s.pending
               /\ \A u \in Topics : Unread(u)' =>
                     /\ Item(u)'.at > s.watermark - Rewind \/ Item(u)' \in torn
                     /\ \/ Item(u)'.at > s.pending - Rewind
                        \/ Below(Item(u)', s.token)
                        \/ Item(u)' \in torn
                        \/ ~crawl.complete /\ s.token = crawl.from /\ Item(u)' \in Buffer
    <3>1. touched[t] > s.pending - Rewind /\ touched[t] > s.watermark - Rewind
      BY <1>5, <2>1, StatesAre
    <3>2. QED
      BY <1>6, <2>1, <3>1 DEF Parked, Reached
  <2>2. kept \in StreamStates /\ crawl.state \in StreamStates
    BY <1>2, CrawlsAre DEF CrawlTypes
  <2>3. Parked(kept)' /\ (crawl.at # "home" => Parked(crawl.state)')
    BY <1>2, <2>1, <2>2 DEF CrawlInv, DiscussionsInv, CrawlClocked, Parked, Reached, Replicate
  <2>4. ASSUME crawl.at \in {"ask", "publish", "keep"} PROVE Descending'
    <3>1. \A y \in Buffer : y.at \in Nat /\ y.at <= beat
      BY <1>2, TypesGive, PointsAre DEF CrawlClocked
    <3>2. Item(t)'.at > crawl.state.pending - Rewind /\ \A y \in Buffer : Item(t)'.at > y.at - Rewind
      BY <1>2, <1>5, <1>6, <3>1, TypesGive DEF CrawlClocked
    <3>3. ASSUME NEW u \in Topics, Unread(u)' PROVE Ahead(Item(u))'
      BY <1>2, <1>6, <2>4, <3>2, <3>3 DEF CrawlInv, DiscussionsInv, Descending, Ahead, Above, Replicate
    <3>4. QED
      BY <1>2, <2>4, <3>3 DEF CrawlInv, DiscussionsInv, Descending, Replicate
  <2>5. QED
    BY <2>3, <2>4 DEF DiscussionsInv, Replicate
<1>8. IssuesInv'
  <2> SUFFICES ASSUME stream = "issues" PROVE IssuesInv'
    BY DEF IssuesInv, Replicate
  <2>1. touched[t] >= WindowStart(kept)
    BY <1>2, <1>4, <1>5, TypesGive, Constants DEF CrawlClocked, WindowStart
  <2>2. ASSUME NEW u \in Topics, Unread(u)' PROVE Marked(kept, shown'[u])
    BY <1>2, <1>6, <2>1, <2>2 DEF CrawlInv, IssuesInv, Marked
  <2>3. ASSUME crawl.at # "home" PROVE Walking'
    <3>1. touched[t] >= crawl.since - Replication
      BY <1>2, <1>4, <2>3, TypesGive, Constants DEF CrawlClocked
    <3>2. ASSUME NEW u \in Topics, Unread(u)'
          PROVE  \/ Item(u)' \in Buffer
                 \/ shown'[u] >= crawl.from.at
                 \/ Stepped(crawl.state, shown'[u])
                 \/ shown'[u] >= crawl.since - Replication
      BY <1>2, <1>6, <2>3, <3>1, <3>2 DEF CrawlInv, IssuesInv, Walking
    <3>3. QED
      BY <1>2, <2>3, <3>2 DEF CrawlInv, IssuesInv, Walking, Replicate
  <2>4. QED
    BY <2>2, <2>3 DEF IssuesInv, Marked, Replicate
<1>9. QED
  BY <1>1, <1>3, <1>7, <1>8 DEF CrawlInv
-----------------------------------------------------------------------------
(* The steps of a run that read and hand over no page.                      *)

\* Where nothing is left to hand over, what the issues walk has not handed over
\* is in its window or in a second it has marked.
LEMMA WalkedIsMarked ==
    ASSUME CrawlTypes, CrawlClocked, Walking, crawl.at # "home", crawl.pages = <<>>, NEW t \in Topics, Unread(t)
    PROVE  Marked(crawl.state, shown[t])
<1>1. Buffer = {}
  BY DEF Buffer, Unhanded
<1>2. \/ shown[t] >= crawl.from.at
      \/ Stepped(crawl.state, shown[t])
      \/ shown[t] >= crawl.since - Replication
  BY <1>1 DEF Walking
<1>3. /\ shown[t] \in Nat /\ crawl.from.at \in Int /\ crawl.state.watermark \in Nat
      /\ crawl.since \in Nat /\ beat \in Nat
      /\ Rewind \in Nat /\ Replication \in Nat /\ Duration \in Nat /\ Replication + Duration <= Rewind
  BY TypesGive, Constants
<1>4. /\ crawl.from.at >= crawl.state.watermark - Rewind
      /\ crawl.state.watermark <= beat /\ beat <= crawl.since + Duration
  BY DEF Walking, CrawlClocked, WindowStart
<1>5. crawl.since - Replication >= crawl.state.watermark - Rewind
  BY <1>3, <1>4
<1>6. Stepped(crawl.state, shown[t]) \/ shown[t] >= crawl.state.watermark - Rewind
  <2>1. CASE shown[t] >= crawl.from.at
    BY <1>3, <1>4, <2>1
  <2>2. CASE shown[t] >= crawl.since - Replication
    BY <1>3, <1>5, <2>2
  <2>3. QED
    BY <1>2, <2>1, <2>2
<1>7. QED
  BY <1>6 DEF Marked, WindowStart

LEMMA StartCrawlKeeps ==
    ASSUME CrawlInv, StartCrawl PROVE CrawlInv'
<1> DEFINE start == IF stream = "issues" THEN [Top EXCEPT !.at = WindowStart(kept)] ELSE kept.token
<1>1. /\ crawl' = [AtHome EXCEPT !.at = "ask", !.state = kept, !.since = beat, !.from = start]
      /\ UNCHANGED <<stream, beat, touched, shown, kept, settled, torn>>
      /\ CrawlTypes /\ CrawlClocked /\ crawl.at = "home"
  BY DEF StartCrawl, CrawlInv
<1>2. /\ crawl'.at = "ask" /\ crawl'.state = kept /\ crawl'.since = beat /\ crawl'.from = start
      /\ crawl'.pages = <<>> /\ crawl'.complete = FALSE /\ crawl'.asked = 0
      /\ crawl' = [at |-> "ask", state |-> kept, from |-> start, pages |-> <<>>,
                   complete |-> FALSE, asked |-> 0, since |-> beat]
  BY <1>1 DEF AtHome
<1>3. start \in Points /\ (stream = "issues" => start.at = WindowStart(kept))
  <2>1. [Top EXCEPT !.at = WindowStart(kept)] = [at |-> WindowStart(kept), topic |-> 0]
    BY DEF Top
  <2>2. WindowStart(kept) \in Int
    BY <1>1, TypesGive, Constants DEF WindowStart
  <2>3. QED
    BY <1>1, <2>1, <2>2, TypesGive DEF Points
<1> HIDE DEF start
<1>4. CrawlTypes'
  <2>1. crawl' \in Crawls
    <3>1. <<>> \in Seq(Pages) /\ beat \in Nat /\ kept \in StreamStates
      BY <1>1, TypesGive DEF CrawlTypes
    <3>2. QED
      BY <1>2, <1>3, <3>1 DEF Crawls
  <2>2. QED
    BY <1>1, <2>1 DEF CrawlTypes
<1>5. Buffer' = {} /\ Buffer = {}
  BY <1>1, <1>2 DEF Buffer, Unhanded, CrawlClocked
<1>6. CrawlClocked'
  BY <1>1, <1>2, <1>5, TypesGive, Constants DEF CrawlClocked
<1>7. \A t \in Topics : Unread(t)' = Unread(t) /\ Item(t)' = Item(t)
  BY <1>1 DEF Unread, Item
<1>8. DiscussionsInv'
  <2> SUFFICES ASSUME stream = "discussions" PROVE DiscussionsInv'
    BY <1>1 DEF DiscussionsInv
  <2>1. Parked(kept)
    BY DEF CrawlInv, DiscussionsInv
  <2>2. Parked(kept)' /\ Parked(crawl.state)'
    BY <1>1, <1>2, <1>5, <1>7, <2>1 DEF Parked, Reached
  <2>3. crawl'.from = kept.token
    BY <1>2 DEF start
  <2>4. ASSUME NEW t \in Topics, Unread(t) PROVE Ahead(Item(t))'
    BY <1>1, <1>2, <1>5, <1>7, <2>1, <2>3, <2>4 DEF Parked, Reached, Ahead, Above
  <2>5. Descending'
    BY <1>1, <1>2, <1>5, <1>7, <2>1, <2>3, <2>4 DEF Descending, Parked
  <2>6. QED
    BY <2>2, <2>5 DEF DiscussionsInv
<1>9. IssuesInv'
  <2> SUFFICES ASSUME stream = "issues" PROVE IssuesInv'
    BY <1>1 DEF IssuesInv
  <2>1. \A t \in Topics : Unread(t) => Marked(kept, shown[t])
    BY DEF CrawlInv, IssuesInv
  <2>2. WindowStart(kept) \in Int
    BY <1>1, TypesGive, Constants DEF WindowStart
  <2>3. \A t \in Topics : Unread(t)' => shown'[t] >= crawl'.from.at \/ Stepped(crawl'.state, shown'[t])
    BY <1>1, <1>2, <1>3, <1>7, <2>1 DEF Marked
  <2>4. Walking'
    BY <1>1, <1>2, <1>3, <2>2, <2>3 DEF Walking, WindowStart
  <2>5. QED
    BY <1>1, <1>7, <2>1, <2>4 DEF IssuesInv, Marked, WindowStart
<1>10. QED
  BY <1>4, <1>6, <1>8, <1>9 DEF CrawlInv

LEMMA KeepKeeps ==
    ASSUME CrawlInv, Keep PROVE CrawlInv'
<1>1. /\ kept' = crawl.state /\ crawl' = [crawl EXCEPT !.at = Onwards] /\ crawl.at = "keep"
      /\ UNCHANGED <<stream, beat, touched, shown, settled, torn>>
      /\ CrawlTypes /\ CrawlClocked
  BY DEF Keep, CrawlInv
<1>2. /\ crawl \in Crawls /\ crawl'.at = Onwards /\ crawl'.state = crawl.state /\ crawl'.since = crawl.since
      /\ crawl'.from = crawl.from /\ crawl'.pages = crawl.pages /\ crawl'.complete = crawl.complete
  BY <1>1 DEF CrawlTypes, Crawls
<1>3. /\ Onwards \in {"publish", "ask", "end"}
      /\ Onwards = "publish" <=> crawl.pages # <<>>
      /\ Onwards = "ask" => stream = "issues"
  BY DEF Onwards
<1>4. CrawlTypes'
  <2>1. crawl' \in Crawls /\ kept' \in StreamStates
    BY <1>1, <1>2, <1>3, CrawlsAre DEF Crawls
  <2>2. QED
    BY <1>1, <2>1 DEF CrawlTypes
<1>5. /\ \A t \in Topics : Unread(t)' = Unread(t) /\ Item(t)' = Item(t)
      /\ Buffer' = Buffer
  BY <1>1, <1>2 DEF Unread, Item, Buffer
<1>6. CrawlClocked'
  BY <1>1, <1>2, <1>3, <1>5 DEF CrawlClocked
<1>7. DiscussionsInv'
  <2> SUFFICES ASSUME stream = "discussions" PROVE DiscussionsInv'
    BY <1>1 DEF DiscussionsInv
  <2>1. Parked(crawl.state) /\ Descending
    BY <1>1 DEF CrawlInv, DiscussionsInv
  <2>2. Parked(kept)' /\ Parked(crawl.state)'
    BY <1>1, <1>2, <1>5, <2>1 DEF Parked, Reached
  <2>3. crawl'.at # "ask"
    BY <1>2, <1>3
  <2>4. Descending'
    BY <1>1, <1>2, <1>5, <2>1, <2>3 DEF Descending, Ahead, Above
  <2>5. QED
    BY <2>2, <2>4 DEF DiscussionsInv
<1>8. IssuesInv'
  <2> SUFFICES ASSUME stream = "issues" PROVE IssuesInv'
    BY <1>1 DEF IssuesInv
  <2>1. Walking /\ crawl.pages = <<>>
    BY <1>1 DEF CrawlInv, IssuesInv, Walking
  <2>2. \A t \in Topics : Unread(t) => Marked(crawl.state, shown[t])
    BY <1>1, <2>1, WalkedIsMarked
  <2>3. Walking'
    BY <1>1, <1>2, <1>5, <2>1 DEF Walking, WindowStart
  <2>4. QED
    BY <1>1, <1>5, <2>2, <2>3 DEF IssuesInv, Marked, WindowStart
<1>9. QED
  BY <1>4, <1>6, <1>7, <1>8 DEF CrawlInv

LEMMA FoundNothingKeeps ==
    ASSUME CrawlInv, FoundNothing PROVE CrawlInv'
<1>1. /\ crawl' = [crawl EXCEPT !.at = "end", !.state.token = Top]
      /\ crawl.at = "publish" /\ crawl.pages = <<>>
      /\ UNCHANGED <<stream, beat, touched, shown, kept, settled, torn>>
      /\ CrawlTypes /\ CrawlClocked
  BY DEF FoundNothing, CrawlInv
<1>2. /\ crawl \in Crawls /\ crawl'.at = "end" /\ crawl'.state = [crawl.state EXCEPT !.token = Top]
      /\ crawl'.since = crawl.since /\ crawl'.asked = crawl.asked
      /\ crawl'.from = crawl.from /\ crawl'.pages = crawl.pages /\ crawl'.complete = crawl.complete
  BY <1>1 DEF CrawlTypes, Crawls
<1>3. /\ crawl'.state \in StreamStates /\ crawl'.state.token = Top
      /\ crawl'.state.watermark = crawl.state.watermark /\ crawl'.state.pending = crawl.state.pending
      /\ crawl'.state.saturated = crawl.state.saturated /\ crawl'.state.dropped = crawl.state.dropped
  BY <1>2, CrawlsAre, PointsAre DEF StreamStates
<1>4. CrawlTypes'
  <2>1. crawl' \in Crawls
    BY <1>1, <1>2, <1>3, CrawlsAre DEF Crawls
  <2>2. QED
    BY <1>1, <2>1 DEF CrawlTypes
<1>5. /\ \A t \in Topics : Unread(t)' = Unread(t) /\ Item(t)' = Item(t)
      /\ Buffer' = Buffer
  BY <1>1, <1>2 DEF Unread, Item, Buffer
<1>6. CrawlClocked'
  BY <1>1, <1>2, <1>3, <1>5 DEF CrawlClocked
<1>7. DiscussionsInv'
  <2> SUFFICES ASSUME stream = "discussions" PROVE DiscussionsInv'
    BY <1>1 DEF DiscussionsInv
  <2>1. Parked(kept) /\ Parked(crawl.state)
    BY <1>1 DEF CrawlInv, DiscussionsInv
  <2>2. Parked(kept)'
    BY <1>1, <1>2, <1>5, <2>1 DEF Parked, Reached
  <2>3. \A t \in Topics : Below(Item(t), Top)
    BY <1>1, AllBelowTop
  <2>4. Parked(crawl.state)'
    BY <1>1, <1>2, <1>3, <1>5, <2>1, <2>3 DEF Parked, Reached
  <2>5. QED
    BY <1>2, <2>2, <2>4 DEF DiscussionsInv
<1>8. IssuesInv'
  <2>1. \A at : Stepped(crawl.state, at) => Stepped(crawl'.state, at)
    BY <1>3 DEF Stepped, Marks
  <2>2. QED
    BY <1>1, <1>2, <1>3, <1>5, <2>1 DEF CrawlInv, IssuesInv, Walking, Marked, WindowStart
<1>9. QED
  BY <1>4, <1>6, <1>7, <1>8 DEF CrawlInv

\* The end of a run, whatever is kept of it.
LEMMA EndCrawlKeeps ==
    ASSUME CrawlInv, EndCrawl PROVE CrawlInv'
<1>1. /\ kept' \in {kept, crawl.state} /\ crawl' = AtHome /\ crawl.at = "end"
      /\ UNCHANGED <<stream, beat, touched, shown, settled, torn>>
      /\ CrawlTypes /\ CrawlClocked /\ crawl.pages = <<>>
  BY DEF EndCrawl, CrawlInv, CrawlClocked
<1>2. /\ crawl'.at = "home" /\ crawl'.pages = <<>> /\ crawl'.complete = FALSE
      /\ crawl'.state.watermark = 0 /\ crawl'.state.pending = 0
  BY <1>1 DEF AtHome, NewStream
<1>3. CrawlTypes'
  BY <1>1, AtHomeIs, CrawlsAre DEF CrawlTypes
<1>4. /\ \A t \in Topics : Unread(t)' = Unread(t) /\ Item(t)' = Item(t)
      /\ Buffer' = {} /\ Buffer = {}
  BY <1>1, <1>2 DEF Unread, Item, Buffer, Unhanded
<1>5. CrawlClocked'
  BY <1>1, <1>2, <1>4, TypesGive DEF CrawlClocked
<1>6. DiscussionsInv'
  <2> SUFFICES ASSUME stream = "discussions" PROVE DiscussionsInv'
    BY <1>1 DEF DiscussionsInv
  <2>1. Parked(kept) /\ Parked(crawl.state)
    BY <1>1 DEF CrawlInv, DiscussionsInv
  <2>2. Parked(kept)'
    BY <1>1, <1>2, <1>4, <2>1 DEF Parked, Reached
  <2>3. QED
    BY <1>2, <2>2 DEF DiscussionsInv
<1>7. IssuesInv'
  <2> SUFFICES ASSUME stream = "issues" PROVE IssuesInv'
    BY <1>1 DEF IssuesInv
  <2>1. Walking
    BY <1>1 DEF CrawlInv, IssuesInv
  <2>2. \A t \in Topics : Unread(t) => Marked(kept, shown[t]) /\ Marked(crawl.state, shown[t])
    BY <1>1, <2>1, WalkedIsMarked DEF CrawlInv, IssuesInv
  <2>3. QED
    BY <1>1, <1>2, <1>4, <2>2 DEF IssuesInv, Marked, WindowStart
<1>8. QED
  BY <1>3, <1>5, <1>6, <1>7 DEF CrawlInv

\* A cut that drops pages above the token kept tears them out.
LEMMA CutCrawlKeeps ==
    ASSUME CrawlInv, CutCrawl PROVE CrawlInv'
<1> DEFINE drops == stream = "discussions" /\ ~crawl.complete /\ kept.token = crawl.from
<1>1. /\ crawl' = AtHome /\ crawl.at # "home"
      /\ torn' = IF drops THEN torn \cup {x \in Buffer : x.at <= kept.pending - Rewind} ELSE torn
      /\ UNCHANGED <<stream, beat, touched, shown, kept, settled>>
      /\ CrawlTypes /\ CrawlClocked
  BY DEF CutCrawl, CrawlInv, Buffer
<1>2. /\ crawl'.at = "home" /\ crawl'.pages = <<>> /\ crawl'.complete = FALSE
      /\ crawl'.state.watermark = 0 /\ crawl'.state.pending = 0
  BY <1>1 DEF AtHome, NewStream
<1>3. CrawlTypes'
  BY <1>1, AtHomeIs, TypesGive DEF CrawlTypes
<1>4. /\ \A t \in Topics : Unread(t)' = Unread(t) /\ Item(t)' = Item(t)
      /\ Buffer' = {}
  BY <1>1, <1>2 DEF Unread, Item, Buffer, Unhanded
<1>5. CrawlClocked'
  BY <1>1, <1>2, <1>4, TypesGive DEF CrawlClocked
<1>6. DiscussionsInv'
  <2> SUFFICES ASSUME stream = "discussions" PROVE DiscussionsInv'
    BY <1>1 DEF DiscussionsInv
  <2>1. Parked(kept)
    BY <1>1 DEF CrawlInv, DiscussionsInv
  <2>2. torn \subseteq torn'
    BY <1>1
  <2>3. kept.pending - Rewind \in Int /\ \A t \in Topics : Item(t).at \in Int
    BY <1>1, TypesGive, ListedIs, PointsAre, Constants
  <2>4. ASSUME NEW t \in Topics, Unread(t)
        PROVE  \/ Item(t).at > kept.pending - Rewind
               \/ Below(Item(t), kept.token)
               \/ Item(t) \in torn'
    <3>1. CASE ~crawl.complete /\ kept.token = crawl.from /\ Item(t) \in Buffer
      BY <1>1, <2>3, <3>1
    <3>2. QED
      BY <2>1, <2>2, <2>4, <3>1 DEF Parked, Reached
  <2>5. Parked(kept)'
    BY <1>1, <1>2, <1>4, <2>1, <2>2, <2>4 DEF Parked, Reached
  <2>6. QED
    BY <1>2, <2>5 DEF DiscussionsInv
<1>7. IssuesInv'
  BY <1>1, <1>2, <1>4 DEF CrawlInv, IssuesInv, Marked, WindowStart
<1>8. QED
  BY <1>3, <1>5, <1>6, <1>7 DEF CrawlInv
-----------------------------------------------------------------------------
(* A page handed over.                                                      *)

\* What was not handed over with a page is still to come, or the state of the
\* page says that a later run reads down to it.
LEMMA PublishKeeps ==
    ASSUME CrawlInv, Publish PROVE CrawlInv'
<1> DEFINE P       == Head(crawl.pages)
           running == Later(crawl.state.pending, Newest(P, 0))
           final   == Len(crawl.pages) = 1
           state   == IF stream = "issues" THEN crawl.state ELSE Handed(crawl.state, running, final)
<1>1. /\ settled' = settled \cup {x.topic : x \in P \cap Listed}
      /\ crawl' = [crawl EXCEPT !.at = "keep", !.pages = Tail(@), !.state = state]
      /\ crawl.at = "publish" /\ crawl.pages # <<>>
      /\ UNCHANGED <<stream, beat, touched, shown, kept, torn>>
      /\ CrawlTypes /\ CrawlClocked
  BY DEF Publish, CrawlInv
<1>2. /\ P \in Pages /\ Tail(crawl.pages) \in Seq(Pages)
      /\ Buffer = P \cup Unhanded(Tail(crawl.pages))
      /\ final => Tail(crawl.pages) = <<>>
  BY <1>1, TypesGive, Heading DEF Buffer
<1>3. /\ P \in SUBSET Items /\ P \in SUBSET Points /\ IsFiniteSet(P) /\ P \subseteq Buffer
      /\ \A y \in Buffer : y.at \in Nat /\ y.at <= beat
  BY <1>1, <1>2, TypesGive, PointsAre DEF Pages, CrawlClocked
<1>4. /\ Newest(P, 0) \in Int
      /\ P = {} => Newest(P, 0) = 0
      /\ P # {} => \E y \in P : Newest(P, 0) = y.at
      /\ \A y \in P : y.at <= Newest(P, 0)
  BY <1>3, NewestIsThere
<1>5. Newest(P, 0) \in Nat /\ Newest(P, 0) <= beat
  BY <1>1, <1>3, <1>4, TypesGive
<1>6. /\ running \in Nat /\ running <= beat
      /\ crawl.state.pending <= running /\ Newest(P, 0) <= running
      /\ running \in {crawl.state.pending, Newest(P, 0)}
  BY <1>1, <1>5, TypesGive DEF Later, CrawlClocked
<1> HIDE DEF P, running, final
<1>7. /\ crawl \in Crawls /\ crawl.state \in StreamStates
      /\ crawl'.at = "keep" /\ crawl'.state = state /\ crawl'.since = crawl.since /\ crawl'.asked = crawl.asked
      /\ crawl'.from = crawl.from /\ crawl'.pages = Tail(crawl.pages) /\ crawl'.complete = crawl.complete
  BY <1>1, CrawlsAre DEF CrawlTypes, Crawls
<1>8. ASSUME stream = "discussions", crawl.complete, final
      PROVE  /\ state.watermark = Later(crawl.state.watermark, running) /\ state.pending = 0
             /\ state.token = Top
             /\ state.saturated = crawl.state.saturated /\ state.dropped = crawl.state.dropped
  BY <1>7, <1>8 DEF Handed, StreamStates
<1>9. ASSUME stream = "discussions", ~(crawl.complete /\ final)
      PROVE  /\ state.watermark = crawl.state.watermark /\ state.pending = running
             /\ state.token = IF crawl.complete THEN crawl.state.token ELSE crawl.from
             /\ state.saturated = crawl.state.saturated /\ state.dropped = crawl.state.dropped
  BY <1>7, <1>9 DEF Handed, StreamStates
<1>10. Later(crawl.state.watermark, running) \in Nat /\ Later(crawl.state.watermark, running) <= beat
  BY <1>1, <1>6, TypesGive DEF Later, CrawlClocked
<1>11. state \in StreamStates
  <2>1. CASE stream = "issues"
    BY <1>7, <2>1
  <2>2. CASE stream = "discussions"
    <3>1. state = [watermark |-> state.watermark, pending |-> state.pending, token |-> state.token,
                   saturated |-> state.saturated, dropped |-> state.dropped]
      BY <1>7, <2>2 DEF Handed, StreamStates
    <3>2. /\ state.watermark \in Nat /\ state.pending \in Nat /\ state.token \in Points
          /\ state.saturated \in MarkLists /\ state.dropped \in SUBSET Int
      BY <1>1, <1>6, <1>8, <1>9, <1>10, <2>2, TypesGive, PointsAre
    <3>3. QED
      BY <3>1, <3>2 DEF StreamStates
  <2>3. QED
    BY <1>1, <2>1, <2>2 DEF CrawlTypes
<1>12. state.watermark <= beat /\ state.pending <= beat
  <2>1. CASE stream = "issues"
    BY <1>1, <2>1 DEF CrawlClocked
  <2>2. CASE stream = "discussions"
    BY <1>1, <1>6, <1>8, <1>9, <1>10, <2>2, TypesGive DEF CrawlClocked
  <2>3. QED
    BY <1>1, <2>1, <2>2 DEF CrawlTypes
<1> HIDE DEF state
<1>13. CrawlTypes'
  <2>1. crawl' \in Crawls
    BY <1>1, <1>2, <1>7, <1>11, CrawlsAre DEF Crawls
  <2>2. settled' \subseteq Topics
    BY <1>1, <1>3, PointsAre DEF CrawlTypes
  <2>3. QED
    BY <1>1, <2>1, <2>2 DEF CrawlTypes
<1>14. Buffer = P \cup Buffer' /\ (final => Buffer' = {})
  BY <1>2, <1>7 DEF Buffer, Unhanded
<1>15. CrawlClocked'
  BY <1>1, <1>7, <1>12, <1>14 DEF CrawlClocked
<1>16. \A t \in Topics : /\ Item(t)' = Item(t)
                         /\ Unread(t)' => Unread(t) /\ Item(t) \notin P
  <2>1. ASSUME NEW t \in Topics, Unread(t)' PROVE Unread(t) /\ Item(t) \notin P
    <3>1. Unread(t)
      BY <1>1, <2>1 DEF Unread
    <3>2. Item(t) \in Listed /\ Item(t).topic = t
      BY <1>1, <3>1, ListedIs DEF Unread
    <3>3. QED
      BY <1>1, <2>1, <3>1, <3>2 DEF Unread
  <2>2. QED
    BY <1>1, <2>1 DEF Item
<1>17. DiscussionsInv'
  <2> SUFFICES ASSUME stream = "discussions" PROVE DiscussionsInv'
    BY <1>1 DEF DiscussionsInv
  <2>1. Parked(kept) /\ Parked(crawl.state) /\ Descending
    BY <1>1 DEF CrawlInv, DiscussionsInv
  <2>2. Parked(kept)'
    BY <1>1, <1>7, <1>14, <1>16, <2>1 DEF Parked, Reached
  <2>3. ASSUME NEW t \in Topics, Unread(t)
        PROVE  Item(t).at \in Nat /\ Item(t).at >= 1 /\ Ahead(Item(t)) /\ Below(Item(t), Top)
    BY <1>1, <2>1, <2>3, TypesGive, ListedIs, AllBelowTop DEF Descending, Unread
  <2>4. ASSUME NEW t \in Topics, Unread(t), Above(Item(t)) PROVE Item(t).at > running - Rewind
    <3>1. Item(t).at > crawl.state.pending - Rewind
      BY <2>4 DEF Above
    <3>2. Item(t).at > Newest(P, 0) - Rewind
      <4>1. CASE P = {}
        BY <1>4, <2>3, <2>4, <4>1, Constants
      <4>2. CASE P # {}
        BY <1>3, <1>4, <2>4, <4>2 DEF Above
      <4>3. QED
        BY <4>1, <4>2
    <3>3. QED
      BY <1>6, <3>1, <3>2
  <2>5. CASE crawl.complete /\ final
    <3>1. /\ state.watermark \in {crawl.state.watermark, running} /\ state.pending = 0 /\ state.token = Top
      BY <1>8, <2>5 DEF Later
    <3>2. ASSUME NEW t \in Topics, Unread(t)'
          PROVE  Item(t).at > state.watermark - Rewind \/ Item(t) \in torn
      BY <1>14, <1>16, <2>1, <2>4, <2>5, <3>1, <3>2 DEF Parked, Descending, Ahead
    <3>3. Parked(crawl.state)'
      BY <1>1, <1>7, <1>16, <2>3, <3>1, <3>2 DEF Parked, Reached
    <3>4. ASSUME NEW t \in Topics, Unread(t)' PROVE Above(Item(t))'
      <4>1. Item(t).at > 0 - Rewind
        BY <1>16, <2>3, <3>4, Constants
      <4>2. QED
        BY <1>7, <1>14, <1>16, <2>5, <3>1, <4>1 DEF Above
    <3>5. Descending'
      BY <1>7, <1>14, <2>5, <3>4 DEF Descending, Ahead
    <3>6. QED
      BY <1>1, <1>7, <2>2, <3>3, <3>5 DEF DiscussionsInv
  <2>6. CASE ~(crawl.complete /\ final)
    <3>1. /\ state.watermark = crawl.state.watermark /\ state.pending = running
          /\ state.token = IF crawl.complete THEN crawl.state.token ELSE crawl.from
      BY <1>9, <2>6
    <3>2. crawl.complete => \A y \in Buffer : Below(y, crawl.state.token)
      BY <2>1 DEF Descending
    <3>3. state.token = Top \/ state.token.at <= running
      <4>1. CASE crawl.complete
        <5>1. crawl.state.token = Top \/ crawl.state.token.at <= crawl.state.pending
          BY <2>1 DEF Parked
        <5>2. crawl.state.token.at \in Int /\ crawl.state.pending \in Nat
          BY <1>1, TypesGive
        <5>3. QED
          BY <1>6, <3>1, <4>1, <5>1, <5>2
      <4>2. CASE ~crawl.complete
        <5>1. \/ crawl.from = Top \/ crawl.from.at <= crawl.state.pending
              \/ \E y \in P : crawl.from.at <= y.at
          BY <2>1, <4>2 DEF Descending, P
        <5>2. crawl.from.at \in Int /\ crawl.state.pending \in Nat
          BY <1>1, TypesGive
        <5>3. \A y \in P : y.at \in Nat /\ y.at <= running
          BY <1>3, <1>4, <1>5, <1>6
        <5>4. QED
          BY <1>6, <3>1, <4>2, <5>1, <5>2, <5>3
      <4>3. QED
        BY <4>1, <4>2
    <3>4. ASSUME NEW t \in Topics, Unread(t)'
          PROVE  \/ Item(t).at > running - Rewind
                 \/ Below(Item(t), state.token)
                 \/ Item(t) \in torn
                 \/ ~crawl.complete /\ state.token = crawl.from /\ Item(t) \in Buffer'
      <4>1. Ahead(Item(t)) /\ (Above(Item(t)) => Item(t).at > running - Rewind)
        BY <1>16, <2>3, <2>4, <3>4
      <4>2. CASE crawl.complete
        BY <1>14, <1>16, <3>1, <3>2, <3>4, <4>1, <4>2 DEF Ahead
      <4>3. CASE ~crawl.complete
        BY <1>14, <1>16, <3>1, <3>4, <4>1, <4>3 DEF Ahead
      <4>4. QED
        BY <4>2, <4>3
    <3>5. Parked(crawl.state)'
      BY <1>1, <1>7, <1>16, <2>1, <3>1, <3>3, <3>4 DEF Parked, Reached
    <3>6. ASSUME NEW t \in Topics, Unread(t)' PROVE Ahead(Item(t))'
      <4>1. Ahead(Item(t)) /\ (Above(Item(t)) => Item(t).at > running - Rewind) /\ Item(t) \notin P
        BY <1>16, <2>3, <2>4, <3>6
      <4>2. Above(Item(t)) => Above(Item(t))'
        BY <1>7, <1>14, <1>16, <3>1, <4>1 DEF Above
      <4>3. QED
        BY <1>1, <1>7, <1>14, <1>16, <4>1, <4>2 DEF Ahead
    <3>7. ~crawl.complete => crawl.from = Top \/ crawl.from.at <= running
      BY <3>1, <3>3
    <3>8. Descending'
      BY <1>7, <1>14, <3>1, <3>2, <3>6, <3>7 DEF Descending
    <3>9. QED
      BY <1>1, <1>7, <2>2, <3>5, <3>8 DEF DiscussionsInv
  <2>7. QED
    BY <2>5, <2>6
<1>18. IssuesInv'
  <2> SUFFICES ASSUME stream = "issues" PROVE IssuesInv'
    BY <1>1 DEF IssuesInv
  <2>1. state = crawl.state
    BY DEF state
  <2>2. Walking /\ \A t \in Topics : Unread(t) => Marked(kept, shown[t])
    BY <1>1 DEF CrawlInv, IssuesInv
  <2>3. crawl'.pages = <<>> /\ Len(<<>>) = 0 /\ Len(crawl.pages) \in Nat
    <3>1. crawl.pages \in Seq(Pages) /\ crawl.pages # <<>> /\ Len(crawl.pages) <= 1
      BY <1>1, <2>2, TypesGive DEF Walking
    <3>2. Len(crawl.pages) \in Nat /\ Len(crawl.pages) >= 1
      BY <3>1, Heading
    <3>3. final
      <4>1. \A n \in Nat : n <= 1 /\ n >= 1 => n = 1
        OBVIOUS
      <4>2. Len(crawl.pages) = 1
        BY <3>1, <3>2, <4>1
      <4>3. QED
        BY <4>2 DEF final
    <3>4. QED
      BY <1>2, <1>7, <3>2, <3>3
  <2>4. Walking'
    <3>1. \A t \in Topics : Unread(t)' =>
             \/ Item(t)' \in Buffer'
             \/ shown[t] >= crawl.from.at
             \/ Stepped(crawl.state, shown[t])
             \/ shown[t] >= crawl.since - Replication
      BY <1>14, <1>16, <2>2 DEF Walking
    <3>2. crawl.from.at >= WindowStart(crawl.state)
      BY <2>2 DEF Walking
    <3>3. Len(crawl'.pages) <= 1
      BY <2>3
    <3>4. QED
      BY <1>1, <1>7, <2>1, <2>3, <3>1, <3>2, <3>3 DEF Walking, WindowStart
  <2>5. QED
    BY <1>1, <1>16, <2>2, <2>4 DEF IssuesInv, Marked, WindowStart
<1>19. QED
  BY <1>13, <1>15, <1>17, <1>18 DEF CrawlInv
-----------------------------------------------------------------------------
(* A page read.                                                             *)

\* A descent leaves nothing behind but what lies below its last topic, and it
\* stops where everything below is in the window of a watermark.
LEMMA DescendKeeps ==
    ASSUME CrawlInv, Descend PROVE CrawlInv'
<1> DEFINE below == {x \in Listed : Below(x, crawl.from)}
           P     == First(below, TopicsPage, LAMBDA x, y : Below(y, x))
           last  == CHOOSE x \in P : \A y \in P : ~Below(y, x)
           done  == P = below \/ (crawl.state.watermark # 0 /\ last.at <= WindowStart(crawl.state))
<1>1. /\ stream = "discussions" /\ crawl.at = "ask"
      /\ UNCHANGED <<stream, beat, touched, shown, kept, settled, torn>>
      /\ CrawlTypes /\ CrawlClocked
  BY DEF Descend, CrawlInv
<1>2. \E to \in {"ask", "publish"} :
         /\ done => to = "publish"
         /\ crawl' = [crawl EXCEPT
                        !.pages = IF P = {} THEN @ ELSE <<P>> \o @,
                        !.from = IF done THEN Top ELSE last,
                        !.complete = done, !.asked = @ + 1, !.at = to]
  <2>1. PICK spent \in BOOLEAN :
           crawl' = [crawl EXCEPT
                        !.pages = IF P = {} THEN @ ELSE <<P>> \o @,
                        !.from = IF done THEN Top ELSE last,
                        !.complete = done, !.asked = @ + 1,
                        !.at = IF done \/ spent \/ crawl.asked + 1 = Descent THEN "publish" ELSE "ask"]
    BY DEF Descend
  <2> HIDE DEF P, last, done
  <2>2. QED
    BY <2>1
<1>3. below \in SUBSET Items /\ below \in SUBSET Points /\ IsFiniteSet(below)
  BY <1>1, ListedIs, PointsAre, FS_Subset
<1>4. below = {} => P = {}
  BY DEF First
<1>5. below # {} => /\ P \subseteq below /\ IsFiniteSet(P) /\ P # {}
                    /\ last \in P /\ \A x \in below \ P : Below(x, last)
  <2> HIDE DEF below
  <2>1. ASSUME below # {}
        PROVE  /\ P \subseteq below /\ IsFiniteSet(P) /\ P # {}
               /\ last \in P /\ \A x \in below \ P : Below(x, last)
    BY <1>3, <2>1, NewestTakes, Constants
  <2>2. QED
    BY <2>1
<1> HIDE DEF P, last
<1>6. /\ P \in Pages /\ P \subseteq below
      /\ ~done => below # {} /\ P # {} /\ last \in P /\ last \in Points
  BY <1>3, <1>4, <1>5, FS_EmptySet DEF Pages
<1>7. done /\ P # below => /\ below # {} /\ last \in P
                           /\ last.at <= WindowStart(crawl.state)
  BY <1>4, <1>5
<1> HIDE DEF done
<1>8. /\ crawl \in Crawls /\ crawl'.at \in {"ask", "publish"} /\ (done => crawl'.at = "publish")
      /\ crawl'.state = crawl.state /\ crawl'.since = crawl.since /\ crawl'.asked = crawl.asked + 1
      /\ crawl'.from = (IF done THEN Top ELSE last) /\ crawl'.complete = done
      /\ crawl'.pages = IF P = {} THEN crawl.pages ELSE <<P>> \o crawl.pages
  BY <1>1, <1>2 DEF CrawlTypes, Crawls
<1>9. /\ crawl'.pages \in Seq(Pages) /\ Buffer' = P \cup Buffer
      /\ P # {} => crawl'.pages # <<>> /\ Head(crawl'.pages) = P
  BY <1>1, <1>6, <1>8, TypesGive, Unhanding DEF Buffer
<1>10. done \in BOOLEAN
  BY DEF done
<1>11. CrawlTypes'
  <2>1. crawl'.from \in Points
    BY <1>6, <1>8, PointsAre
  <2>2. crawl' \in Crawls
    <3>1. /\ crawl' = [at |-> crawl'.at, state |-> crawl.state, from |-> crawl'.from, pages |-> crawl'.pages,
                       complete |-> done, asked |-> crawl.asked + 1, since |-> crawl.since]
      BY <1>2, <1>8 DEF Crawls
    <3>2. /\ crawl'.at \in {"home", "ask", "publish", "keep", "end"} /\ crawl.state \in StreamStates
          /\ crawl.asked + 1 \in Nat /\ crawl.since \in Nat
      BY <1>8, CrawlsAre
    <3>3. QED
      BY <1>9, <1>10, <2>1, <3>1, <3>2 DEF Crawls
  <2>3. QED
    BY <1>1, <2>2 DEF CrawlTypes
<1>12. \A y \in P : y \in Listed /\ y.at \in Nat /\ y.at <= beat /\ Below(y, crawl.from)
  <2>1. ASSUME NEW y \in P PROVE y.at <= beat
    <3>1. PICK t \in Topics : y = [at |-> shown[t], topic |-> t]
      BY <1>6 DEF Listed
    <3>2. y.at = shown[t] /\ shown[t] <= touched[t] /\ touched[t] <= beat
      BY <1>1, <3>1 DEF CrawlClocked
    <3>3. QED
      BY <1>1, <3>2, TypesGive
  <2>2. QED
    BY <1>3, <1>6, <2>1, PointsAre
<1>13. CrawlClocked'
  BY <1>1, <1>8, <1>9, <1>12 DEF CrawlClocked
<1>14. \A t \in Topics : Unread(t)' = Unread(t) /\ Item(t)' = Item(t)
  BY <1>1 DEF Unread, Item
<1>15. /\ Parked(crawl.state) /\ Descending /\ kept = crawl.state /\ ~crawl.complete
       /\ crawl.from = crawl.state.token \/ Below(crawl.from, crawl.state.token)
       /\ \A y \in Buffer : Below(y, crawl.state.token)
  BY <1>1 DEF CrawlInv, DiscussionsInv, Descending
<1>16. ASSUME NEW y \in Points, Below(y, crawl.from) PROVE Below(y, crawl.state.token)
  BY <1>1, <1>15, <1>16, TypesGive, BelowIsTransitive
<1>17. \A y \in Buffer' : Below(y, crawl.state.token)
  BY <1>3, <1>6, <1>9, <1>12, <1>15, <1>16
<1>18. Parked(kept)' /\ Parked(crawl.state)'
  <2>1. ASSUME NEW t \in Topics, Unread(t)
        PROVE  \/ Item(t).at > kept.pending - Rewind
               \/ Below(Item(t), kept.token)
               \/ Item(t) \in torn
    BY <1>15, <2>1 DEF Parked, Reached
  <2>2. QED
    BY <1>1, <1>8, <1>14, <1>15, <2>1 DEF Parked, Reached
<1>19. ASSUME NEW t \in Topics, Unread(t), Item(t) \in below
       PROVE  \/ Item(t) \in P
              \/ ~done /\ Below(Item(t), last)
              \/ Item(t) \in torn
  <2>1. CASE Item(t) \notin P
    <3>1. P # below /\ below # {} /\ Below(Item(t), last)
      BY <1>5, <1>19, <2>1
    <3>2. CASE done
      <4>1. last.at <= crawl.state.watermark - Rewind /\ last \in P
        BY <1>7, <3>1, <3>2 DEF WindowStart
      <4>2. last.at \in Nat /\ Item(t).at \in Nat /\ crawl.state.watermark - Rewind \in Int
        BY <1>1, <1>12, <4>1, ListedIs, PointsAre, TypesGive, Constants
      <4>3. Item(t).at <= last.at
        BY <3>1, <4>2 DEF Below
      <4>4. ~(Item(t).at > crawl.state.watermark - Rewind)
        BY <4>1, <4>2, <4>3
      <4>5. QED
        BY <1>15, <1>19, <4>4 DEF Parked
    <3>3. QED
      BY <3>1, <3>2
  <2>2. QED
    BY <2>1
<1>20. ASSUME NEW t \in Topics, Unread(t) PROVE Ahead(Item(t))'
  <2>1. /\ Item(t) \in Listed /\ Item(t).at \in Nat /\ Below(Item(t), Top)
        /\ Ahead(Item(t))
    BY <1>1, <1>15, <1>20, ListedIs, PointsAre, AllBelowTop DEF Unread, Descending
  <2>2. CASE Below(Item(t), crawl.from)
    <3>1. Item(t) \in below
      BY <2>1, <2>2
    <3>2. Item(t) \in P \/ (~done /\ Below(Item(t), last)) \/ Item(t) \in torn
      BY <1>19, <1>20, <3>1
    <3>3. QED
      BY <1>1, <1>8, <1>9, <1>14, <3>2 DEF Ahead
  <2>3. CASE Above(Item(t)) /\ crawl.from # Top
    <3>1. \/ crawl.from.at <= crawl.state.pending
          \/ \E y \in Buffer : crawl.from.at <= y.at
      <4>1. \/ crawl.from.at <= crawl.state.pending
            \/ crawl.pages # <<>> /\ \E y \in Head(crawl.pages) : crawl.from.at <= y.at
        BY <1>15, <2>3 DEF Descending
      <4>2. crawl.pages # <<>> => Head(crawl.pages) \subseteq Buffer
        BY <1>1, TypesGive, Heading DEF Buffer
      <4>3. QED
        BY <4>1, <4>2
    <3>2. ASSUME NEW y \in P PROVE Item(t).at > y.at - Rewind
      <4>1. y.at <= crawl.from.at /\ y.at \in Nat /\ crawl.from.at \in Int
        BY <1>1, <1>12, TypesGive DEF Below
      <4>2. crawl.state.pending \in Nat /\ \A z \in Buffer : z.at \in Nat
        BY <1>1, TypesGive, PointsAre
      <4>3. Item(t).at > crawl.state.pending - Rewind /\ \A z \in Buffer : Item(t).at > z.at - Rewind
        BY <2>3 DEF Above
      <4>4. QED
        BY <2>1, <3>1, <4>1, <4>2, <4>3, Constants
    <3>3. QED
      BY <1>8, <1>9, <1>14, <2>3, <3>2 DEF Ahead, Above
  <2>4. QED
    BY <1>1, <1>9, <1>14, <2>1, <2>2, <2>3 DEF Ahead
<1>21. Descending'
  <2>1. ~done => \E y \in Head(crawl'.pages) : crawl'.from.at <= y.at
    BY <1>6, <1>8, <1>9, <1>12
  <2>2. crawl'.at = "ask" => Below(crawl'.from, crawl'.state.token)
    BY <1>6, <1>8, <1>12, <1>16
  <2>3. QED
    BY <1>1, <1>6, <1>8, <1>9, <1>10, <1>14, <1>15, <1>17, <1>20, <2>1, <2>2 DEF Descending
<1>22. DiscussionsInv' /\ IssuesInv'
  BY <1>1, <1>18, <1>21 DEF DiscussionsInv, IssuesInv
<1>23. QED
  BY <1>11, <1>13, <1>22 DEF CrawlInv

\* A walk reads everything its window holds up to the newest update of a page;
\* a second that fills a page is marked.
\* A second that is stepped over is marked, and what was stepped over before it
\* keeps its mark, or loses it where the list of marks is full.
LEMMA SteppingOver ==
    ASSUME NEW s \in StreamStates, NEW second \in Int
    PROVE  /\ SteppedOver(s, second) \in StreamStates
           /\ SteppedOver(s, second).watermark = s.watermark
           /\ SteppedOver(s, second).pending = s.pending /\ SteppedOver(s, second).token = s.token
           /\ Stepped(SteppedOver(s, second), second)
           /\ \A at : Stepped(s, at) => Stepped(SteppedOver(s, second), at)
<1> DEFINE old  == s.saturated
           more == Append(old, second)
           new  == Kept(more)
           lost == (s.dropped \cup MarksLost(old, new)) \ {second}
           next == SteppedOver(s, second)
<1>1. /\ old \in Seq(Int) /\ Len(old) \in Nat /\ Len(old) <= MaxMarks /\ DOMAIN old = 1 .. Len(old)
      /\ s.dropped \in SUBSET Int /\ MaxMarks \in Nat \ {0}
  BY StatesAre, Constants DEF MarkLists
<1>2. /\ more \in Seq(Int) /\ Len(more) = Len(old) + 1 /\ more[Len(old) + 1] = second
      /\ \A i \in 1 .. Len(old) : more[i] = old[i]
  BY <1>1
<1> HIDE DEF old, more, new, lost, next
<1>0. Len(old) < MaxMarks \/ Len(old) = MaxMarks
  <2>1. \A i, j \in Nat : i <= j => i < j \/ i = j
    OBVIOUS
  <2>2. Len(old) \in Nat /\ MaxMarks \in Nat /\ Len(old) <= MaxMarks
    BY <1>1
  <2>3. QED
    BY <2>1, <2>2
<1>3. /\ new \in MarkLists /\ (Len(old) < MaxMarks => new = more)
      /\ Len(old) = MaxMarks => Len(new) = MaxMarks
      /\ \E i \in 1 .. Len(new) : new[i] = second
  <2>1. CASE Len(old) < MaxMarks
    <3>1. new = more
      BY <1>1, <1>2, <2>1 DEF new, Kept
    <3>2. Len(old) + 1 \in 1 .. Len(new) /\ new[Len(old) + 1] = second
      BY <1>1, <1>2, <3>1
    <3>3. new \in Seq(Int) /\ Len(new) <= MaxMarks
      BY <1>1, <1>2, <2>1, <3>1
    <3>4. new \in MarkLists
      BY <3>3 DEF MarkLists
    <3>5. Len(old) # MaxMarks
      <4>1. \A i, j \in Nat : i < j => i # j
        OBVIOUS
      <4>2. QED
        BY <1>1, <2>1, <4>1
    <3>6. QED
      BY <3>1, <3>2, <3>4, <3>5
  <2>2. CASE Len(old) = MaxMarks
    <3>1. new = Tail(more) /\ more # <<>>
      BY <1>1, <1>2, <2>2 DEF new, Kept
    <3>2. /\ new \in Seq(Int) /\ Len(new) = MaxMarks
          /\ \A i \in 1 .. Len(new) : new[i] = more[i + 1]
      BY <1>1, <1>2, <2>2, <3>1
    <3>3. MaxMarks \in 1 .. Len(new) /\ new[MaxMarks] = second
      BY <1>1, <1>2, <2>2, <3>2
    <3>4. QED
      BY <1>1, <2>2, <3>2, <3>3 DEF MarkLists
  <2>3. QED
    BY <1>0, <1>1, <2>1, <2>2
<1>4. new \in Seq(Int) /\ DOMAIN new = 1 .. Len(new)
  BY <1>3 DEF MarkLists
<1>5. lost \in SUBSET Int
  BY <1>1 DEF lost, MarksLost
<1>6. next = [s EXCEPT !.saturated = new, !.dropped = lost]
  BY DEF next, SteppedOver, new, lost, more, old
<1>7. /\ next \in StreamStates /\ next.watermark = s.watermark /\ next.pending = s.pending
      /\ next.token = s.token /\ next.saturated = new /\ next.dropped = lost
  BY <1>3, <1>5, <1>6 DEF StreamStates
<1>8. Marks(next) = {new[i] : i \in 1 .. Len(new)} /\ Marks(s) = {old[i] : i \in 1 .. Len(old)}
  BY <1>1, <1>4, <1>7 DEF Marks, old
<1>9. second \in Marks(next)
  BY <1>3, <1>8
<1>10. ASSUME NEW at, Stepped(s, at) PROVE Stepped(next, at)
  <2>1. CASE at = second
    BY <1>9, <2>1 DEF Stepped
  <2>2. CASE at # second /\ Len(old) < MaxMarks
    <3>1. at \in Marks(s)
      BY <1>1, <1>10, <2>2 DEF Stepped, old
    <3>2. PICK i \in 1 .. Len(old) : at = old[i]
      BY <1>8, <3>1
    <3>3. new = more
      BY <1>3, <2>2
    <3>4. i \in 1 .. Len(new) /\ new[i] = at
      BY <1>1, <1>2, <3>2, <3>3
    <3>5. QED
      BY <1>8, <3>4 DEF Stepped
  <2>3. CASE at # second /\ Len(old) = MaxMarks
    <3>1. Len(next.saturated) = MaxMarks
      BY <1>3, <1>7, <2>3
    <3>2. CASE at \in s.dropped
      <4>1. at \in lost
        BY <2>3, <3>2 DEF lost
      <4>2. QED
        BY <1>7, <3>1, <4>1 DEF Stepped
    <3>3. CASE at \in Marks(s) /\ at \notin Marks(next)
      <4>1. at \in MarksLost(old, new)
        BY <1>1, <1>4, <1>8, <3>3 DEF MarksLost
      <4>2. at \in lost
        BY <2>3, <4>1 DEF lost
      <4>3. QED
        BY <1>7, <3>1, <4>2 DEF Stepped
    <3>4. QED
      BY <1>10, <3>2, <3>3 DEF Stepped
  <2>4. QED
    BY <1>0, <2>1, <2>2, <2>3
<1>11. QED
  BY <1>7, <1>9, <1>10 DEF next, Stepped

LEMMA AskIssuesKeeps ==
    ASSUME CrawlInv, AskIssues PROVE CrawlInv'
<1> DEFINE since  == crawl.from.at
           window == {x \in Listed : x.at >= since}
           P      == First(window, TopicsPage, Below)
           full   == Cardinality(P) >= TopicsPage
           top    == Newest(P, since)
           stuck  == full /\ top <= since
           read   == [crawl.state EXCEPT !.watermark = IF P = {} THEN @ ELSE Later(@, top)]
           state  == IF stuck THEN SteppedOver(read, since) ELSE read
<1>1. /\ stream = "issues" /\ crawl.at = "ask"
      /\ crawl' = [crawl EXCEPT !.at = "publish", !.state = state, !.pages = <<P>>, !.asked = @ + 1,
                     !.from.at = IF stuck THEN since + 1 ELSE top,
                     !.complete = ~full]
      /\ UNCHANGED <<stream, beat, touched, shown, kept, settled, torn>>
      /\ CrawlTypes /\ CrawlClocked /\ since \in Int
  BY TypesGive DEF AskIssues, CrawlInv
<1>2. window \in SUBSET Items /\ window \in SUBSET Points /\ IsFiniteSet(window)
  BY <1>1, ListedIs, PointsAre, FS_Subset
<1>3. /\ P \subseteq window /\ IsFiniteSet(P) /\ Cardinality(P) \in Nat
      /\ \A x \in window \ P, y \in P : y.at <= x.at
      /\ Cardinality(P) < TopicsPage => P = window
  <2> HIDE DEF window
  <2>1. QED
    BY <1>2, OldestTakes, Constants
<1> HIDE DEF P
<1>4. full => P # {}
  <2>1. Cardinality({}) = 0 /\ ~(0 >= TopicsPage)
    BY FS_EmptySet, Constants
  <2>2. QED
    BY <2>1
<1>5. P \in Pages /\ P \in SUBSET Points /\ \A y \in P : y.at \in Nat /\ y.at >= since
  BY <1>2, <1>3, PointsAre DEF Pages
<1>6. \A y \in P : y.at <= beat
  <2>1. ASSUME NEW y \in P PROVE y.at <= beat
    <3>1. PICK t \in Topics : y = [at |-> shown[t], topic |-> t]
      BY <1>3 DEF Listed
    <3>2. y.at = shown[t] /\ shown[t] <= touched[t] /\ touched[t] <= beat
      BY <1>1, <3>1 DEF CrawlClocked
    <3>3. QED
      BY <1>1, <3>2, TypesGive
  <2>2. QED
    BY <2>1
<1>7. /\ top \in Int /\ (P = {} => top = since)
      /\ P # {} => \E y \in P : top = y.at
      /\ \A y \in P : y.at <= top
  BY <1>1, <1>3, <1>5, NewestIsThere
<1>8. /\ top >= since
      /\ P # {} => top \in Nat /\ top <= beat
      /\ stuck => top = since
  BY <1>1, <1>4, <1>5, <1>6, <1>7
<1>9. ~full => P = window
  BY <1>3, Constants
<1>10. full \in BOOLEAN /\ stuck \in BOOLEAN /\ (stuck => full)
  OBVIOUS
<1>11. /\ read \in StreamStates
       /\ read.watermark = IF P = {} THEN crawl.state.watermark ELSE Later(crawl.state.watermark, top)
       /\ read.watermark \in Nat /\ read.watermark <= beat
       /\ read.pending = crawl.state.pending /\ read.token = crawl.state.token
       /\ \A at : Stepped(crawl.state, at) => Stepped(read, at)
  <2>1. crawl.state \in StreamStates
    BY <1>1, CrawlsAre DEF CrawlTypes
  <2> DEFINE mark == IF P = {} THEN crawl.state.watermark ELSE Later(crawl.state.watermark, top)
  <2>2. mark \in Nat /\ mark <= beat
    BY <1>1, <1>8, TypesGive DEF Later, CrawlClocked
  <2>3. read = [crawl.state EXCEPT !.watermark = mark]
    OBVIOUS
  <2> HIDE DEF mark, read
  <2>4. /\ read \in StreamStates /\ read.watermark = mark
        /\ read.pending = crawl.state.pending /\ read.token = crawl.state.token
        /\ read.saturated = crawl.state.saturated /\ read.dropped = crawl.state.dropped
    BY <2>1, <2>2, <2>3 DEF StreamStates
  <2>5. QED
    BY <2>2, <2>4 DEF mark, Stepped, Marks
<1>12. /\ crawl \in Crawls /\ crawl'.at = "publish" /\ crawl'.state = state /\ crawl'.pages = <<P>>
       /\ crawl'.asked = crawl.asked + 1 /\ crawl'.since = crawl.since /\ crawl'.complete = ~full
       /\ crawl'.from = [crawl.from EXCEPT !.at = IF stuck THEN since + 1 ELSE top]
       /\ crawl' = [at |-> crawl'.at, state |-> crawl'.state, from |-> crawl'.from, pages |-> crawl'.pages,
                    complete |-> crawl'.complete, asked |-> crawl'.asked, since |-> crawl'.since]
  <2>1. crawl \in Crawls
    BY <1>1 DEF CrawlTypes
  <2> HIDE DEF top, stuck, since, full, state
  <2>2. QED
    BY <1>1, <2>1 DEF Crawls
<1> HIDE DEF state, stuck, full, window, top, read
<1>13. /\ crawl'.from.at = (IF stuck THEN since + 1 ELSE top) /\ crawl'.from \in Points
  <2>1. crawl.from \in Points
    BY <1>1, TypesGive
  <2>2. crawl'.from = [at |-> IF stuck THEN since + 1 ELSE top, topic |-> crawl.from.topic]
    BY <1>12, <2>1 DEF Points
  <2>3. crawl.from.topic \in Nat
    BY <2>1, PointsAre
  <2>4. QED
    BY <1>1, <1>7, <2>2, <2>3 DEF Points
<1>14. /\ state \in StreamStates /\ state.watermark = read.watermark
       /\ state.pending = read.pending /\ state.token = read.token
       /\ \A at : Stepped(read, at) => Stepped(state, at)
       /\ stuck => Stepped(state, since)
  BY <1>1, <1>11, SteppingOver DEF state
<1>15. state.watermark \in Nat /\ state.watermark <= beat
  BY <1>11, <1>14
<1>16. CrawlTypes'
  <2>1. <<P>> \in Seq(Pages) /\ crawl.asked + 1 \in Nat /\ crawl.since \in Nat /\ (~full) \in BOOLEAN
    BY <1>5, <1>12, CrawlsAre
  <2>2. crawl' \in Crawls
    BY <1>12, <1>13, <1>14, <2>1 DEF Crawls
  <2>3. QED
    BY <1>1, <2>2 DEF CrawlTypes
<1>17. /\ Buffer' = P
       /\ \A t \in Topics : Unread(t)' = Unread(t) /\ Item(t)' = Item(t)
  BY <1>1, <1>12 DEF Buffer, Unhanded, Unread, Item
<1>18. CrawlClocked'
  BY <1>1, <1>6, <1>11, <1>12, <1>14, <1>15, <1>17 DEF CrawlClocked
<1>19. Walking /\ Buffer = {} /\ \A t \in Topics : Unread(t) => Marked(kept, shown[t])
  BY <1>1 DEF CrawlInv, IssuesInv, Walking, Buffer, Unhanded
<1>20. crawl'.from.at >= state.watermark - Rewind
  <2>1. since >= crawl.state.watermark - Rewind
    BY <1>19 DEF Walking, WindowStart
  <2>2. crawl'.from.at >= since /\ crawl'.from.at >= top
    BY <1>1, <1>7, <1>8, <1>13
  <2>3. crawl.state.watermark \in Nat /\ Rewind \in Nat /\ crawl'.from.at \in Int
    BY <1>1, <1>13, TypesGive, PointsAre, Constants
  <2>4. state.watermark \in {crawl.state.watermark, top}
    BY <1>11, <1>14 DEF Later
  <2>5. QED
    BY <1>1, <1>7, <2>1, <2>2, <2>3, <2>4
<1>21. ASSUME NEW t \in Topics, Unread(t)
       PROVE  \/ Item(t) \in P
              \/ shown[t] >= crawl'.from.at
              \/ Stepped(state, shown[t])
              \/ shown[t] >= crawl.since - Replication
  <2>1. Item(t) \in Listed /\ Item(t).at = shown[t] /\ shown[t] \in Nat
    BY <1>1, <1>21, ListedIs, TypesGive DEF Unread
  <2>2. CASE shown[t] >= since /\ Item(t) \notin P
    <3>1. Item(t) \in window
      BY <2>1, <2>2 DEF window
    <3>2. full
      BY <1>9, <2>2, <3>1
    <3>3. shown[t] >= top
      <4>1. \A y \in P : y.at <= shown[t]
        BY <1>3, <2>1, <2>2, <3>1
      <4>2. QED
        BY <1>4, <1>7, <3>2, <4>1
    <3>4. CASE stuck
      <4>1. shown[t] = since \/ shown[t] >= since + 1
        BY <1>1, <2>1, <2>2
      <4>2. QED
        BY <1>13, <1>14, <3>4, <4>1
    <3>5. CASE ~stuck
      BY <1>13, <3>3, <3>5
    <3>6. QED
      BY <3>4, <3>5
  <2>3. CASE ~(shown[t] >= since)
    <3>1. Stepped(crawl.state, shown[t]) \/ shown[t] >= crawl.since - Replication
      BY <1>19, <1>21, <2>3 DEF Walking
    <3>2. QED
      BY <1>11, <1>14, <3>1
  <2>4. QED
    BY <2>2, <2>3
<1>22. IssuesInv'
  <2>1. Walking'
    <3>1. Len(crawl'.pages) <= 1
      BY <1>12
    <3>2. QED
      BY <1>1, <1>12, <1>17, <1>20, <1>21, <3>1 DEF Walking, WindowStart
  <2>2. QED
    BY <1>1, <1>17, <1>19, <2>1 DEF IssuesInv, Marked, WindowStart
<1>23. DiscussionsInv'
  BY <1>1 DEF DiscussionsInv
<1>24. QED
  BY <1>16, <1>18, <1>22, <1>23 DEF CrawlInv
-----------------------------------------------------------------------------
(* The invariant, and what it shows.                                        *)

LEMMA CrawlBegins == GitHubInit => CrawlInv
<1> SUFFICES ASSUME GitHubInit PROVE CrawlInv
  OBVIOUS
<1>1. /\ stream \in {"issues", "discussions"} /\ beat = 1
      /\ \A t \in Topics : touched[t] = 0 /\ shown[t] = 0
      /\ touched \in [Topics -> Nat] /\ shown \in [Topics -> Nat]
      /\ kept = NewStream /\ crawl = AtHome /\ settled = {} /\ torn = {}
  BY DEF GitHubInit
<1>2. /\ crawl.at = "home" /\ crawl.pages = <<>> /\ crawl.state = NewStream
      /\ kept.watermark = 0 /\ kept.pending = 0 /\ kept.token = Top
  BY <1>1 DEF AtHome, NewStream
<1>3. CrawlTypes
  BY <1>1, AtHomeIs, Constants DEF CrawlTypes
<1>4. Buffer = {} /\ \A t \in Topics : ~Unread(t)
  BY <1>1, <1>2 DEF Buffer, Unhanded, Unread
<1>5. CrawlClocked
  BY <1>1, <1>2, <1>4, Constants DEF CrawlClocked
<1>6. DiscussionsInv /\ IssuesInv
  BY <1>2, <1>4 DEF DiscussionsInv, IssuesInv, Parked
<1>7. QED
  BY <1>3, <1>5, <1>6 DEF CrawlInv

LEMMA CrawlKeeps == CrawlInv /\ [GitHubNext]_gitHubVars => CrawlInv'
<1> SUFFICES ASSUME CrawlInv, [GitHubNext]_gitHubVars PROVE CrawlInv'
  OBVIOUS
<1>1. CASE Beat
  BY <1>1, BeatKeeps
<1>2. ASSUME NEW t \in Topics, Touch(t) PROVE CrawlInv'
  BY <1>2, TouchKeeps
<1>3. ASSUME NEW t \in Topics, Replicate(t) PROVE CrawlInv'
  BY <1>3, ReplicateKeeps
<1>4. CASE StartCrawl
  BY <1>4, StartCrawlKeeps
<1>5. CASE AskIssues
  BY <1>5, AskIssuesKeeps
<1>6. CASE Descend
  BY <1>6, DescendKeeps
<1>7. CASE Publish
  BY <1>7, PublishKeeps
<1>8. CASE Keep
  BY <1>8, KeepKeeps
<1>9. CASE FoundNothing
  BY <1>9, FoundNothingKeeps
<1>10. CASE EndCrawl
  BY <1>10, EndCrawlKeeps
<1>11. CASE CutCrawl
  BY <1>11, CutCrawlKeeps
<1>12. CASE UNCHANGED gitHubVars
  <2>1. /\ UNCHANGED <<stream, beat, touched, shown, kept, crawl, settled, torn>>
        /\ Buffer' = Buffer
    BY <1>12 DEF gitHubVars, Buffer
  <2>2. CrawlTypes' /\ CrawlClocked'
    BY <2>1 DEF CrawlInv, CrawlTypes, CrawlClocked
  <2>3. QED
    BY <2>1, <2>2, NothingHandedChanges DEF CrawlInv
<1>13. QED
  BY <1>1, <1>2, <1>3, <1>4, <1>5, <1>6, <1>7, <1>8, <1>9, <1>10, <1>11, <1>12 DEF GitHubNext

\* Whatever the pages, the lag and the timing of runs, an update that nothing
\* has published lies above the point the next run reads down to (or in a second
\* the issues walk has marked, or whose mark it lost to a full list of them), but
\* for those a cut tore out.
THEOREM NothingBuriedHolds == GitHubSpec => []NothingBuried
<1>1. GitHubInit => CrawlInv
  BY CrawlBegins
<1>2. CrawlInv /\ [GitHubNext]_gitHubVars => CrawlInv'
  BY CrawlKeeps
<1>3. CrawlInv => NothingBuried
  <2> SUFFICES ASSUME CrawlInv, NEW t \in Topics, Unread(t)
               PROVE  \/ shown[t] > WindowStart(kept)
                      \/ stream = "issues" /\ shown[t] \in {WindowStart(kept)} \cup Marks(kept)
                      \/ stream = "issues" /\ shown[t] \in kept.dropped /\ Len(kept.saturated) = MaxMarks
                      \/ stream = "discussions" /\ [at |-> shown[t], topic |-> t] \in torn
    BY DEF NothingBuried, Unread
  <2>1. CASE stream = "issues"
    <3>1. shown[t] >= WindowStart(kept) \/ Stepped(kept, shown[t])
      BY <2>1 DEF CrawlInv, IssuesInv, Marked
    <3>2. shown[t] \in Nat /\ WindowStart(kept) \in Int
      BY TypesGive, Constants DEF CrawlInv, WindowStart
    <3>3. QED
      BY <2>1, <3>1, <3>2 DEF Stepped
  <2>2. CASE stream = "discussions"
    <3>1. Item(t).at > kept.watermark - Rewind \/ Item(t) \in torn
      BY <2>2 DEF CrawlInv, DiscussionsInv, Parked
    <3>2. QED
      BY <2>2, <3>1 DEF Item, WindowStart
  <2>3. QED
    BY <2>1, <2>2 DEF CrawlInv, CrawlTypes
<1>4. QED
  BY <1>1, <1>2, <1>3, PTL DEF GitHubSpec
-----------------------------------------------------------------------------
(* ArtifactSync.                                                            *)

Sightings == [pull : Pulls, at : Nat, version : Nat]
Sets      == {S \in SUBSET Sightings : IsFiniteSet(S)}

Walks == [at : {"rest", "walk", "walked", "chunk", "advance", "commit"}, stream : Streams,
          since : Nat, page : Nat \ {0}, seen : Sets, chunk : Sets, newest : Nat,
          complete : BOOLEAN, meta : [Streams -> Nat]]

ArtifactTypes ==
    /\ updated \in [Pulls -> Nat] /\ version \in [Pulls -> Nat] /\ pullTime \in Nat \ {0}
    /\ written \in [Streams -> [Pulls -> Nat]] /\ cursors \in [Streams -> Nat]
    /\ sync \in [Syncs -> Walks]

\* No date is ahead of GitHub's clock; a watermark is behind it, so that a pull
\* request that changes now is above every watermark.
Behind ==
    /\ \A p \in Pulls : updated[p] <= pullTime
    /\ \A s \in Streams : cursors[s] < pullTime

\* What a walk has seen of a pull request was newer than the stream's watermark
\* and is no newer than the pull request is now.
Seen(r, x) ==
    /\ r.since < x.at /\ x.at <= updated[x.pull] /\ x.version <= version[x.pull]

Now(p) == [pull |-> p, at |-> updated[p], version |-> version[p]]

\* p has changed since all of S was seen: no watermark that S gives passes it.
Newer(p, S) == \A x \in S : x.at <= updated[p]

\* Where the pull requests above the watermark are at each stage of a stream.
Found(r, p) ==
    /\ r.at = "walk" =>
          \/ Now(p) \in r.seen \/ Newer(p, r.seen)
          \/ (r.page - 1) * PullsPage <= Cardinality(Preceding(p))
    /\ r.at = "walked" /\ r.complete => Now(p) \in r.seen \/ Newer(p, r.seen)
    /\ r.at = "chunk" /\ r.complete =>
          \/ Now(p) \in r.chunk \/ written[r.stream][p] = version[p]
          \/ Newer(p, r.chunk) /\ r.newest <= updated[p]
    /\ r.at \in {"advance", "commit"} =>
          written[r.stream][p] = version[p] \/ r.newest <= updated[p]

Stage(r) ==
    /\ r.at # "rest" => r.since = cursors[r.stream]
    /\ \A x \in r.seen \cup r.chunk : Seen(r, x)
    /\ r.at = "chunk" => r.stream = "reviews"
    /\ r.at \in {"walk", "walked"} => r.newest = 0
    /\ r.newest <= pullTime
    /\ r.at \in {"advance", "commit"} => r.newest # 0
    /\ r.at = "commit" => r.meta = [cursors EXCEPT ![r.stream] = r.newest - 1]
    /\ \A p \in Opened : r.since < updated[p] => Found(r, p)

ArtifactInv ==
    /\ ArtifactTypes /\ Behind /\ NothingPassedOver
    /\ \A c \in Syncs : Stage(sync[c])

LEMMA ArtifactConstants ==
    /\ Pulls \subseteq Nat /\ IsFiniteSet(Pulls)
    /\ PullsPage \in Nat \ {0} /\ MaxPullPages \in Nat \ {0} /\ FanOut \in Nat \ {0}
    /\ \A c, d \in Syncs : c = d
  BY ArtifactAssumption, OneSyncAssumption DEF ArtifactAssumption, OneSyncAssumption

\* The fields of a stream under way.
LEMMA WalksAre ==
    ASSUME NEW r \in Walks
    PROVE  /\ r.at \in {"rest", "walk", "walked", "chunk", "advance", "commit"}
           /\ r.stream \in Streams /\ r.since \in Nat /\ r.page \in Nat \ {0}
           /\ r.seen \in Sets /\ r.chunk \in Sets /\ r.newest \in Nat /\ r.complete \in BOOLEAN
           /\ r.meta \in [Streams -> Nat]
           /\ r.seen \subseteq Sightings /\ r.chunk \subseteq Sightings
           /\ IsFiniteSet(r.seen) /\ IsFiniteSet(r.chunk)
           /\ \A x \in r.seen \cup r.chunk :
                 x \in Sightings /\ x.at \in Nat /\ x.pull \in Pulls /\ x.version \in Nat
  BY DEF Walks, Sets, Sightings

\* There is one sync, so that what it becomes is all that has to be shown.
LEMMA OneWalk ==
    ASSUME ArtifactTypes, NEW c \in Syncs, NEW r \in Walks, sync' = [sync EXCEPT ![c] = r]
    PROVE  /\ sync' \in [Syncs -> Walks] /\ sync'[c] = r
           /\ \A d \in Syncs : d = c /\ sync'[d] = r
  BY ArtifactConstants DEF ArtifactTypes

\* What precedes a pull request, what a page is made of, and what lies on either
\* side of it.
LEMMA PageIs ==
    ASSUME ArtifactTypes, NEW n \in Nat \ {0}
    PROVE  /\ (n - 1) * PullsPage \in Nat /\ n * PullsPage = (n - 1) * PullsPage + PullsPage
           /\ IsFiniteSet(Opened) /\ Cardinality(Opened) \in Nat
           /\ \A p \in Opened : Cardinality(Preceding(p)) \in Nat
           /\ \A p, q \in Opened : Cardinality(Preceding(p)) < Cardinality(Preceding(q))
                                     => updated[q] <= updated[p]
           /\ PageOf(n) \subseteq Opened /\ IsFiniteSet(PageOf(n))
           /\ Cardinality(PageOf(n)) \in Nat
           /\ \A p \in Opened : p \in PageOf(n)
                 <=> /\ (n - 1) * PullsPage <= Cardinality(Preceding(p))
                     /\ Cardinality(Preceding(p)) < n * PullsPage
           /\ n * PullsPage < Cardinality(Opened) => Cardinality(PageOf(n)) = PullsPage
           /\ Cardinality(Opened) <= n * PullsPage
                 => \A p \in Opened : Cardinality(Preceding(p)) < n * PullsPage
<1> DEFINE R     == {q \in Opened \X Opened : q[1] \in Preceding(q[2])}
           first == (n - 1) * PullsPage
           last  == n * PullsPage
<1>1. PullsPage \in Nat /\ first \in Nat /\ last \in Nat /\ last = first + PullsPage
  BY ArtifactConstants
<1>2. Opened \subseteq Pulls /\ IsFiniteSet(Opened) /\ Cardinality(Opened) \in Nat
  BY ArtifactConstants, FS_Subset, FS_CardinalityType DEF Opened
<1>3. \A p \in Opened : p \in Nat /\ updated[p] \in Nat
  BY <1>2, ArtifactConstants DEF ArtifactTypes
<1>4. Strict(R, Opened)
  <2>1. \A p \in Opened : p \notin Preceding(p)
    BY <1>3 DEF Preceding
  <2>2. \A p, q, u \in Opened : p \in Preceding(q) /\ q \in Preceding(u) => p \in Preceding(u)
    BY <1>3 DEF Preceding
  <2>3. QED
    BY <2>1, <2>2 DEF Strict
<1>5. \A p, q \in Opened : p = q \/ <<p, q>> \in R \/ <<q, p>> \in R
  <2>1. \A p, q \in Opened : p = q \/ p \in Preceding(q) \/ q \in Preceding(p)
    BY <1>3 DEF Preceding
  <2>2. QED
    BY <2>1
<1>6. \A p \in Opened : Precede(R, Opened, p) = Preceding(p)
  BY DEF Precede, Preceding
<1>7. \A p \in Opened : IsFiniteSet(Preceding(p)) /\ Cardinality(Preceding(p)) \in Nat
  BY <1>2, FS_Subset, FS_CardinalityType DEF Preceding
<1>8. ASSUME NEW p \in Opened, NEW q \in Opened,
             Cardinality(Preceding(p)) < Cardinality(Preceding(q))
      PROVE  updated[q] <= updated[p]
  <2>1. CASE q \in Preceding(p)
    <3>1. Cardinality(Precede(R, Opened, q)) < Cardinality(Precede(R, Opened, p))
      BY <1>2, <1>4, <2>1, PrecedeGrows
    <3>2. QED
      BY <1>6, <1>7, <1>8, <3>1
  <2>2. CASE q \notin Preceding(p)
    BY <1>3, <2>2 DEF Preceding
  <2>3. QED
    BY <2>1, <2>2
<1> DEFINE L == FirstOf(R, Opened, last)
           F == FirstOf(R, Opened, first)
<1>9. \A p \in Opened : /\ p \in L <=> Cardinality(Preceding(p)) < last
                        /\ p \in F <=> Cardinality(Preceding(p)) < first
  BY <1>6 DEF FirstOf
<1>10. /\ IsFiniteSet(L) /\ Cardinality(L) \in Nat
       /\ last <= Cardinality(Opened) => Cardinality(L) = last
       /\ IsFiniteSet(F) /\ Cardinality(F) \in Nat
       /\ first <= Cardinality(Opened) => Cardinality(F) = first
       /\ L \subseteq Opened /\ F \subseteq Opened
  <2>1. /\ IsFiniteSet(L) /\ Cardinality(L) \in Nat
        /\ last <= Cardinality(Opened) => Cardinality(L) = last
    BY <1>1, <1>2, <1>4, <1>5, FirstAreN
  <2>2. /\ IsFiniteSet(F) /\ Cardinality(F) \in Nat
        /\ first <= Cardinality(Opened) => Cardinality(F) = first
    BY <1>1, <1>2, <1>4, <1>5, FirstAreN
  <2>3. L \subseteq Opened /\ F \subseteq Opened
    BY DEF FirstOf
  <2>4. QED
    BY <2>1, <2>2, <2>3
<1>11. F \subseteq L
  BY <1>1, <1>7, <1>9, <1>10
<1>12. PageOf(n) \subseteq Opened /\ \A p \in Opened : p \in PageOf(n)
                 <=> /\ first <= Cardinality(Preceding(p)) /\ Cardinality(Preceding(p)) < last
  <2>1. PageOf(n) = {p \in Opened : Cardinality(Preceding(p)) \in first .. last - 1}
    BY DEF PageOf
  <2>2. QED
    BY <1>1, <1>7, <2>1
<1>13. PageOf(n) = L \ F
  <2>1. ASSUME NEW p \in Opened PROVE p \in PageOf(n) <=> p \in L \ F
    BY <1>1, <1>7, <1>9, <1>12
  <2>2. QED
    BY <1>10, <1>12, <2>1
<1>14. IsFiniteSet(PageOf(n)) /\ Cardinality(PageOf(n)) \in Nat
  BY <1>2, <1>12, FS_Subset, FS_CardinalityType
<1>15. ASSUME last < Cardinality(Opened) PROVE Cardinality(PageOf(n)) = PullsPage
  <2> HIDE DEF L, F, first, last
  <2>1. Cardinality(L) = last /\ Cardinality(F) = first
    BY <1>1, <1>2, <1>10, <1>15
  <2>2. L \cap F = F
    BY <1>11
  <2>3. Cardinality(L \ F) = Cardinality(L) - Cardinality(L \cap F)
    BY <1>10, FS_Difference
  <2>4. Cardinality(PageOf(n)) = Cardinality(L) - Cardinality(F)
    BY <1>13, <2>2, <2>3, Zenon
  <2>5. QED
    BY <1>1, <2>1, <2>4
<1>16. ASSUME Cardinality(Opened) <= last, NEW p \in Opened PROVE Cardinality(Preceding(p)) < last
  <2>1. Preceding(p) \in SUBSET Opened /\ p \notin Preceding(p)
    BY <1>3 DEF Preceding
  <2>2. Cardinality(Preceding(p)) <= Cardinality(Opened) /\ Preceding(p) # Opened
    BY <1>2, <2>1, FS_Subset
  <2>3. Cardinality(Preceding(p)) # Cardinality(Opened)
    BY <1>2, <2>1, <2>2, FS_Subset
  <2>4. QED
    BY <1>1, <1>2, <1>7, <1>16, <2>2, <2>3
<1>17. QED
  BY <1>1, <1>2, <1>7, <1>8, <1>12, <1>14, <1>15, <1>16

\* A step that only the sync takes.
LEMMA SyncMoves ==
    ASSUME ArtifactInv, NEW c \in Syncs, NEW r \in Walks, Stage(r),
           sync' = [sync EXCEPT ![c] = r],
           UNCHANGED <<updated, version, pullTime, written, cursors>>
    PROVE  ArtifactInv'
<1>1. sync' \in [Syncs -> Walks] /\ \A d \in Syncs : sync'[d] = r
  BY OneWalk DEF ArtifactInv
<1>2. ArtifactTypes' /\ Behind' /\ NothingPassedOver'
  BY <1>1 DEF ArtifactInv, ArtifactTypes, Behind, NothingPassedOver
<1>3. Opened' = Opened /\ \A p : Preceding(p)' = Preceding(p)
  BY DEF Opened, Preceding
<1>4. ASSUME NEW d \in Syncs PROVE Stage(sync[d])'
  <2>1. /\ r.at # "rest" => r.since = cursors'[r.stream]
        /\ r.newest <= pullTime'
        /\ r.at = "commit" => r.meta = [cursors' EXCEPT ![r.stream] = r.newest - 1]
        /\ \A x \in r.seen \cup r.chunk :
              r.since < x.at /\ x.at <= updated'[x.pull] /\ x.version <= version'[x.pull]
    BY DEF Stage, Seen
  <2>2. ASSUME NEW p \in Opened', r.since < updated'[p] PROVE Found(r, p)'
    BY <1>3, <2>2 DEF Stage, Found, Now, Newer
  <2>3. sync'[d] = r
    BY <1>1
  <2>4. Stage(r)'
    BY <2>1, <2>2 DEF Stage, Seen
  <2>5. QED
    BY <2>3, <2>4
<1>5. QED
  BY <1>2, <1>4 DEF ArtifactInv

LEMMA NoStreamIs == NoStream \in Walks /\ (ArtifactTypes => Stage(NoStream))
<1>1. {} \in Sets /\ [s \in Streams |-> 0] \in [Streams -> Nat] /\ "reviews" \in Streams
  BY FS_EmptySet DEF Sets, Streams
<1>2. NoStream \in Walks
  BY <1>1 DEF NoStream, Walks
<1>3. ASSUME ArtifactTypes PROVE Stage(NoStream)
  BY <1>3 DEF NoStream, Stage, Found, ArtifactTypes
<1>4. QED
  BY <1>2, <1>3

LEMMA StreamFailsKeeps ==
    ASSUME ArtifactInv, NEW c \in Syncs, StreamFails(c) PROVE ArtifactInv'
<1>1. NoStream \in Walks /\ Stage(NoStream)
  BY NoStreamIs DEF ArtifactInv
<1>2. QED
  BY <1>1, SyncMoves DEF StreamFails

LEMMA StartStreamKeeps ==
    ASSUME ArtifactInv, NEW c \in Syncs, StartStream(c) PROVE ArtifactInv'
<1>1. PICK s \in Streams :
         sync' = [sync EXCEPT ![c] = [NoStream EXCEPT !.at = "walk", !.stream = s,
                                                     !.since = cursors[s]]]
  BY DEF StartStream
<1> DEFINE r == [NoStream EXCEPT !.at = "walk", !.stream = s, !.since = cursors[s]]
<1>2. cursors[s] \in Nat
  BY DEF ArtifactInv, ArtifactTypes
<1>3. /\ r \in Walks
      /\ r.at = "walk" /\ r.stream = s /\ r.since = cursors[s] /\ r.page = 1
      /\ r.seen = {} /\ r.chunk = {} /\ r.newest = 0
  BY <1>2, NoStreamIs DEF Walks, NoStream
<1> HIDE DEF r
<1>4. ASSUME NEW p \in Opened PROVE Found(r, p)
  <2>1. \A x \in r.seen : x.at <= updated[p]
    BY <1>3
  <2>2. QED
    BY <1>3, <2>1 DEF Found, Newer
<1>5. Stage(r)
  BY <1>2, <1>3, <1>4 DEF Stage, ArtifactInv, ArtifactTypes
<1>6. QED
  BY <1>1, <1>3, <1>5, SyncMoves DEF StartStream, r

\* Only the date and the version of p change, to the clock's: nothing that was
\* seen is newer, and every other one keeps what precedes it.
LEMMA PullChangesKeeps ==
    ASSUME ArtifactInv, NEW q \in Pulls, PullChanges(q) PROVE ArtifactInv'
<1>1. /\ updated \in [Pulls -> Nat] /\ version \in [Pulls -> Nat] /\ pullTime \in Nat \ {0}
      /\ cursors \in [Streams -> Nat]
      /\ updated' = [updated EXCEPT ![q] = pullTime] /\ version' = [version EXCEPT ![q] = @ + 1]
      /\ UNCHANGED <<pullTime, written, cursors, sync>>
  BY DEF ArtifactInv, ArtifactTypes, PullChanges
<1>2. /\ updated'[q] = pullTime /\ version'[q] = version[q] + 1
      /\ \A p \in Pulls : /\ p # q => updated'[p] = updated[p] /\ version'[p] = version[p]
                          /\ updated[p] <= updated'[p] /\ version[p] <= version'[p]
                          /\ updated[p] <= pullTime
  BY <1>1 DEF ArtifactInv, Behind
<1>3. ArtifactTypes' /\ Behind'
  BY <1>1, <1>2 DEF ArtifactInv, ArtifactTypes, Behind
<1>4. NothingPassedOver'
  <2> SUFFICES ASSUME NEW s \in Streams, NEW p \in Pulls,
                      0 < updated'[p], updated'[p] <= cursors[s]
               PROVE  written[s][p] = version'[p]
    BY <1>1 DEF NothingPassedOver
  <2>1. p # q
    BY <1>1, <1>2 DEF ArtifactInv, Behind
  <2>2. QED
    BY <1>2, <2>1 DEF ArtifactInv, NothingPassedOver
<1>5. ASSUME NEW p \in Opened', p # q
      PROVE  /\ p \in Opened /\ updated'[p] = updated[p] /\ version'[p] = version[p]
             /\ Cardinality(Preceding(p)) \in Nat /\ Cardinality(Preceding(p)') \in Nat
             /\ Cardinality(Preceding(p)) <= Cardinality(Preceding(p)')
  <2>1. p \in Opened /\ p \in Pulls /\ updated'[p] = updated[p] /\ version'[p] = version[p]
    BY <1>2, <1>5 DEF Opened
  <2>2. /\ Preceding(p)' \in SUBSET Pulls /\ IsFiniteSet(Pulls)
    BY ArtifactConstants DEF Preceding, Opened
  <2>3. ASSUME NEW o \in Preceding(p) PROVE o \in Preceding(p)'
    <3>1. o \in Pulls /\ o \in Opened /\ o \in Nat /\ p \in Nat
      BY <2>1, ArtifactConstants DEF Preceding, Opened
    <3>2. updated[o] \in Nat /\ updated'[o] \in Nat /\ updated[o] <= updated'[o] /\ updated[p] \in Nat
      BY <1>1, <1>2, <2>1, <3>1
    <3>3. o \in Opened'
      BY <3>1, <3>2 DEF Opened
    <3>4. QED
      BY <2>1, <3>1, <3>2, <3>3 DEF Preceding
  <2>4. IsFiniteSet(Preceding(p)') /\ Preceding(p) \in SUBSET Preceding(p)'
    BY <2>2, <2>3, FS_Subset
  <2>5. IsFiniteSet(Preceding(p)) /\ Cardinality(Preceding(p)) <= Cardinality(Preceding(p)')
    BY <2>4, FS_Subset
  <2>6. QED
    BY <2>1, <2>4, <2>5, FS_CardinalityType
<1>6. ASSUME NEW c \in Syncs PROVE Stage(sync[c])'
  <2>0. PICK r \in Walks : r = sync[c]
    BY DEF ArtifactInv, ArtifactTypes
  <2>1. sync'[c] = r /\ Stage(r)
    BY <1>1, <2>0 DEF ArtifactInv
  <2>2. /\ r.since \in Nat /\ r.page \in Nat \ {0} /\ r.newest \in Nat
        /\ \A x \in r.seen \cup r.chunk : x.at \in Nat /\ x.pull \in Pulls /\ x.version \in Nat
    BY <2>1, WalksAre
  <2>3. ASSUME NEW x \in r.seen \cup r.chunk PROVE Seen(r, x)' /\ x.at <= pullTime
    <3>1. /\ r.since < x.at /\ x.at <= updated[x.pull] /\ x.version <= version[x.pull]
          /\ x.pull \in Pulls
      BY <2>1, <2>2, <2>3 DEF Stage, Seen
    <3>2. /\ updated[x.pull] \in Nat /\ updated'[x.pull] \in Nat /\ updated[x.pull] <= updated'[x.pull]
          /\ version[x.pull] \in Nat /\ version'[x.pull] \in Nat /\ version[x.pull] <= version'[x.pull]
          /\ updated[x.pull] <= pullTime
      BY <1>1, <1>2, <1>3, <3>1 DEF ArtifactTypes
    <3>3. r.since < x.at /\ x.at <= updated'[x.pull] /\ x.version <= version'[x.pull] /\ x.at <= pullTime
      BY <1>1, <2>2, <3>1, <3>2
    <3>4. QED
      BY <3>3 DEF Seen
  <2>4. ASSUME NEW p \in Opened', r.since < updated'[p] PROVE Found(r, p)'
    <3>1. CASE p = q
      <4>1. Newer(p, r.seen)' /\ Newer(p, r.chunk)' /\ r.newest <= updated'[p]
        BY <1>2, <2>1, <2>3, <3>1 DEF Newer, Stage
      <4>2. QED
        BY <4>1 DEF Found
    <3>2. CASE p # q
      <4>1. Found(r, p) /\ Now(p)' = Now(p)
        BY <1>5, <2>1, <2>4, <3>2 DEF Stage, Now
      <4>2. (Newer(p, r.seen) => Newer(p, r.seen)') /\ (Newer(p, r.chunk) => Newer(p, r.chunk)')
        BY <1>5, <3>2 DEF Newer
      <4>3. (r.page - 1) * PullsPage <= Cardinality(Preceding(p))
               => (r.page - 1) * PullsPage <= Cardinality(Preceding(p)')
        <5>1. (r.page - 1) * PullsPage \in Nat
          BY <2>2, PageIs DEF ArtifactInv
        <5>2. QED
          BY <1>5, <3>2, <5>1
      <4>4. written' = written /\ updated'[p] = updated[p] /\ version'[p] = version[p]
        BY <1>1, <1>5, <3>2
      <4>5. QED
        BY <4>1, <4>2, <4>3, <4>4 DEF Found
    <3>3. QED
      BY <3>1, <3>2
  <2>5. Stage(r)'
    BY <1>1, <2>1, <2>3, <2>4 DEF Stage
  <2>6. QED
    BY <2>1, <2>5
<1>7. QED
  BY <1>3, <1>4, <1>6 DEF ArtifactInv

LEMMA PullClockKeeps == ASSUME ArtifactInv, PullClock PROVE ArtifactInv'
<1>1. /\ pullTime \in Nat \ {0} /\ pullTime' = pullTime + 1
      /\ UNCHANGED <<updated, version, written, cursors, sync>>
      /\ updated \in [Pulls -> Nat] /\ cursors \in [Streams -> Nat] /\ sync \in [Syncs -> Walks]
  BY DEF ArtifactInv, ArtifactTypes, PullClock
<1>2. ArtifactTypes' /\ NothingPassedOver'
  BY <1>1 DEF ArtifactInv, ArtifactTypes, NothingPassedOver
<1>3. Behind'
  <2>1. \A p \in Pulls : updated[p] \in Nat /\ updated[p] <= pullTime
    BY <1>1 DEF ArtifactInv, Behind
  <2>2. \A s \in Streams : cursors[s] \in Nat /\ cursors[s] < pullTime
    BY <1>1 DEF ArtifactInv, Behind
  <2>3. QED
    BY <1>1, <2>1, <2>2 DEF Behind
<1>4. Opened' = Opened /\ \A p : Preceding(p)' = Preceding(p)
  BY <1>1 DEF Opened, Preceding
<1>5. ASSUME NEW c \in Syncs PROVE Stage(sync[c])'
  <2>0. PICK r \in Walks : r = sync[c]
    BY <1>1
  <2>1. sync'[c] = r /\ Stage(r)
    BY <1>1, <2>0 DEF ArtifactInv
  <2>2. r.newest \in Nat /\ r.newest <= pullTime + 1
    BY <1>1, <2>1, WalksAre DEF Stage
  <2>3. \A p \in Opened : r.since < updated[p] => Found(r, p)'
    BY <1>1, <1>4, <2>1 DEF Stage, Found, Now, Newer
  <2>4. Stage(r)'
    BY <1>1, <1>4, <2>1, <2>2, <2>3 DEF Stage, Seen
  <2>5. QED
    BY <2>1, <2>4
<1>6. QED
  BY <1>2, <1>3, <1>5 DEF ArtifactInv

LEMMA EndReviewsKeeps ==
    ASSUME ArtifactInv, NEW c \in Syncs, EndReviews(c) PROVE ArtifactInv'
<1>1. PICK r \in Walks : r = sync[c]
  BY DEF ArtifactInv, ArtifactTypes
<1>2. Stage(r) /\ r.at = "chunk" /\ r.chunk = {} /\ r.stream = "reviews"
  BY <1>1 DEF ArtifactInv, Stage, EndReviews
<1> DEFINE to == IF r.newest # 0 /\ r.complete THEN "advance" ELSE "rest"
           w  == [r EXCEPT !.at = to]
<1>3. sync' = [sync EXCEPT ![c] = w] /\ UNCHANGED <<updated, version, pullTime, written, cursors>>
  BY <1>1 DEF EndReviews, ArtifactInv, ArtifactTypes
<1>4. /\ w \in Walks /\ w.at = to /\ w.stream = r.stream /\ w.since = r.since
      /\ w.seen = r.seen /\ w.chunk = r.chunk /\ w.newest = r.newest /\ w.complete = r.complete
  BY DEF Walks
<1>5. (to = "advance" /\ r.newest # 0 /\ r.complete) \/ to = "rest"
  OBVIOUS
<1> HIDE DEF w, to
<1>6. ASSUME NEW p \in Opened, w.since < updated[p] PROVE Found(w, p)
  BY <1>2, <1>4, <1>5, <1>6 DEF Stage, Found
<1>7. Stage(w)
  <2>1. /\ w.since = cursors[w.stream] /\ w.newest <= pullTime
        /\ w.at = "advance" => w.newest # 0
        /\ \A x \in w.seen \cup w.chunk : Seen(r, x)
    BY <1>2, <1>4, <1>5 DEF Stage
  <2>2. w.at \in {"advance", "rest"}
    BY <1>4, <1>5
  <2>3. QED
    BY <1>4, <1>6, <2>1, <2>2 DEF Stage, Seen
<1>8. QED
  BY <1>3, <1>4, <1>7, SyncMoves

LEMMA ReadMetadataKeeps ==
    ASSUME ArtifactInv, NEW c \in Syncs, ReadMetadata(c) PROVE ArtifactInv'
<1>1. PICK r \in Walks : r = sync[c]
  BY DEF ArtifactInv, ArtifactTypes
<1>2. Stage(r) /\ r.at = "advance" /\ r.newest \in Nat \ {0} /\ r.stream \in Streams
  BY <1>1, WalksAre DEF ArtifactInv, Stage, ReadMetadata
<1> DEFINE meta == [cursors EXCEPT ![r.stream] = r.newest - WatermarkOverlap]
           w    == [r EXCEPT !.at = "commit", !.meta = meta]
<1>3. sync' = [sync EXCEPT ![c] = w] /\ UNCHANGED <<updated, version, pullTime, written, cursors>>
  BY <1>1 DEF ReadMetadata, ArtifactInv, ArtifactTypes
<1>4. meta \in [Streams -> Nat] /\ meta = [cursors EXCEPT ![r.stream] = r.newest - 1]
  BY <1>2 DEF WatermarkOverlap, ArtifactInv, ArtifactTypes
<1> HIDE DEF meta
<1>5. /\ w \in Walks /\ w.at = "commit" /\ w.stream = r.stream /\ w.since = r.since
      /\ w.seen = r.seen /\ w.chunk = r.chunk /\ w.newest = r.newest /\ w.meta = meta
  BY <1>4 DEF Walks
<1> HIDE DEF w
<1>6. ASSUME NEW p \in Opened, w.since < updated[p] PROVE Found(w, p)
  BY <1>2, <1>5, <1>6 DEF Stage, Found
<1>7. Stage(w)
  <2>1. /\ w.since = cursors[w.stream] /\ w.newest <= pullTime /\ w.newest # 0
        /\ \A x \in w.seen \cup w.chunk : Seen(r, x)
    BY <1>2, <1>5 DEF Stage
  <2>2. w.meta = [cursors EXCEPT ![w.stream] = w.newest - 1]
    BY <1>4, <1>5
  <2>3. QED
    BY <1>5, <1>6, <2>1, <2>2 DEF Stage, Seen
<1>8. QED
  BY <1>3, <1>5, <1>7, SyncMoves

\* What is now at or below the watermark was older than the newest of the stream,
\* and so stored.
LEMMA CommitMetadataKeeps ==
    ASSUME ArtifactInv, NEW c \in Syncs, CommitMetadata(c) PROVE ArtifactInv'
<1>1. PICK r \in Walks : r = sync[c]
  BY DEF ArtifactInv, ArtifactTypes
<1>2. /\ Stage(r) /\ r.at = "commit" /\ r.newest \in Nat \ {0} /\ r.newest <= pullTime
      /\ r.stream \in Streams /\ r.since = cursors[r.stream]
      /\ cursors' = [cursors EXCEPT ![r.stream] = r.newest - 1]
  BY <1>1, WalksAre DEF ArtifactInv, Stage, CommitMetadata
<1>3. /\ cursors \in [Streams -> Nat] /\ pullTime \in Nat \ {0} /\ updated \in [Pulls -> Nat]
      /\ UNCHANGED <<updated, version, pullTime, written>>
      /\ sync' = [sync EXCEPT ![c] = NoStream]
  BY DEF ArtifactInv, ArtifactTypes, CommitMetadata
<1>4. /\ cursors'[r.stream] = r.newest - 1
      /\ \A s \in Streams : s # r.stream => cursors'[s] = cursors[s]
      /\ cursors' \in [Streams -> Nat]
  BY <1>2, <1>3
<1>5. sync' \in [Syncs -> Walks] /\ \A d \in Syncs : sync'[d] = NoStream
  BY <1>3, OneWalk, NoStreamIs DEF ArtifactInv
<1>6. ArtifactTypes' /\ Behind'
  <2>1. ArtifactTypes'
    BY <1>3, <1>4, <1>5 DEF ArtifactInv, ArtifactTypes
  <2>2. \A s \in Streams : cursors'[s] < pullTime
    BY <1>2, <1>3, <1>4 DEF ArtifactInv, Behind
  <2>3. QED
    BY <1>3, <2>1, <2>2 DEF ArtifactInv, Behind
<1>7. NothingPassedOver'
  <2> SUFFICES ASSUME NEW s \in Streams, NEW p \in Pulls,
                      0 < updated[p], updated[p] <= cursors'[s]
               PROVE  written[s][p] = version[p]
    BY <1>3 DEF NothingPassedOver
  <2>1. p \in Opened /\ updated[p] \in Nat
    BY <1>3 DEF Opened
  <2>2. CASE s = r.stream /\ r.since < updated[p]
    <3>1. written[r.stream][p] = version[p] \/ r.newest <= updated[p]
      BY <1>2, <2>1, <2>2 DEF Stage, Found
    <3>2. QED
      BY <1>2, <1>4, <2>1, <2>2, <3>1
  <2>3. CASE s = r.stream /\ ~(r.since < updated[p])
    <3>1. updated[p] <= cursors[s]
      BY <1>2, <1>3, <2>1, <2>3
    <3>2. QED
      BY <3>1 DEF ArtifactInv, NothingPassedOver
  <2>4. CASE s # r.stream
    BY <1>4, <2>4 DEF ArtifactInv, NothingPassedOver
  <2>5. QED
    BY <2>2, <2>3, <2>4
<1>8. Stage(NoStream)'
  BY <1>3 DEF Stage, Found, NoStream
<1>9. QED
  BY <1>5, <1>6, <1>7, <1>8 DEF ArtifactInv

\* A pull request of the chunk is taken, or stays; the left ones are no older.
LEMMA TakeChunkKeeps ==
    ASSUME ArtifactInv, NEW c \in Syncs, TakeChunk(c) PROVE ArtifactInv'
<1>1. PICK r \in Walks : r = sync[c]
  BY DEF ArtifactInv, ArtifactTypes
<1>2. Stage(r) /\ r.at = "walked" /\ r.stream = "reviews"
  BY <1>1 DEF ArtifactInv, TakeChunk
<1>3. PICK batch \in SUBSET r.seen :
         /\ \A x \in batch, y \in r.seen \ batch : x.at <= y.at
         /\ sync' = [sync EXCEPT ![c] = [sync[c] EXCEPT !.at = "chunk", !.seen = {}, !.chunk = batch]]
  BY <1>1 DEF TakeChunk, OldestFirst, ArtifactInv, ArtifactTypes
<1> DEFINE w == [r EXCEPT !.at = "chunk", !.seen = {}, !.chunk = batch]
<1>4. batch \in Sets /\ {} \in Sets
  <2>1. r.seen \subseteq Sightings /\ IsFiniteSet(r.seen)
    BY WalksAre
  <2>2. QED
    BY <1>3, <2>1, FS_Subset, FS_EmptySet DEF Sets
<1>5. /\ w \in Walks /\ w.at = "chunk" /\ w.stream = "reviews" /\ w.since = r.since
      /\ w.seen = {} /\ w.chunk = batch /\ w.complete = r.complete /\ w.newest = r.newest
  BY <1>2, <1>4 DEF Walks
<1>6. sync' = [sync EXCEPT ![c] = w] /\ UNCHANGED <<updated, version, pullTime, written, cursors>>
  BY <1>1, <1>3 DEF TakeChunk
<1> HIDE DEF w
<1>7. ASSUME NEW p \in Opened, w.since < updated[p] PROVE Found(w, p)
  <2> SUFFICES ASSUME r.complete
               PROVE  \/ Now(p) \in batch
                      \/ Newer(p, batch) /\ r.newest <= updated[p]
    BY <1>5 DEF Found
  <2>1. Now(p) \in r.seen \/ Newer(p, r.seen)
    BY <1>2, <1>5, <1>7 DEF Stage, Found
  <2>2. r.newest <= updated[p]
    BY <1>2 DEF Stage, ArtifactInv, ArtifactTypes, Opened
  <2>3. QED
    BY <1>3, <2>1, <2>2 DEF Newer, Now
<1>8. Stage(w)
  <2>1. /\ w.since = cursors[w.stream] /\ w.newest <= pullTime
        /\ \A x \in r.seen : Seen(r, x)
    BY <1>2, <1>5 DEF Stage
  <2>2. \A x \in w.seen \cup w.chunk : x \in r.seen
    BY <1>3, <1>5
  <2>3. QED
    BY <1>5, <1>7, <2>1, <2>2 DEF Stage, Seen
<1>9. QED
  BY <1>5, <1>6, <1>8, SyncMoves

\* The largest of a finite set is there, and none is larger.
LEMMA MaxIs ==
    ASSUME NEW S \in SUBSET Nat, IsFiniteSet(S), S # {}
    PROVE  Max(S) \in S /\ \A m \in S : m <= Max(S)
<1> DEFINE R == {q \in S \X S : q[2] < q[1]}
<1>1. Strict(R, S)
  BY DEF Strict
<1>2. PICK x \in S : \A y \in S : <<y, x>> \notin R
  BY <1>1, SomeIsFirst
<1>3. ASSUME NEW y \in S PROVE x >= y
  <2>1. ~(x < y)
    BY <1>2
  <2>2. QED
    BY <2>1
<1>4. Max(S) \in S /\ \A y \in S : Max(S) >= y
  BY <1>3 DEF Max
<1>5. QED
  BY <1>4

\* A page: what it holds is seen; what lies before it has changed since, and what
\* lies after it is still to come, or at or below the watermark.
LEMMA ReadPageKeeps ==
    ASSUME ArtifactInv, NEW c \in Syncs, ReadPage(c) PROVE ArtifactInv'
<1> DEFINE r == sync[c]
<1>1. r \in Walks
  BY DEF ArtifactInv, ArtifactTypes
<1>2. Stage(r) /\ r.at = "walk"
  BY DEF ArtifactInv, ReadPage
<1> HIDE DEF r
<1>3. /\ r.page \in Nat \ {0} /\ r.since \in Nat /\ r.newest = 0
      /\ r.seen \subseteq Sightings /\ IsFiniteSet(r.seen)
      /\ \A x \in r.seen : x.at \in Nat /\ x.pull \in Pulls /\ x.version \in Nat
  BY <1>1, <1>2, WalksAre DEF Stage
<1>4. /\ updated \in [Pulls -> Nat] /\ version \in [Pulls -> Nat]
      /\ Opened \subseteq Pulls /\ \A p \in Opened : updated[p] \in Nat /\ version[p] \in Nat
  BY DEF ArtifactInv, ArtifactTypes, Opened
<1> DEFINE n     == r.page
           first == (n - 1) * PullsPage
           last  == n * PullsPage
           fresh == {p \in PageOf(n) : updated[p] > r.since}
           found == r.seen \cup {Now(p) : p \in fresh}
           ended == Cardinality(fresh) < PullsPage \/ Cardinality(Opened) <= last
           bound == n = MaxPullPages
           full  == bound /\ Cardinality(fresh) = PullsPage
           to    == IF ended \/ bound THEN "walked" ELSE "walk"
           w     == [r EXCEPT !.seen = found, !.page = n + 1, !.at = to, !.complete = ~full]
<1>5. sync' = [sync EXCEPT ![c] = w] /\ UNCHANGED <<updated, version, pullTime, written, cursors>>
  BY DEF ReadPage, Now, r
<1>6. /\ PageOf(n) \subseteq Opened /\ IsFiniteSet(PageOf(n)) /\ Cardinality(PageOf(n)) \in Nat
      /\ first \in Nat /\ last = first + PullsPage /\ PullsPage \in Nat \ {0}
      /\ \A p \in Opened : Cardinality(Preceding(p)) \in Nat
      /\ \A p, q \in Opened : Cardinality(Preceding(p)) < Cardinality(Preceding(q))
                                => updated[q] <= updated[p]
      /\ \A p \in Opened : p \in PageOf(n) <=> /\ first <= Cardinality(Preceding(p))
                                               /\ Cardinality(Preceding(p)) < last
      /\ last < Cardinality(Opened) => Cardinality(PageOf(n)) = PullsPage
      /\ Cardinality(Opened) <= last => \A p \in Opened : Cardinality(Preceding(p)) < last
      /\ Cardinality(Opened) \in Nat
  BY <1>3, PageIs, ArtifactConstants DEF ArtifactInv
<1> HIDE DEF first, last
<1>7. fresh \in SUBSET PageOf(n) /\ IsFiniteSet(fresh) /\ Cardinality(fresh) \in Nat
      /\ Cardinality(fresh) <= Cardinality(PageOf(n))
      /\ (Cardinality(fresh) = Cardinality(PageOf(n)) => fresh = PageOf(n))
  <2>1. fresh \in SUBSET PageOf(n)
    OBVIOUS
  <2>2. QED
    BY <1>6, <2>1, FS_Subset, FS_CardinalityType
<1>8. \A p \in Opened : p \in fresh <=> p \in PageOf(n) /\ r.since < updated[p]
  BY <1>3, <1>4
<1> HIDE DEF fresh
<1>9. found \in Sets /\ r.seen \subseteq found /\ \A p \in fresh : Now(p) \in found
  <2>1. \A p \in fresh : Now(p) \in Sightings
    BY <1>4, <1>6, <1>7 DEF Now, Sightings
  <2>2. IsFiniteSet({Now(p) : p \in fresh})
    <3> DEFINE T == {Now(p) : p \in fresh}
               f == [x \in T |-> x.pull]
    <3>1. \A x \in T : x.pull \in Pulls /\ x = Now(x.pull)
      BY <2>1 DEF Now, Sightings
    <3>2. f \in [T -> Pulls] /\ \A x, y \in T : f[x] = f[y] => x = y
      BY <3>1
    <3>3. f \in Injection(T, Pulls)
      BY <3>2 DEF Injection, IsInjective
    <3>4. QED
      BY <3>3, ArtifactConstants, FS_Injection
  <2>3. QED
    BY <1>3, <2>1, <2>2, FS_Union DEF Sets
<1>10. \A x \in found : x \in r.seen \/ \E p \in fresh : x = Now(p)
  OBVIOUS
<1> HIDE DEF found
<1>11. to \in {"walk", "walked"} /\ full \in BOOLEAN
  OBVIOUS
<1>12. to = "walk" => ~ended
  OBVIOUS
<1> HIDE DEF to
<1>13. n + 1 \in Nat \ {0} /\ (n + 1) - 1 = n
  BY <1>3
<1>14. /\ w \in Walks /\ w.at = to /\ w.page = n + 1 /\ w.stream = r.stream /\ w.since = r.since
       /\ w.seen = found /\ w.chunk = r.chunk /\ w.newest = r.newest /\ w.complete = ~full
  BY <1>1, <1>9, <1>11, <1>13 DEF Walks
<1> HIDE DEF w
\* A page that ends the walk, unless it is the last one allowed and full, leaves
\* nothing above the watermark behind it.
<1>15. ASSUME ended, ~full, NEW p \in Opened, r.since < updated[p]
       PROVE  Cardinality(Preceding(p)) < last
  <2> SUFFICES ASSUME last <= Cardinality(Preceding(p)) PROVE FALSE
    BY <1>6
  <2>1. last < Cardinality(Opened)
    BY <1>6
  <2>2. Cardinality(PageOf(n)) = PullsPage /\ Cardinality(fresh) < PullsPage
    BY <1>6, <1>15, <2>1
  <2>3. PICK q \in PageOf(n) : q \notin fresh
    <3>1. fresh # PageOf(n)
      BY <1>3, <1>6, <2>2
    <3>2. QED
      BY <1>7, <3>1
  <2>4. q \in Opened /\ updated[q] <= r.since
    BY <1>3, <1>4, <1>6, <1>8, <2>3
  <2>5. Cardinality(Preceding(q)) < Cardinality(Preceding(p))
    BY <1>6, <2>3, <2>4
  <2>6. updated[p] <= updated[q]
    BY <1>6, <2>4, <2>5
  <2>7. QED
    BY <1>3, <1>4, <1>15, <2>4, <2>6
<1>16. ASSUME ~ended, bound PROVE full
  <2>1. last < Cardinality(Opened) /\ ~(Cardinality(fresh) < PullsPage)
    BY <1>3, <1>6, <1>16
  <2>2. QED
    BY <1>6, <1>7, <1>16, <2>1
<1>17. to = "walked" /\ w.complete => ended /\ ~full
  BY <1>14, <1>16 DEF to
<1>18. ASSUME NEW p \in Opened, r.since < updated[p], Cardinality(Preceding(p)) < last
       PROVE  Now(p) \in found \/ Newer(p, found)
  <2>1. CASE p \in PageOf(n)
    BY <1>8, <1>9, <1>18, <2>1
  <2>2. CASE p \notin PageOf(n)
    <3>1. Cardinality(Preceding(p)) < first
      BY <1>6, <1>18, <2>2
    <3>2. Now(p) \in r.seen \/ Newer(p, r.seen)
      <4>1. \/ Now(p) \in r.seen \/ Newer(p, r.seen)
            \/ first <= Cardinality(Preceding(p))
        BY <1>2, <1>18 DEF Stage, Found, first
      <4>2. QED
        BY <1>6, <3>1, <4>1
    <3>3. ASSUME NEW q \in fresh PROVE Now(q).at <= updated[p]
      <4>1. q \in PageOf(n) /\ q \in Opened
        BY <1>6, <1>7
      <4>2. Cardinality(Preceding(p)) < Cardinality(Preceding(q))
        BY <1>6, <3>1, <4>1
      <4>3. QED
        BY <1>6, <4>1, <4>2 DEF Now
    <3>4. QED
      BY <1>9, <1>10, <3>2, <3>3 DEF Newer
  <2>3. QED
    BY <2>1, <2>2
<1>19. ASSUME NEW p \in Opened, w.since < updated[p] PROVE Found(w, p)
  <2>1. r.since < updated[p]
    BY <1>14, <1>19
  <2>2. CASE to = "walk"
    <3>1. Now(p) \in found \/ Newer(p, found) \/ last <= Cardinality(Preceding(p))
      BY <1>6, <1>18, <2>1
    <3>2. (w.page - 1) * PullsPage = last
      BY <1>13, <1>14 DEF last
    <3>3. QED
      BY <1>14, <2>2, <3>1, <3>2 DEF Found
  <2>3. CASE to = "walked"
    <3>1. w.complete => Now(p) \in found \/ Newer(p, found)
      BY <1>15, <1>17, <1>18, <2>1, <2>3
    <3>2. QED
      BY <1>14, <2>3, <3>1 DEF Found
  <2>4. QED
    BY <1>11, <2>2, <2>3
<1>20. Stage(w)
  <2>1. ASSUME NEW x \in w.seen \cup w.chunk PROVE Seen(r, x)
    <3>1. CASE x \in r.seen \cup r.chunk
      BY <1>2, <3>1 DEF Stage
    <3>2. CASE x \notin r.seen \cup r.chunk
      <4>1. PICK p \in fresh : x = Now(p)
        BY <1>10, <1>14, <3>2
      <4>2. p \in Opened /\ p \in PageOf(n)
        BY <1>6, <1>7
      <4>3. r.since < updated[p]
        BY <1>8, <4>2
      <4>4. QED
        BY <1>4, <4>1, <4>2, <4>3 DEF Seen, Now
    <3>3. QED
      BY <3>1, <3>2
  <2>2. w.since = cursors[w.stream] /\ w.newest <= pullTime /\ w.newest = 0
    BY <1>2, <1>3, <1>14 DEF Stage
  <2>3. QED
    BY <1>11, <1>14, <1>19, <2>1, <2>2 DEF Stage, Seen
<1>21. QED
  BY <1>5, <1>14, <1>20, SyncMoves

\* A step that stores as well.
LEMMA StoreMoves ==
    ASSUME ArtifactInv, NEW c \in Syncs, NEW r \in Walks, Stage(r)',
           sync' = [sync EXCEPT ![c] = r], written' \in [Streams -> [Pulls -> Nat]],
           UNCHANGED <<updated, version, pullTime, cursors>>,
           \A s \in Streams, p \in Pulls :
              0 < updated[p] /\ updated[p] <= cursors[s] => written'[s][p] = version[p]
    PROVE  ArtifactInv'
<1>1. sync' \in [Syncs -> Walks] /\ \A d \in Syncs : sync'[d] = r
  BY OneWalk DEF ArtifactInv
<1>2. ArtifactTypes' /\ Behind' /\ NothingPassedOver'
  BY <1>1 DEF ArtifactInv, ArtifactTypes, Behind, NothingPassedOver
<1>3. \A d \in Syncs : Stage(sync[d])'
  BY <1>1
<1>4. QED
  BY <1>2, <1>3 DEF ArtifactInv

LEMMA StorePullsKeeps ==
    ASSUME ArtifactInv, NEW c \in Syncs, StorePulls(c) PROVE ArtifactInv'
<1>1. PICK r \in Walks : r = sync[c]
  BY DEF ArtifactInv, ArtifactTypes
<1>2. Stage(r) /\ r.at = "walked" /\ r.stream = "pull_requests"
  BY <1>1 DEF ArtifactInv, StorePulls
<1>3. /\ r.since = cursors[r.stream] /\ r.since \in Nat
      /\ \A x \in r.seen : /\ x \in Sightings /\ x.at \in Nat /\ x.pull \in Pulls /\ x.version \in Nat
                           /\ r.since < x.at /\ x.at <= updated[x.pull] /\ x.version <= version[x.pull]
  BY <1>2, WalksAre DEF Stage, Seen
<1>4. /\ updated \in [Pulls -> Nat] /\ version \in [Pulls -> Nat] /\ pullTime \in Nat
      /\ \A p \in Pulls : updated[p] <= pullTime
      /\ written \in [Streams -> [Pulls -> Nat]] /\ "pull_requests" \in Streams
      /\ UNCHANGED <<updated, version, pullTime, cursors>>
  BY DEF ArtifactInv, ArtifactTypes, Behind, StorePulls, Streams
<1> DEFINE Versions(p) == {x.version : x \in {y \in r.seen : y.pull = p}}
           dates  == {x.at : x \in r.seen} \cup {0}
           stored == [p \in Pulls |-> IF \E x \in r.seen : x.pull = p THEN Max(Versions(p))
                                      ELSE written["pull_requests"][p]]
           to     == IF r.seen # {} /\ r.complete THEN "advance" ELSE "rest"
           w      == [r EXCEPT !.at = to, !.newest = Max(dates), !.seen = {}]
<1>5. /\ sync' = [sync EXCEPT ![c] = w]
      /\ written' = [written EXCEPT !["pull_requests"] = stored]
  BY <1>1 DEF StorePulls
<1>6. ASSUME NEW p \in Pulls, NEW x \in r.seen, x.pull = p
      PROVE  /\ Max(Versions(p)) \in Nat
             /\ \A y \in r.seen : y.pull = p => y.version <= Max(Versions(p))
             /\ Max(Versions(p)) <= version[p]
  <2>1. Versions(p) \in SUBSET (0 .. version[p]) /\ version[p] \in Nat
    BY <1>3, <1>4
  <2>2. IsFiniteSet(Versions(p)) /\ Versions(p) \in SUBSET Nat
    <3>1. IsFiniteSet(0 .. version[p]) /\ 0 .. version[p] \subseteq Nat
      BY <2>1, FS_Interval
    <3> HIDE DEF Versions
    <3>2. QED
      BY <2>1, <3>1, FS_Subset
  <2>3. x.version \in Versions(p)
    BY <1>6
  <2>4. Max(Versions(p)) \in Versions(p) /\ \A m \in Versions(p) : m <= Max(Versions(p))
    BY <2>2, <2>3, MaxIs
  <2>5. QED
    BY <2>1, <2>4
<1>7. Max(dates) \in dates /\ Max(dates) \in Nat /\ \A m \in dates : m <= Max(dates)
  <2>1. dates \in SUBSET (0 .. pullTime) /\ dates # {}
    <3>1. \A x \in r.seen : x.at <= pullTime
      BY <1>3, <1>4
    <3>2. QED
      BY <1>3, <1>4, <3>1
  <2>2. IsFiniteSet(dates) /\ dates \in SUBSET Nat
    <3>1. IsFiniteSet(0 .. pullTime) /\ 0 .. pullTime \subseteq Nat
      BY <1>4, FS_Interval
    <3> HIDE DEF dates
    <3>2. QED
      BY <2>1, <3>1, FS_Subset
  <2>3. Max(dates) \in dates /\ \A m \in dates : m <= Max(dates)
    BY <2>1, <2>2, MaxIs
  <2>4. QED
    BY <2>2, <2>3
<1>8. /\ \A x \in r.seen : x.at <= Max(dates)
      /\ Max(dates) = 0 \/ \E x \in r.seen : Max(dates) = x.at
      /\ Max(dates) <= pullTime
  <2>1. Max(dates) = 0 \/ \E x \in r.seen : Max(dates) = x.at
    BY <1>7
  <2>2. \A x \in r.seen : x.at <= Max(dates) /\ x.at <= pullTime
    BY <1>3, <1>4, <1>7
  <2> HIDE DEF dates
  <2>3. QED
    BY <1>4, <1>7, <2>1, <2>2
<1>9. stored \in [Pulls -> Nat]
  BY <1>3, <1>4, <1>6
<1>10. written' \in [Streams -> [Pulls -> Nat]] /\ written'["pull_requests"] = stored
       /\ \A s \in Streams : s # "pull_requests" => written'[s] = written[s]
  BY <1>4, <1>5, <1>9
<1>11. /\ \A p \in Pulls : (\E x \in r.seen : x.pull = p) => stored[p] = Max(Versions(p))
       /\ \A p \in Pulls : ~(\E x \in r.seen : x.pull = p) => stored[p] = written["pull_requests"][p]
  OBVIOUS
<1>12. {} \in Sets
  BY FS_EmptySet DEF Sets
<1>13. /\ w \in Walks /\ w.at = to /\ w.stream = "pull_requests" /\ w.since = r.since
       /\ w.seen = {} /\ w.chunk = r.chunk /\ w.newest = Max(dates)
  BY <1>2, <1>7, <1>12 DEF Walks
<1>14. (to = "advance" /\ r.complete /\ r.seen # {}) \/ to = "rest"
  OBVIOUS
<1> HIDE DEF stored, dates, Versions, to, w
<1>15. ASSUME NEW p \in Opened, w.since < updated[p] PROVE Found(w, p)'
  <2>1. CASE to = "rest"
    BY <1>13, <2>1 DEF Found
  <2>2. CASE to = "advance"
    <3>1. Now(p) \in r.seen \/ Newer(p, r.seen)
      BY <1>2, <1>13, <1>14, <1>15, <2>2 DEF Stage, Found
    <3>2. p \in Pulls /\ updated[p] \in Nat /\ version[p] \in Nat
      BY <1>4 DEF Opened
    <3>3. CASE Now(p) \in r.seen
      <4>1. Now(p).pull = p /\ Now(p).version = version[p]
        BY DEF Now
      <4>2. /\ stored[p] = Max(Versions(p)) /\ Max(Versions(p)) \in Nat
            /\ version[p] <= Max(Versions(p)) /\ Max(Versions(p)) <= version[p]
        <5>1. \E x \in r.seen : x.pull = p
          BY <3>3, <4>1
        <5>2. stored[p] = Max(Versions(p))
          BY <1>11, <3>2, <5>1
        <5>3. /\ Max(Versions(p)) \in Nat /\ Max(Versions(p)) <= version[p]
              /\ \A y \in r.seen : y.pull = p => y.version <= Max(Versions(p))
          BY <1>6, <3>2, <5>1
        <5>4. version[p] <= Max(Versions(p))
          BY <3>3, <4>1, <5>3
        <5>5. QED
          BY <5>2, <5>3, <5>4, Zenon
      <4>3. written'[w.stream][p] = version'[p]
        <5>1. stored[p] = version[p]
          BY <3>2, <4>2
        <5>2. QED
          BY <1>4, <1>10, <1>13, <5>1
      <4>4. QED
        BY <1>13, <2>2, <4>3 DEF Found
    <3>4. CASE Newer(p, r.seen)
      <4>1. w.newest <= updated'[p]
        BY <1>4, <1>8, <1>13, <3>2, <3>4 DEF Newer
      <4>2. QED
        BY <1>13, <2>2, <4>1 DEF Found
    <3>5. QED
      BY <3>1, <3>3, <3>4
  <2>3. QED
    BY <1>14, <2>1, <2>2
<1>16. Stage(w)'
  <2>1. /\ w.since = cursors'[w.stream] /\ w.newest <= pullTime'
        /\ w.at = "advance" => w.newest # 0
    <3>1. ASSUME r.seen # {} PROVE Max(dates) # 0
      BY <1>3, <1>7, <1>8, <3>1
    <3>2. QED
      BY <1>2, <1>3, <1>4, <1>8, <1>13, <1>14, <3>1
  <2>2. \A x \in w.seen \cup w.chunk : Seen(w, x)'
    BY <1>2, <1>4, <1>13 DEF Stage, Seen
  <2>3. w.at \in {"advance", "rest"}
    BY <1>13, <1>14
  <2>4. Opened' = Opened /\ \A p \in Opened : w.since < updated'[p] => Found(w, p)'
    BY <1>4, <1>15 DEF Opened
  <2>5. QED
    BY <2>1, <2>2, <2>3, <2>4 DEF Stage
<1>17. ASSUME NEW s \in Streams, NEW p \in Pulls, 0 < updated[p], updated[p] <= cursors[s]
       PROVE  written'[s][p] = version[p]
  <2>1. written[s][p] = version[p]
    BY <1>17 DEF ArtifactInv, NothingPassedOver
  <2>2. CASE s = "pull_requests"
    <3>1. ASSUME NEW x \in r.seen, x.pull = p PROVE FALSE
      <4>1. cursors[s] = r.since /\ updated[p] \in Nat
        BY <1>2, <1>3, <1>4, <2>2
      <4>2. QED
        BY <1>3, <1>17, <3>1, <4>1
    <3>2. QED
      BY <1>10, <1>11, <2>1, <2>2, <3>1
  <2>3. QED
    BY <1>10, <2>1, <2>2
<1>18. QED
  BY <1>4, <1>5, <1>10, <1>13, <1>16, <1>17, StoreMoves

\* The reviews of the oldest of the chunk: what is left is no older.
LEMMA ReadReviewsKeeps ==
    ASSUME ArtifactInv, NEW c \in Syncs, ReadReviews(c) PROVE ArtifactInv'
<1>1. PICK r \in Walks : r = sync[c]
  BY DEF ArtifactInv, ArtifactTypes
<1>2. Stage(r) /\ r.at = "chunk" /\ r.stream = "reviews"
  BY <1>1 DEF ArtifactInv, ReadReviews, Stage
<1>3. PICK next \in r.chunk :
         /\ \A x \in r.chunk : next.at <= x.at
         /\ written' = [written EXCEPT !["reviews"][next.pull] = version[next.pull]]
         /\ sync' = [sync EXCEPT ![c] = [sync[c] EXCEPT !.chunk = sync[c].chunk \ {next},
                                                        !.newest = next.at]]
  BY <1>1 DEF ReadReviews, OldestFirst
<1> DEFINE w == [r EXCEPT !.chunk = r.chunk \ {next}, !.newest = next.at]
<1>4. /\ sync' = [sync EXCEPT ![c] = w] /\ UNCHANGED <<updated, version, pullTime, cursors>>
      /\ updated \in [Pulls -> Nat] /\ version \in [Pulls -> Nat] /\ pullTime \in Nat
      /\ \A p \in Pulls : updated[p] <= pullTime
      /\ written \in [Streams -> [Pulls -> Nat]] /\ "reviews" \in Streams
  BY <1>1, <1>3 DEF ArtifactInv, ArtifactTypes, Behind, ReadReviews, Streams
<1>5. /\ next.pull \in Pulls /\ next.at \in Nat /\ next.at <= updated[next.pull]
      /\ r.chunk \subseteq Sightings /\ IsFiniteSet(r.chunk)
  BY <1>2, <1>3, WalksAre DEF Stage, Seen
<1>6. next.at <= pullTime
  BY <1>4, <1>5
<1>7. r.chunk \ {next} \in Sets
  BY <1>5, FS_RemoveElement DEF Sets
<1>8. /\ w \in Walks /\ w.at = "chunk" /\ w.stream = "reviews" /\ w.since = r.since
      /\ w.seen = r.seen /\ w.chunk = r.chunk \ {next} /\ w.newest = next.at
      /\ w.complete = r.complete
  BY <1>2, <1>5, <1>7 DEF Walks
<1> HIDE DEF w
<1>9. /\ written' \in [Streams -> [Pulls -> Nat]]
      /\ written'["reviews"][next.pull] = version[next.pull]
      /\ \A p \in Pulls : p # next.pull => written'["reviews"][p] = written["reviews"][p]
      /\ \A s \in Streams : s # "reviews" => written'[s] = written[s]
  <2>1. version[next.pull] \in Nat
    BY <1>4, <1>5
  <2>2. QED
    BY <1>3, <1>4, <1>5, <2>1
<1>10. ASSUME NEW p \in Opened, w.since < updated[p] PROVE Found(w, p)'
  <2>1. p \in Pulls /\ updated[p] \in Nat
    BY <1>4 DEF Opened
  <2>2. ASSUME r.complete
        PROVE  \/ Now(p) \in r.chunk \ {next} \/ written'["reviews"][p] = version[p]
               \/ Newer(p, r.chunk \ {next}) /\ next.at <= updated[p]
    <3>1. \/ Now(p) \in r.chunk \/ written["reviews"][p] = version[p]
          \/ Newer(p, r.chunk) /\ r.newest <= updated[p]
      BY <1>2, <1>8, <1>10, <2>2 DEF Stage, Found
    <3>2. CASE p = next.pull
      BY <1>9, <3>2
    <3>3. CASE p # next.pull
      <4>1. Now(p) # next
        BY <3>3 DEF Now
      <4>2. Newer(p, r.chunk) => Newer(p, r.chunk \ {next}) /\ next.at <= updated[p]
        BY <1>3 DEF Newer
      <4>3. QED
        BY <1>9, <2>1, <3>1, <3>3, <4>1, <4>2
    <3>4. QED
      BY <3>2, <3>3
  <2>3. QED
    BY <1>4, <1>8, <2>2 DEF Found, Now, Newer
<1>11. Stage(w)'
  <2>1. w.since = cursors'[w.stream] /\ w.newest <= pullTime'
    BY <1>2, <1>4, <1>6, <1>8 DEF Stage
  <2>2. \A x \in w.seen \cup w.chunk : Seen(w, x)'
    BY <1>2, <1>4, <1>8 DEF Stage, Seen
  <2>3. Opened' = Opened /\ \A p \in Opened : w.since < updated'[p] => Found(w, p)'
    BY <1>4, <1>10 DEF Opened
  <2>4. QED
    BY <1>8, <2>1, <2>2, <2>3 DEF Stage
<1>12. ASSUME NEW s \in Streams, NEW p \in Pulls, 0 < updated[p], updated[p] <= cursors[s]
       PROVE  written'[s][p] = version[p]
  <2>1. written[s][p] = version[p]
    BY <1>12 DEF ArtifactInv, NothingPassedOver
  <2>2. QED
    BY <1>9, <2>1
<1>13. QED
  BY <1>4, <1>8, <1>9, <1>11, <1>12, StoreMoves
-----------------------------------------------------------------------------
(* The invariant, and what it shows.                                        *)

LEMMA ArtifactBegins == ArtifactInit => ArtifactInv
<1> SUFFICES ASSUME ArtifactInit PROVE ArtifactInv
  OBVIOUS
<1>1. ArtifactTypes
  BY NoStreamIs DEF ArtifactInit, ArtifactTypes
<1>2. Behind /\ NothingPassedOver
  BY DEF ArtifactInit, Behind, NothingPassedOver
<1>3. \A c \in Syncs : Stage(sync[c])
  BY <1>1, NoStreamIs DEF ArtifactInit
<1>4. QED
  BY <1>1, <1>2, <1>3 DEF ArtifactInv

LEMMA ArtifactKeeps == ArtifactInv /\ [ArtifactNext]_artifactVars => ArtifactInv'
<1> SUFFICES ASSUME ArtifactInv, [ArtifactNext]_artifactVars PROVE ArtifactInv'
  OBVIOUS
<1>1. CASE \E q \in Pulls : PullChanges(q)
  BY <1>1, PullChangesKeeps
<1>2. CASE PullClock
  BY <1>2, PullClockKeeps
<1>3. ASSUME NEW c \in Syncs,
             \/ StartStream(c) \/ ReadPage(c) \/ StorePulls(c) \/ TakeChunk(c) \/ ReadReviews(c)
             \/ EndReviews(c) \/ ReadMetadata(c) \/ CommitMetadata(c) \/ StreamFails(c)
      PROVE  ArtifactInv'
  BY <1>3, StartStreamKeeps, ReadPageKeeps, StorePullsKeeps, TakeChunkKeeps, ReadReviewsKeeps,
     EndReviewsKeeps, ReadMetadataKeeps, CommitMetadataKeeps, StreamFailsKeeps
<1>4. CASE UNCHANGED artifactVars
  <2>1. ArtifactTypes' /\ Behind' /\ NothingPassedOver'
    BY <1>4 DEF artifactVars, ArtifactInv, ArtifactTypes, Behind, NothingPassedOver
  <2>2. Opened' = Opened /\ \A p : Preceding(p)' = Preceding(p)
    BY <1>4 DEF artifactVars, Opened, Preceding
  <2>3. \A c \in Syncs : Stage(sync[c])'
    BY <1>4, <2>2 DEF artifactVars, ArtifactInv, Stage, Seen, Found, Now, Newer
  <2>4. QED
    BY <2>1, <2>3 DEF ArtifactInv
<1>5. QED
  BY <1>1, <1>2, <1>3, <1>4 DEF ArtifactNext

\* artifact_sync.py, _sync_pull_requests and _sync_reviews: whatever moves while
\* a list is walked, however the chunks fall and wherever a stream fails, a pull
\* request whose last change lies at or below a stream's watermark has been stored
\* as it is.
THEOREM NothingPassedOverHolds == ArtifactSpec => []NothingPassedOver
<1>1. ArtifactInit => ArtifactInv
  BY ArtifactBegins
<1>2. ArtifactInv /\ [ArtifactNext]_artifactVars => ArtifactInv'
  BY ArtifactKeeps
<1>3. ArtifactInv => NothingPassedOver
  BY DEF ArtifactInv
<1>4. QED
  BY <1>1, <1>2, <1>3, PTL DEF ArtifactSpec
=============================================================================
