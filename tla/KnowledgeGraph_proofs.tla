------------------------- MODULE KnowledgeGraph_proofs -------------------------
(* What the knowledge graph is made of, for every instance: the history that  *)
(* temporal validity folds out of claims that disagree, the writes that reach *)
(* the graph through the batcher, and the entities that resolution merges and *)
(* takes apart again.                                                         *)
EXTENDS TemporalValidity, EntityResolution, WriteBatcher, SequenceTheorems,
        FiniteSetTheorems, WellFoundedInduction, TLAPS

-----------------------------------------------------------------------------
(* Induction, over a set instead of a formula: what holds of 0 and of every   *)
(* successor up to n holds up to n.                                           *)

LEMMA UpTo ==
    ASSUME NEW S, NEW n \in Nat, 0 \in S, \A k \in 0..(n - 1) : k \in S => k + 1 \in S
    PROVE  0..n \subseteq S
<1> SUFFICES ASSUME (0..n) \ S # {} PROVE FALSE
  OBVIOUS
<1> DEFINE T == (0..n) \ S
           below == {pair \in Nat \X Nat : pair[1] < pair[2]}
<1>1. IsWellFoundedOn(below, Nat)
  BY NatLessThanWellFounded DEF OpToRel
<1>2. T \subseteq Nat /\ T # {}
  OBVIOUS
<1> HIDE DEF T, below
<1>3. PICK x \in T : \A y \in T : <<y, x>> \notin below
  BY <1>1, <1>2, WFMin
<1>4. x \in 0..n /\ x \notin S
  BY DEF T
<1>5. x - 1 \in 0..(n - 1)
  BY <1>4
<1>6. x - 1 \notin T
  <2>1. x \in Nat /\ x - 1 \in Nat /\ x - 1 < x
    BY <1>4, <1>5
  <2>2. <<x - 1, x>> \in below
    BY <2>1 DEF below
  <2>3. QED
    BY <1>3, <2>2
<1>7. x - 1 \in S /\ (x - 1) + 1 = x
  BY <1>4, <1>5, <1>6 DEF T
<1>8. QED
  BY <1>4, <1>5, <1>7

\* What Total computes: f is the sum of each prefix.
Sums(f, deltas) ==
    /\ f \in [0..Len(deltas) -> Nat]
    /\ f[0] = 0
    /\ \A n \in 1..Len(deltas) : f[n] = f[n - 1] + deltas[n]

LEMMA SumsExist ==
    ASSUME NEW deltas \in Seq(Nat)
    PROVE  \E f : Sums(f, deltas)
<1> DEFINE Upto(n, f) == /\ f \in [0..n -> Nat] /\ f[0] = 0
                         /\ \A k \in 1..n : f[k] = f[k - 1] + deltas[k]
           S == {n \in 0..Len(deltas) : \E f : Upto(n, f)}
<1>1. 0 \in S
  <2>1. Upto(0, [k \in 0..0 |-> 0])
    OBVIOUS
  <2>2. 0 \in 0..Len(deltas)
    OBVIOUS
  <2>3. QED
    BY <2>1, <2>2
<1>2. ASSUME NEW n \in 0..(Len(deltas) - 1), n \in S PROVE n + 1 \in S
  <2>1. PICK f : Upto(n, f)
    BY <1>2
  <2> DEFINE g == [k \in 0..(n + 1) |-> IF k = n + 1 THEN f[n] + deltas[n + 1] ELSE f[k]]
  <2>2. n + 1 \in 1..Len(deltas) /\ deltas[n + 1] \in Nat /\ n \in Nat /\ f[n] \in Nat
    BY <2>1
  <2>3. g \in [0..(n + 1) -> Nat] /\ g[0] = 0
    BY <2>1, <2>2
  <2>4. ASSUME NEW k \in 1..(n + 1) PROVE g[k] = g[k - 1] + deltas[k]
    <3>1. CASE k = n + 1
      BY <2>2, <3>1
    <3>2. CASE k \in 1..n
      <4>1. k \in 0..(n + 1) /\ k - 1 \in 0..(n + 1) /\ k # n + 1 /\ k - 1 # n + 1
        BY <2>2, <3>2
      <4>2. g[k] = f[k] /\ g[k - 1] = f[k - 1]
        BY <4>1
      <4>3. QED
        BY <2>1, <3>2, <4>2
    <3>3. QED
      BY <2>2, <3>1, <3>2
  <2>5. Upto(n + 1, g)
    BY <2>3, <2>4
  <2> HIDE DEF Upto
  <2>6. QED
    BY <2>2, <2>5
<1> HIDE DEF S
<1>3. 0..Len(deltas) \subseteq S
  <2>1. Len(deltas) \in Nat
    OBVIOUS
  <2>2. QED
    BY <1>1, <1>2, <2>1, UpTo
<1>4. Len(deltas) \in S
  BY <1>3
<1>5. QED
  BY <1>4 DEF S, Sums

LEMMA SumsAgree ==
    ASSUME NEW s \in Seq(Nat), NEW t \in Seq(Nat), NEW f, NEW g, Sums(f, s), Sums(g, t),
           NEW n \in 0..Len(s), n <= Len(t), \A i \in 1..n : s[i] = t[i]
    PROVE  f[n] = g[n]
<1> DEFINE S == {k \in 0..n : f[k] = g[k]}
<1>1. 0 \in S
  BY DEF Sums
<1>2. ASSUME NEW k \in 0..(n - 1), k \in S PROVE k + 1 \in S
  <2>1. k + 1 \in 1..n /\ k + 1 \in 1..Len(s) /\ k + 1 \in 1..Len(t) /\ (k + 1) - 1 = k
    BY <1>2
  <2>2. f[k + 1] = f[k] + s[k + 1] /\ g[k + 1] = g[k] + t[k + 1] /\ f[k] = g[k]
    BY <1>2, <2>1 DEF Sums
  <2>3. QED
    BY <2>1, <2>2
<1> HIDE DEF S
<1>3. 0..n \subseteq S
  <2>1. n \in Nat
    OBVIOUS
  <2>2. QED
    BY <1>1, <1>2, <2>1, UpTo
<1>4. QED
  BY <1>3 DEF S

\* Total is the sum.
LEMMA TotalIs ==
    ASSUME NEW deltas \in Seq(Nat), NEW f, Sums(f, deltas)
    PROVE  Total(deltas) = f[Len(deltas)]
<1> DEFINE Def(g) == g = [n \in 0..Len(deltas) |-> IF n = 0 THEN 0 ELSE g[n - 1] + deltas[n]]
<1>1. Def(f)
  BY DEF Sums
<1> DEFINE sum == CHOOSE g : Def(g)
<1>2. Def(sum)
  BY <1>1
<1>3. Total(deltas) = sum[Len(deltas)]
  BY DEF Total
<1> HIDE DEF sum
<1> DEFINE S == {k \in 0..Len(deltas) : sum[k] = f[k]}
<1>4. 0 \in S
  <2>1. 0 \in 0..Len(deltas)
    OBVIOUS
  <2>2. sum[0] = 0
    BY <1>2, <2>1
  <2>3. QED
    BY <2>1, <2>2 DEF Sums
<1>5. ASSUME NEW k \in 0..(Len(deltas) - 1), k \in S PROVE k + 1 \in S
  <2>1. k + 1 \in 0..Len(deltas) /\ k + 1 \in 1..Len(deltas) /\ k + 1 # 0 /\ (k + 1) - 1 = k
    BY <1>5
  <2>2. sum[k + 1] = sum[(k + 1) - 1] + deltas[k + 1]
    BY <1>2, <2>1
  <2>3. f[k + 1] = f[(k + 1) - 1] + deltas[k + 1]
    BY <2>1 DEF Sums
  <2>4. QED
    BY <1>5, <2>1, <2>2, <2>3
<1> HIDE DEF S
<1>6. 0..Len(deltas) \subseteq S
  <2>1. Len(deltas) \in Nat
    OBVIOUS
  <2>2. QED
    BY <1>4, <1>5, <2>1, UpTo
<1>7. QED
  BY <1>3, <1>6 DEF S

\* The sum over two sequences in a row.
LEMMA TotalOfBoth ==
    ASSUME NEW s \in Seq(Nat), NEW t \in Seq(Nat)
    PROVE  /\ Total(s) \in Nat /\ Total(t) \in Nat
           /\ Total(s \o t) = Total(s) + Total(t)
<1>1. PICK f : Sums(f, s)
  BY SumsExist
<1>2. PICK g : Sums(g, t)
  BY SumsExist
<1>3. /\ s \o t \in Seq(Nat) /\ Len(s \o t) = Len(s) + Len(t) /\ Len(s) \in Nat /\ Len(t) \in Nat
      /\ \A i \in 1..Len(s) : (s \o t)[i] = s[i]
      /\ \A i \in 1..Len(t) : (s \o t)[Len(s) + i] = t[i]
  OBVIOUS
<1> DEFINE u == s \o t
<1> HIDE DEF u
<1>4. PICK h : Sums(h, u)
  BY <1>3, SumsExist DEF u
<1>5. h[Len(s)] = f[Len(s)]
  <2>1. u \in Seq(Nat) /\ Len(s) \in 0..Len(u) /\ Len(s) <= Len(s) /\ \A i \in 1..Len(s) : u[i] = s[i]
    BY <1>3 DEF u
  <2>2. QED
    BY <1>1, <1>4, <2>1, SumsAgree
<1> DEFINE S == {k \in 0..Len(t) : h[Len(s) + k] = f[Len(s)] + g[k]}
<1>6. f[Len(s)] \in Nat /\ \A k \in 0..Len(t) : g[k] \in Nat
  <2>1. f \in [0..Len(s) -> Nat] /\ g \in [0..Len(t) -> Nat]
    BY <1>1, <1>2 DEF Sums
  <2>2. Len(s) \in 0..Len(s)
    BY <1>3
  <2>3. QED
    BY <2>1, <2>2
<1>7. 0 \in S
  <2>1. g[0] = 0 /\ Len(s) + 0 = Len(s) /\ 0 \in 0..Len(t)
    BY <1>2, <1>3 DEF Sums
  <2>2. QED
    BY <1>5, <1>6, <2>1
<1>8. ASSUME NEW k \in 0..(Len(t) - 1), k \in S PROVE k + 1 \in S
  <2>1. /\ k + 1 \in 0..Len(t) /\ k + 1 \in 1..Len(t) /\ (k + 1) - 1 = k
        /\ Len(s) + (k + 1) \in 1..Len(u) /\ (Len(s) + (k + 1)) - 1 = Len(s) + k
        /\ k \in 0..Len(t) /\ t[k + 1] \in Nat
    BY <1>3, <1>8 DEF u
  <2>2. h[Len(s) + (k + 1)] = h[(Len(s) + (k + 1)) - 1] + u[Len(s) + (k + 1)]
    BY <1>4, <2>1 DEF Sums
  <2>3. g[k + 1] = g[(k + 1) - 1] + t[k + 1]
    BY <1>2, <2>1 DEF Sums
  <2>4. u[Len(s) + (k + 1)] = t[k + 1]
    BY <1>3, <2>1 DEF u
  <2>5. h[Len(s) + (k + 1)] = (f[Len(s)] + g[k]) + t[k + 1]
    BY <1>8, <2>1, <2>2, <2>4
  <2>6. h[Len(s) + (k + 1)] = f[Len(s)] + g[k + 1]
    BY <1>6, <2>1, <2>3, <2>5
  <2>7. QED
    BY <2>1, <2>6
<1> HIDE DEF S
<1>9. 0..Len(t) \subseteq S
  BY <1>3, <1>7, <1>8, UpTo
<1>10. h[Len(s) + Len(t)] = f[Len(s)] + g[Len(t)]
  <2>1. Len(t) \in 0..Len(t)
    BY <1>3
  <2>2. QED
    BY <1>9, <2>1 DEF S
<1>11. Total(s) = f[Len(s)] /\ Total(t) = g[Len(t)]
  BY <1>1, <1>2, TotalIs
<1>12. Total(u) = h[Len(u)]
  BY <1>3, <1>4, TotalIs DEF u
<1>13. QED
  BY <1>3, <1>6, <1>10, <1>11, <1>12 DEF u
-----------------------------------------------------------------------------
(* Temporal validity.                                                       *)

\* What the history is made of.
Entry == [from : Nat, to : 0..OpenEnd, value : Nat, confidence : Nat, seen : Nat, source : Nat]

\* The history has one answer at most for every instant, in order.
InOrder(h) == \A i, j \in DOMAIN h : i < j => h[i].to <= h[j].from
\* It says nothing that no source said.
Founded(h) ==
    \A i \in DOMAIN h : \A t \in h[i].from..(h[i].to - 1) :
        \E a \in claims : Says(a, t, h[i].value)
\* What is said is in the history, or a contradiction keeps it.
Kept(a, h, lost) ==
    \A t \in a.from..(a.to - 1) :
        \/ \E i \in DOMAIN h : Says(h[i], t, a.value)
        \/ \E c \in lost : Says(c.loser, t, a.value)

\* The inductive invariant: only the last entry can meet a claim that is still to
\* be folded, because none of those starts before it.
ValidityInv ==
    /\ claims \subseteq Claims /\ todo \subseteq claims
    /\ history \in Seq(Entry)
    /\ \A i \in DOMAIN history : history[i].from < history[i].to
    /\ history # <<>> => \A a \in todo : history[Len(history)].from <= a.from
    /\ InOrder(history)
    /\ Founded(history)
    /\ \A a \in claims \ todo : Kept(a, history, conflicts)

\* The order of the fold is that of valid time.
LEMMA FirstStartsFirst ==
    ASSUME NEW a \in Entry, NEW b \in Entry, SortsFirst(a, b)
    PROVE  a.from <= b.from
<1>1. PICK i \in 1..5 : /\ SortKey(a)[i] < SortKey(b)[i]
                        /\ \A j \in 1..(i - 1) : SortKey(a)[j] = SortKey(b)[j]
  BY DEF SortsFirst
<1>2. SortKey(a)[1] = a.from /\ SortKey(b)[1] = b.from
  BY DEF SortKey
<1>3. CASE i = 1
  BY <1>1, <1>2, <1>3 DEF Entry
<1>4. CASE i # 1
  <2>1. 1 \in 1..(i - 1)
    BY <1>4
  <2>2. QED
    BY <1>1, <1>2, <2>1 DEF Entry
<1>5. QED
  BY <1>3, <1>4

LEMMA EntryIsTimed ==
    ASSUME NEW e \in Entry
    PROVE  e.from \in Nat /\ e.to \in Nat /\ e.to <= OpenEnd
<1>1. OpenEnd \in Nat
  BY ClaimsAssumption
<1>2. QED
  BY <1>1 DEF Entry

\* A claim is an entry that is not empty.
LEMMA ClaimIsEntry ==
    ASSUME NEW a \in Claims
    PROVE  a \in Entry /\ a.from < a.to
BY ClaimsAssumption DEF Entry

LEMMA MaxOfTwo ==
    ASSUME NEW x \in Nat, NEW y \in Nat
    PROVE  /\ Max({x, y}) \in {x, y} /\ x <= Max({x, y}) /\ y <= Max({x, y})
           /\ Min({x, y}) \in {x, y}
<1>1. \E m \in {x, y} : \A n \in {x, y} : m >= n
  <2>1. CASE x >= y
    BY <2>1
  <2>2. CASE y >= x
    BY <2>2
  <2>3. QED
    BY <2>1, <2>2
<1>2. \E m \in {x, y} : \A n \in {x, y} : m <= n
  <2>1. CASE x >= y
    BY <2>1
  <2>2. CASE y >= x
    BY <2>2
  <2>3. QED
    BY <2>1, <2>2
<1>3. Max({x, y}) \in {x, y} /\ \A n \in {x, y} : Max({x, y}) >= n
  BY <1>1 DEF Max
<1>4. Min({x, y}) \in {x, y}
  BY <1>2 DEF Min
<1>5. QED
  BY <1>3, <1>4

\* absorb: the union of two intervals of one value that overlap or meet.
LEMMA AbsorbJoins ==
    ASSUME NEW e \in Entry, NEW a \in Entry, e.from < e.to, a.from < a.to, e.from <= a.from,
           Overlaps(e, a) \/ Meets(e, a)
    PROVE  /\ Absorb(e, a) \in Entry
           /\ Absorb(e, a).from = e.from /\ Absorb(e, a).value = e.value
           /\ e.to <= Absorb(e, a).to /\ a.to <= Absorb(e, a).to
           /\ \A t \in e.from..(Absorb(e, a).to - 1) : Covers(e, t) \/ Covers(a, t)
<1> DEFINE to == Max({e.to, a.to})
           conf == Max({e.confidence, a.confidence})
           seen == Min({e.seen, a.seen})
<1>0. /\ e.to \in Nat /\ a.to \in Nat /\ e.to <= OpenEnd /\ a.to <= OpenEnd
      /\ e.confidence \in Nat /\ a.confidence \in Nat /\ e.seen \in Nat /\ a.seen \in Nat
      /\ e.from \in Nat /\ a.from \in Nat
  BY ClaimsAssumption DEF Entry
<1>1. to \in {e.to, a.to} /\ e.to <= to /\ a.to <= to
  BY <1>0, MaxOfTwo
<1>2. conf \in Nat
  BY <1>0, MaxOfTwo
<1>3. seen \in Nat
  BY <1>0, MaxOfTwo
<1>4. Absorb(e, a) = [e EXCEPT !.to = to, !.confidence = conf, !.seen = seen]
  BY DEF Absorb
<1> HIDE DEF to, conf, seen
<1>5. Absorb(e, a) \in Entry /\ Absorb(e, a).from = e.from /\ Absorb(e, a).value = e.value
      /\ Absorb(e, a).to = to
  BY <1>0, <1>1, <1>2, <1>3, <1>4 DEF Entry
<1>6. a.from <= e.to
  BY <1>0 DEF Overlaps, Meets
<1>7. \A t \in e.from..(to - 1) : Covers(e, t) \/ Covers(a, t)
  BY <1>0, <1>1, <1>6 DEF Covers
<1>8. QED
  BY <1>1, <1>5, <1>7

\* What a fold leaves behind it, apart from the claims it took.
Sound(h) ==
    /\ h \in Seq(Entry)
    /\ \A i \in DOMAIN h : h[i].from < h[i].to
    /\ InOrder(h)
    /\ Founded(h)

LastOf(h) == h[Len(h)]
Replaced(h, b) == [h EXCEPT ![Len(h)] = b]

\* A claim after the last entry.
LEMMA AppendIsSound ==
    ASSUME NEW h, Sound(h), NEW a \in claims, a \in Entry, a.from < a.to,
           h # <<>> => LastOf(h).to <= a.from
    PROVE  /\ Sound(Append(h, a))
           /\ Len(Append(h, a)) = Len(h) + 1 /\ LastOf(Append(h, a)) = a
           /\ DOMAIN h \subseteq DOMAIN Append(h, a)
           /\ \A i \in DOMAIN h : Append(h, a)[i] = h[i]
<1> DEFINE g == Append(h, a)
<1>0. h \in Seq(Entry) /\ Len(h) \in Nat /\ DOMAIN h = 1..Len(h)
  BY DEF Sound
<1>1. /\ g \in Seq(Entry) /\ Len(g) = Len(h) + 1 /\ DOMAIN g = 1..(Len(h) + 1)
      /\ \A i \in DOMAIN h : g[i] = h[i]
      /\ g[Len(h) + 1] = a
  BY <1>0
<1> HIDE DEF g
<1>2. ASSUME NEW i \in DOMAIN g PROVE g[i].from < g[i].to
  <2>1. CASE i = Len(h) + 1
    BY <1>1, <2>1
  <2>2. CASE i \in DOMAIN h
    BY <1>1, <2>2 DEF Sound
  <2>3. QED
    BY <1>0, <1>1, <2>1, <2>2
<1>3. InOrder(g)
  <2>1. SUFFICES ASSUME NEW i \in DOMAIN g, NEW j \in DOMAIN g, i < j
                 PROVE  g[i].to <= g[j].from
    BY DEF InOrder
  <2>2. i \in DOMAIN h
    BY <1>0, <1>1, <2>1
  <2>3. CASE j \in DOMAIN h
    BY <1>1, <2>1, <2>2, <2>3 DEF Sound, InOrder
  <2>4. CASE j = Len(h) + 1
    <3>1. h # <<>> /\ Len(h) \in DOMAIN h /\ g[j] = a /\ g[i] = h[i]
      BY <1>0, <1>1, <2>2, <2>4
    <3>2. CASE i = Len(h)
      BY <3>1, <3>2 DEF LastOf
    <3>3. CASE i < Len(h)
      <4>1. h[i].to <= h[Len(h)].from /\ h[Len(h)].from < h[Len(h)].to
        BY <2>2, <3>1, <3>3 DEF Sound, InOrder
      <4>2. h[Len(h)].to <= a.from
        BY <3>1 DEF LastOf
      <4>3. h[i] \in Entry /\ h[Len(h)] \in Entry
        BY <1>0, <2>2, <3>1
      <4>4. /\ h[i].to \in Int /\ h[Len(h)].to \in Int /\ h[Len(h)].from \in Int
            /\ a.from \in Int
        BY <4>3, EntryIsTimed
      <4>5. QED
        BY <3>1, <4>1, <4>2, <4>4
    <3>4. QED
      BY <1>0, <2>2, <3>2, <3>3
  <2>5. QED
    BY <1>0, <1>1, <2>3, <2>4
<1>4. Founded(g)
  <2>1. SUFFICES ASSUME NEW i \in DOMAIN g, NEW t \in g[i].from..(g[i].to - 1)
                 PROVE  \E c \in claims : Says(c, t, g[i].value)
    BY DEF Founded
  <2>2. CASE i = Len(h) + 1
    <3>1. a.from \in Int /\ a.to \in Int
      BY EntryIsTimed
    <3>2. Says(a, t, g[i].value)
      BY <1>1, <2>1, <2>2, <3>1 DEF Says, Covers
    <3>3. QED
      BY <3>2
  <2>3. CASE i \in DOMAIN h
    BY <1>1, <2>1, <2>3 DEF Sound, Founded
  <2>4. QED
    BY <1>0, <1>1, <2>2, <2>3
<1>5. DOMAIN h \subseteq DOMAIN g /\ LastOf(g) = a
  BY <1>0, <1>1 DEF LastOf
<1>6. QED
  BY <1>1, <1>2, <1>3, <1>4, <1>5 DEF Sound, g

\* Another last entry, with the same start.
LEMMA ReplaceIsSound ==
    ASSUME NEW h, Sound(h), h # <<>>, NEW b \in Entry, b.from = LastOf(h).from, b.from < b.to,
           \A t \in b.from..(b.to - 1) : \E c \in claims : Says(c, t, b.value)
    PROVE  /\ Sound(Replaced(h, b))
           /\ Len(Replaced(h, b)) = Len(h) /\ LastOf(Replaced(h, b)) = b
           /\ Replaced(h, b) # <<>>
           /\ DOMAIN Replaced(h, b) = DOMAIN h /\ Len(h) \in DOMAIN h
           /\ \A i \in DOMAIN h : i # Len(h) => Replaced(h, b)[i] = h[i]
<1> DEFINE g == Replaced(h, b)
<1>0. h \in Seq(Entry) /\ Len(h) \in Nat \ {0} /\ DOMAIN h = 1..Len(h)
  BY DEF Sound
<1>1. /\ g \in Seq(Entry) /\ Len(g) = Len(h) /\ DOMAIN g = DOMAIN h
      /\ \A i \in DOMAIN h : i # Len(h) => g[i] = h[i]
      /\ g[Len(h)] = b /\ Len(h) \in DOMAIN h /\ g # <<>>
  BY <1>0 DEF Replaced
<1> HIDE DEF g
<1>2. ASSUME NEW i \in DOMAIN g PROVE g[i].from < g[i].to /\ g[i].from = h[i].from
  <2>1. CASE i = Len(h)
    BY <1>1, <2>1 DEF LastOf
  <2>2. CASE i # Len(h)
    BY <1>1, <1>2, <2>2 DEF Sound
  <2>3. QED
    BY <2>1, <2>2
<1>3. InOrder(g)
  <2>1. SUFFICES ASSUME NEW i \in DOMAIN g, NEW j \in DOMAIN g, i < j
                 PROVE  g[i].to <= g[j].from
    BY DEF InOrder
  <2>2. i # Len(h)
    BY <1>0, <1>1, <2>1
  <2>3. h[i].to <= h[j].from
    BY <1>1, <2>1 DEF Sound, InOrder
  <2>4. QED
    BY <1>1, <1>2, <2>2, <2>3
<1>4. Founded(g)
  <2>1. SUFFICES ASSUME NEW i \in DOMAIN g, NEW t \in g[i].from..(g[i].to - 1)
                 PROVE  \E c \in claims : Says(c, t, g[i].value)
    BY DEF Founded
  <2>2. CASE i = Len(h)
    BY <1>1, <2>1, <2>2
  <2>3. CASE i # Len(h)
    BY <1>1, <2>1, <2>3 DEF Sound, Founded
  <2>4. QED
    BY <2>2, <2>3
<1>5. LastOf(g) = b
  BY <1>1 DEF LastOf
<1>6. QED
  BY <1>1, <1>2, <1>3, <1>4, <1>5 DEF Sound, g

\* What was kept stays kept while every entry is said further, or was lost and told.
LEMMA KeptGrows ==
    ASSUME NEW a, NEW h, NEW g, NEW lost, NEW more, Kept(a, h, lost), lost \subseteq more,
           a.from \in Int, a.to \in Int,
           \A i \in DOMAIN h : \A t \in a.from..(a.to - 1) : Covers(h[i], t) =>
               \/ \E j \in DOMAIN g : Says(g[j], t, h[i].value)
               \/ \E c \in more : Says(c.loser, t, h[i].value)
    PROVE  Kept(a, g, more)
<1>1. SUFFICES ASSUME NEW t \in a.from..(a.to - 1)
               PROVE  \/ \E j \in DOMAIN g : Says(g[j], t, a.value)
                      \/ \E c \in more : Says(c.loser, t, a.value)
  BY DEF Kept
<1>2. CASE \E c \in lost : Says(c.loser, t, a.value)
  BY <1>2
<1>3. CASE \E i \in DOMAIN h : Says(h[i], t, a.value)
  <2>1. PICK i \in DOMAIN h : Covers(h[i], t) /\ h[i].value = a.value
    BY <1>3 DEF Says
  <2>2. QED
    BY <1>1, <2>1
<1>4. QED
  BY <1>1, <1>2, <1>3 DEF Kept

\* One turn of the loop, on the next claim by valid time.
LEMMA FoldKeepsHistory ==
    ASSUME ValidityInv, NEW a \in todo, \A b \in todo \ {a} : SortsFirst(a, b), Fold(a)
    PROVE  /\ Sound(history') /\ history' # <<>> /\ LastOf(history').from <= a.from
           /\ Kept(a, history', conflicts')
           /\ \A b \in claims \ todo : Kept(b, history', conflicts')
<1> DEFINE n == Len(history)
           last == history[n]
<1>1. /\ a \in claims /\ a \in Claims /\ a \in Entry /\ a.from < a.to
      /\ a.from \in Nat /\ a.to \in Nat /\ OpenEnd \in Nat /\ a.to <= OpenEnd
      /\ a.from <= a.from /\ Says(a, a.from, a.value)
  <2>1. a \in claims /\ a \in Claims /\ a \in Entry /\ a.from < a.to
    BY ClaimIsEntry DEF ValidityInv
  <2>2. a.from \in Nat /\ a.to \in Nat /\ OpenEnd \in Nat /\ a.to <= OpenEnd
    BY <2>1, EntryIsTimed, ClaimsAssumption
  <2>3. QED
    BY <2>1, <2>2 DEF Says, Covers
<1>2. Sound(history) /\ n \in Nat /\ DOMAIN history = 1..n
  BY DEF ValidityInv, Sound
<1>3. ASSUME NEW b \in claims \ todo
      PROVE  Kept(b, history, conflicts) /\ b.from \in Int /\ b.to \in Int
  BY <1>3, ClaimIsEntry, ClaimsAssumption DEF ValidityInv, Entry
<1>4. ASSUME history # <<>>
      PROVE  /\ n \in DOMAIN history /\ last \in Entry /\ last.from < last.to
             /\ last = LastOf(history) /\ last.from <= a.from
             /\ last.from \in Nat /\ last.to \in Nat /\ last.to <= OpenEnd
             /\ \A t \in last.from..(last.to - 1) : \E c \in claims : Says(c, t, last.value)
  <2>1. n \in DOMAIN history /\ last \in Entry /\ last.from < last.to /\ last.from <= a.from
    BY <1>2, <1>4 DEF ValidityInv
  <2>2. last.from \in Nat /\ last.to \in Nat /\ last.to <= OpenEnd
    BY <2>1, ClaimsAssumption DEF Entry
  <2>3. \A t \in last.from..(last.to - 1) : \E c \in claims : Says(c, t, last.value)
    BY <2>1 DEF ValidityInv, Founded
  <2>4. QED
    BY <2>1, <2>2, <2>3 DEF LastOf
<1> HIDE DEF n, last
<1>5. ASSUME NEW h \in Seq(Entry), LastOf(h) = a, h # <<>>, NEW lost
      PROVE  Kept(a, h, lost)
  <2>1. Len(h) \in DOMAIN h /\ h[Len(h)] = a
    BY <1>5 DEF LastOf
  <2>2. QED
    BY <2>1, <1>1 DEF Kept, Says, Covers
\* A claim that starts after the history ends.
<1>6. ASSUME history # <<>> => last.to <= a.from, history' = Append(history, a),
             UNCHANGED conflicts
      PROVE  /\ Sound(history') /\ history' # <<>> /\ LastOf(history') = a
             /\ \A b \in claims \ todo : Kept(b, history', conflicts')
  <2>1. history # <<>> => LastOf(history).to <= a.from
    BY <1>4, <1>6
  <2>2. /\ Sound(history') /\ LastOf(history') = a /\ Len(history') = n + 1
        /\ DOMAIN history \subseteq DOMAIN history'
        /\ \A i \in DOMAIN history : history'[i] = history[i]
    BY <1>1, <1>2, <1>6, <2>1, AppendIsSound DEF n
  <2>3. ASSUME NEW b \in claims \ todo PROVE Kept(b, history', conflicts')
    <3>1. \A i \in DOMAIN history : \A t \in b.from..(b.to - 1) : Covers(history[i], t) =>
              \E j \in DOMAIN history' : Says(history'[j], t, history[i].value)
      BY <2>2 DEF Says
    <3>2. QED
      BY <1>3, <1>6, <3>1, KeptGrows
  <2>4. history' # <<>>
    BY <1>1, <1>6
  <2>5. QED
    BY <2>2, <2>3, <2>4
<1>7. CASE history = <<>>
  <2>1. history' = <<a>> /\ UNCHANGED conflicts
    BY <1>7 DEF Fold
  <2>2. history' = Append(history, a)
    BY <1>7, <2>1
  <2>3. QED
    BY <1>1, <1>5, <1>6, <1>7, <2>1, <2>2 DEF Sound
<1>8. CASE /\ history # <<>> /\ last.value = a.value
           /\ Overlaps(last, a) \/ Meets(last, a)
  <2> DEFINE b == Absorb(last, a)
  <2>1. history' = Replaced(history, b) /\ UNCHANGED conflicts
    BY <1>8 DEF Fold, Replaced, last, n
  <2>2. /\ b \in Entry /\ b.from = last.from /\ b.value = last.value
        /\ last.to <= b.to /\ a.to <= b.to
        /\ \A t \in last.from..(b.to - 1) : Covers(last, t) \/ Covers(a, t)
    BY <1>1, <1>4, <1>8, AbsorbJoins
  <2> HIDE DEF b
  <2>3. b.to \in Nat
    BY <2>2, ClaimsAssumption DEF Entry
  <2>4. b.from < b.to
    BY <1>1, <1>4, <1>8, <2>2, <2>3
  <2>5. ASSUME NEW t \in b.from..(b.to - 1) PROVE \E c \in claims : Says(c, t, b.value)
    <3>1. CASE Covers(a, t)
      BY <1>1, <1>8, <2>2, <3>1 DEF Says
    <3>2. CASE Covers(last, t)
      <4>1. t \in last.from..(last.to - 1)
        BY <1>4, <1>8, <2>2, <2>3, <3>2 DEF Covers
      <4>2. QED
        BY <1>4, <1>8, <2>2, <4>1
    <3>3. QED
      BY <2>2, <3>1, <3>2
  <2>6. /\ Sound(history') /\ LastOf(history') = b /\ history' # <<>>
        /\ DOMAIN history' = DOMAIN history /\ Len(history) \in DOMAIN history
        /\ Len(history') = Len(history)
        /\ \A i \in DOMAIN history : i # Len(history) => history'[i] = history[i]
    BY <1>2, <1>4, <1>8, <2>1, <2>2, <2>4, <2>5, ReplaceIsSound
  <2>7. history'[Len(history)] = b
    BY <2>6 DEF LastOf
  <2>8. ASSUME NEW c \in claims \ todo PROVE Kept(c, history', conflicts')
    <3>1. ASSUME NEW i \in DOMAIN history, NEW t \in c.from..(c.to - 1), Covers(history[i], t)
          PROVE  \E j \in DOMAIN history' : Says(history'[j], t, history[i].value)
      <4>1. CASE i # Len(history)
        BY <2>6, <3>1, <4>1 DEF Says
      <4>2. CASE i = Len(history)
        <5>1. history[i] = last
          BY <4>2 DEF last, n
        <5>2. t \in Int
          BY <1>3, <3>1
        <5>3. Covers(b, t)
          BY <1>4, <1>8, <2>2, <2>3, <3>1, <5>1, <5>2 DEF Covers
        <5>4. QED
          BY <2>2, <2>6, <2>7, <5>1, <5>3 DEF Says
      <4>3. QED
        BY <4>1, <4>2
    <3>2. QED
      BY <1>3, <2>1, <3>1, KeptGrows
  <2>9. Kept(a, history', conflicts')
    <3>1. ASSUME NEW t \in a.from..(a.to - 1) PROVE Says(b, t, a.value)
      BY <1>1, <1>4, <1>8, <2>2, <2>3 DEF Says, Covers
    <3>2. QED
      BY <2>6, <2>7, <3>1 DEF Kept
  <2>10. QED
    BY <1>4, <1>8, <2>2, <2>6, <2>8, <2>9
<1>9. CASE /\ history # <<>> /\ last.value = a.value
           /\ ~(Overlaps(last, a) \/ Meets(last, a))
  <2>1. history' = Append(history, a) /\ UNCHANGED conflicts
    BY <1>9 DEF Fold, last, n
  <2>2. last.to <= a.from
    BY <1>1, <1>4, <1>9 DEF Overlaps
  <2>3. QED
    BY <1>1, <1>5, <1>6, <2>1, <2>2 DEF Sound
<1>10. CASE history # <<>> /\ last.value # a.value /\ ~Overlaps(last, a)
  <2>1. history' = Append(history, a) /\ UNCHANGED conflicts
    BY <1>10 DEF Fold, last, n
  <2>2. last.to <= a.from
    BY <1>1, <1>4, <1>10 DEF Overlaps
  <2>3. QED
    BY <1>1, <1>5, <1>6, <2>1, <2>2 DEF Sound
\* A contradiction: the earlier entry is closed where the claim starts.
<1>11. CASE /\ history # <<>> /\ last.value # a.value /\ Overlaps(last, a)
            /\ a.from > last.from
  <2> DEFINE b == [last EXCEPT !.to = a.from]
             g == Replaced(history, b)
             lost == conflicts \cup {Contradiction("overlap", last, a)}
  <2>1. history' = Append(g, a) /\ conflicts' = lost
    BY <1>11 DEF Fold, Replaced, last, n
  <2>2. a.from <= last.to /\ last.from < a.from /\ a.from <= OpenEnd
    BY <1>1, <1>4, <1>11 DEF Overlaps
  <2>3. b \in Entry /\ b.from = last.from /\ b.to = a.from /\ b.value = last.value
    <3>1. last \in Entry /\ a.from \in 0..OpenEnd
      BY <1>1, <1>4, <1>11, <2>2
    <3>2. QED
      BY <3>1 DEF Entry
  <2> HIDE DEF b
  <2>4. ASSUME NEW t \in b.from..(b.to - 1) PROVE \E c \in claims : Says(c, t, b.value)
    <3>1. t \in last.from..(last.to - 1)
      BY <1>1, <1>4, <1>11, <2>2, <2>3
    <3>2. QED
      BY <1>4, <1>11, <2>3, <3>1
  <2>5. /\ Sound(g) /\ LastOf(g) = b /\ g # <<>>
        /\ DOMAIN g = DOMAIN history /\ Len(history) \in DOMAIN history
        /\ Len(g) = Len(history)
        /\ \A i \in DOMAIN history : i # Len(history) => g[i] = history[i]
    BY <1>2, <1>4, <1>11, <2>2, <2>3, <2>4, ReplaceIsSound
  <2> HIDE DEF g
  <2>6. LastOf(g).to <= a.from
    BY <1>1, <2>3, <2>5
  <2>7. /\ Sound(Append(g, a)) /\ LastOf(Append(g, a)) = a
        /\ DOMAIN g \subseteq DOMAIN Append(g, a)
        /\ \A i \in DOMAIN g : Append(g, a)[i] = g[i]
    BY <1>1, <2>5, <2>6, AppendIsSound
  <2>8. Contradiction("overlap", last, a).loser = last
    BY DEF Contradiction
  <2>9. ASSUME NEW c \in claims \ todo PROVE Kept(c, history', conflicts')
    <3>1. ASSUME NEW i \in DOMAIN history, NEW t \in c.from..(c.to - 1), Covers(history[i], t)
          PROVE  \/ \E j \in DOMAIN history' : Says(history'[j], t, history[i].value)
                 \/ \E x \in conflicts' : Says(x.loser, t, history[i].value)
      <4>1. CASE i # Len(history)
        BY <2>1, <2>5, <2>7, <3>1, <4>1 DEF Says
      <4>2. CASE i = Len(history)
        <5>1. history[i] = last
          BY <4>2 DEF last, n
        <5>2. Says(Contradiction("overlap", last, a).loser, t, history[i].value)
          BY <2>8, <3>1, <5>1 DEF Says
        <5>3. QED
          BY <2>1, <5>2
      <4>3. QED
        BY <4>1, <4>2
    <3>2. conflicts \subseteq conflicts'
      BY <2>1
    <3>3. QED
      BY <1>3, <3>1, <3>2, KeptGrows
  <2>10. history' \in Seq(Entry) /\ history' # <<>> /\ LastOf(history') = a
    BY <1>1, <2>1, <2>5, <2>7 DEF Sound
  <2>11. Kept(a, history', conflicts')
    BY <1>5, <2>10
  <2>12. QED
    BY <1>1, <2>1, <2>7, <2>9, <2>10, <2>11
\* A contradiction of two claims that start together: one of them loses.
<1>12. CASE /\ history # <<>> /\ last.value # a.value /\ Overlaps(last, a)
            /\ ~(a.from > last.from)
  <2>1. a.from = last.from
    BY <1>1, <1>4, <1>12
  <2>2. CASE Wins(a, last)
    <3>1. /\ history' = Replaced(history, a)
          /\ conflicts' = conflicts \cup {Contradiction("simultaneous", last, a)}
      BY <1>12, <2>2 DEF Fold, Replaced, last, n
    <3>2. \A t \in a.from..(a.to - 1) : \E c \in claims : Says(c, t, a.value)
      BY <1>1 DEF Says, Covers
    <3>3. /\ Sound(history') /\ LastOf(history') = a /\ history' # <<>>
          /\ DOMAIN history' = DOMAIN history
          /\ \A i \in DOMAIN history : i # Len(history) => history'[i] = history[i]
      BY <1>1, <1>2, <1>4, <1>12, <2>1, <3>1, <3>2, ReplaceIsSound
    <3>4. Contradiction("simultaneous", last, a).loser = last
      BY DEF Contradiction
    <3>5. ASSUME NEW c \in claims \ todo PROVE Kept(c, history', conflicts')
      <4>1. ASSUME NEW i \in DOMAIN history, NEW t \in c.from..(c.to - 1), Covers(history[i], t)
            PROVE  \/ \E j \in DOMAIN history' : Says(history'[j], t, history[i].value)
                   \/ \E x \in conflicts' : Says(x.loser, t, history[i].value)
        <5>1. CASE i # Len(history)
          BY <3>3, <4>1, <5>1 DEF Says
        <5>2. CASE i = Len(history)
          <6>1. history[i] = last
            BY <5>2 DEF last, n
          <6>2. Says(Contradiction("simultaneous", last, a).loser, t, history[i].value)
            BY <3>4, <4>1, <6>1 DEF Says
          <6>3. QED
            BY <3>1, <6>2
        <5>3. QED
          BY <5>1, <5>2
      <4>2. conflicts \subseteq conflicts'
        BY <3>1
      <4>3. QED
        BY <1>3, <4>1, <4>2, KeptGrows
    <3>6. history' \in Seq(Entry)
      BY <3>3 DEF Sound
    <3>7. Kept(a, history', conflicts')
      BY <1>5, <3>3, <3>6
    <3>8. QED
      BY <1>1, <3>3, <3>5, <3>7
  <2>3. CASE ~Wins(a, last)
    <3>1. /\ history' = history
          /\ conflicts' = conflicts \cup {Contradiction("simultaneous", a, last)}
      BY <1>12, <2>3 DEF Fold, last, n
    <3>2. Contradiction("simultaneous", a, last).loser = a
      BY DEF Contradiction
    <3>3. Kept(a, history', conflicts')
      <4>1. ASSUME NEW t \in a.from..(a.to - 1) PROVE Says(a, t, a.value)
        BY <1>1 DEF Says, Covers
      <4>2. QED
        BY <3>1, <3>2, <4>1 DEF Kept
    <3>4. ASSUME NEW c \in claims \ todo PROVE Kept(c, history', conflicts')
      BY <1>3, <3>1 DEF Kept
    <3>5. QED
      BY <1>2, <1>4, <1>12, <3>1, <3>3, <3>4
  <2>4. QED
    BY <2>2, <2>3
<1>13. QED
  BY <1>7, <1>8, <1>9, <1>10, <1>11, <1>12

LEMMA ValidityStarts == ValidityInit => ValidityInv
<1> SUFFICES ASSUME ValidityInit PROVE ValidityInv
  OBVIOUS
<1>1. claims \subseteq Claims
  BY DEF ValidityInit, ToSet
<1>2. history = <<>> /\ todo = claims
  BY DEF ValidityInit
<1>3. InOrder(history) /\ Founded(history)
  BY <1>2 DEF InOrder, Founded
<1>4. QED
  BY <1>1, <1>2, <1>3 DEF ValidityInv

LEMMA ValidityStep == ValidityInv /\ [ValidityNext]_validityVars => ValidityInv'
<1> SUFFICES ASSUME ValidityInv, [ValidityNext]_validityVars PROVE ValidityInv'
  OBVIOUS
<1>1. CASE MergeNext
  <2>1. PICK a \in todo : /\ \A b \in todo \ {a} : SortsFirst(a, b)
                          /\ Fold(a) /\ todo' = todo \ {a}
    BY <1>1 DEF MergeNext
  <2>2. claims' = claims
    BY <1>1 DEF MergeNext
  <2>3. /\ Sound(history') /\ history' # <<>> /\ LastOf(history').from <= a.from
        /\ Kept(a, history', conflicts')
        /\ \A b \in claims \ todo : Kept(b, history', conflicts')
    BY <2>1, FoldKeepsHistory
  <2>4. todo \subseteq claims /\ claims \subseteq Claims
    BY DEF ValidityInv
  <2>5. ASSUME NEW b \in todo' PROVE LastOf(history').from <= b.from
    <3>1. b \in Entry /\ a \in Entry /\ a.from <= b.from
      BY <2>1, <2>4, <2>5, ClaimIsEntry, FirstStartsFirst
    <3>2. LastOf(history') \in Entry
      BY <2>3 DEF Sound, LastOf
    <3>3. a.from \in Nat /\ b.from \in Nat /\ LastOf(history').from \in Nat
      BY <3>1, <3>2 DEF Entry
    <3>4. QED
      BY <2>3, <3>1, <3>3
  <2>6. \A b \in claims' \ todo' : Kept(b, history', conflicts')
    BY <2>1, <2>2, <2>3
  <2>7. Founded(history)' /\ InOrder(history)'
    BY <2>2, <2>3 DEF Sound, Founded, InOrder
  <2>8. (\A b \in claims \ todo : Kept(b, history, conflicts))'
    BY <2>6
  <2>9. QED
    BY <2>1, <2>2, <2>3, <2>4, <2>5, <2>7, <2>8 DEF ValidityInv, Sound, LastOf
<1>2. CASE UNCHANGED validityVars
  BY <1>2 DEF validityVars, ValidityInv, InOrder, Founded, Kept
<1>3. QED
  BY <1>1, <1>2 DEF ValidityNext

LEMMA ValidityInvAlways == ValiditySpec => []ValidityInv
BY ValidityStarts, ValidityStep, PTL DEF ValiditySpec

\* merge_assertions: for any claims about an edge the history that is folded out
\* of them has one answer at most per instant, says nothing that nobody said,
\* and drops nothing that a contradiction does not keep.
THEOREM HistoryIsAuditableHolds == ValiditySpec => []HistoryIsAuditable
<1>1. ValidityInv => HistoryIsAuditable
  BY DEF ValidityInv, HistoryIsAuditable, InOrder, Founded, Kept
<1>2. QED
  BY <1>1, ValidityInvAlways, PTL

\* merge_assertions: the folded intervals are never empty and never end after an
\* open one.
THEOREM ValidityTypesHold == ValiditySpec => []ValidityTypeOK
<1>1. ValidityInv => ValidityTypeOK
  <2>1. SUFFICES ASSUME ValidityInv, NEW i \in DOMAIN history
                 PROVE  history[i].to <= OpenEnd
    BY DEF ValidityInv, ValidityTypeOK
  <2>2. history[i] \in Entry
    BY <2>1 DEF ValidityInv
  <2>3. QED
    BY <2>2, ClaimsAssumption DEF Entry
<1>2. QED
  BY <1>1, ValidityInvAlways, PTL
-----------------------------------------------------------------------------
(* WriteBatcher.                                                            *)

BatcherTypes ==
    /\ submitter \in [Submitters -> [at : {"submit", "waiting", "released"}, todo : Seq(Rows)]]
    /\ buffer \in Seq(Rows) /\ accepted \in Seq(Rows) /\ handled \in Seq(Rows)
    /\ flush \in [by : {"none", "runner", "caller", "closer"}, take : Seq(Rows), attempt : Nat]
    /\ runner \in [at : {"check", "await", "nap", "pause", "flush", "flushing", "gone"},
                   nap : 0..MaxAge]
    /\ age \in -1..MaxAge
    /\ closing \in {"open", "closing", "closed"}

\* What the holder of the lock read by position is still at the front.
TakesOldest ==
    /\ Len(flush.take) <= BatchRows /\ Len(flush.take) <= Len(buffer)
    /\ flush.take = SubSeq(buffer, 1, Len(flush.take))

\* The clock runs while there is a row.
ClockRuns == buffer = <<>> <=> age = -1

Bounded == Len(buffer) <= Held

BatcherInv ==
    BatcherTypes /\ TakesOldest /\ ClockRuns /\ Bounded /\ EveryRowKept

LEMMA HeldIsNat == Held \in Nat \ {0}
<1>1. \A m, n \in Nat \ {0} : m * n \in Nat \ {0}
  OBVIOUS
<1>2. QED
  BY <1>1, BatcherAssumption DEF Held

LEMMA BatcherInvInit == BatcherInit => BatcherInv
<1> SUFFICES ASSUME BatcherInit PROVE BatcherInv
  OBVIOUS
<1>1. \A s \in Submitters : [at |-> "submit", todo |-> Backlog[s]] \in
          [at : {"submit", "waiting", "released"}, todo : Seq(Rows)]
  BY BatcherAssumption
<1>2. BatcherTypes
  BY <1>1, BatcherAssumption DEF BatcherInit, BatcherTypes, NoFlush
<1>3. TakesOldest
  BY BatcherAssumption, SubSeqEmpty DEF BatcherInit, TakesOldest, NoFlush
<1>4. EveryRowKept
  BY ConcatEmptySeq DEF BatcherInit, EveryRowKept
<1>5. QED
  BY <1>2, <1>3, <1>4, HeldIsNat DEF BatcherInit, BatcherInv, ClockRuns, Bounded

\* A step that moves no row: nothing is promised but the types.
LEMMA NoRowMoves ==
    ASSUME BatcherInv, UNCHANGED <<buffer, accepted, handled>>,
           flush'.take = flush.take \/ flush'.take = <<>>, age' = -1 <=> age = -1,
           BatcherTypes'
    PROVE  BatcherInv'
<1>1. SubSeq(buffer, 1, 0) = <<>>
  BY SubSeqEmpty
<1>2. TakesOldest'
  <2>1. CASE flush'.take = flush.take
    BY <2>1 DEF BatcherInv, TakesOldest
  <2>2. CASE flush'.take = <<>>
    <3>1. Len(flush'.take) = 0 /\ Len(buffer) >= 0 /\ BatchRows >= 0
      BY <2>2, BatcherAssumption DEF BatcherInv, BatcherTypes
    <3>2. SubSeq(buffer', 1, Len(flush'.take)) = <<>>
      BY <1>1, <3>1
    <3>3. QED
      BY <2>2, <3>1, <3>2 DEF TakesOldest
  <2>3. QED
    BY <2>1, <2>2
<1>3. EveryRowKept'
  BY DEF BatcherInv, EveryRowKept
<1>4. ClockRuns'
  BY DEF BatcherInv, ClockRuns
<1>5. Bounded'
  BY DEF BatcherInv, Bounded, Held
<1>6. QED
  BY <1>2, <1>3, <1>4, <1>5 DEF BatcherInv

\* submit: a row goes to the end.
LEMMA SubmitKeeps ==
    ASSUME BatcherInv, NEW s \in Submitters, Submit(s)
    PROVE  BatcherInv'
<1> DEFINE next == Head(submitter[s].todo)
<1>1. /\ submitter[s] \in [at : {"submit", "waiting", "released"}, todo : Seq(Rows)]
      /\ submitter[s].todo \in Seq(Rows) /\ submitter[s].todo # <<>>
  BY DEF Submit, BatcherInv, BatcherTypes
<1>2. next \in Rows /\ Tail(submitter[s].todo) \in Seq(Rows)
  BY <1>1, HeadTailProperties
<1>3. buffer' = Append(buffer, next) /\ accepted' = Append(accepted, next)
  BY DEF Submit
<1> HIDE DEF next
<1>4. /\ buffer \in Seq(Rows) /\ handled \in Seq(Rows) /\ accepted \in Seq(Rows)
      /\ flush.take \in Seq(Rows) /\ age \in -1..MaxAge /\ MaxAge \in Nat \ {0}
  BY BatcherAssumption DEF BatcherInv, BatcherTypes
<1>5. /\ buffer' \in Seq(Rows) /\ accepted' \in Seq(Rows)
      /\ buffer' # <<>> /\ Len(buffer') = Len(buffer) + 1
      /\ \A i \in 1..Len(buffer) : buffer'[i] = buffer[i]
  <2>1. /\ Append(buffer, next) \in Seq(Rows) /\ Append(accepted, next) \in Seq(Rows)
        /\ Append(buffer, next) # <<>> /\ Len(Append(buffer, next)) = Len(buffer) + 1
        /\ \A i \in 1..Len(buffer) : Append(buffer, next)[i] = buffer[i]
    <3>1. buffer \in Seq(Rows) /\ accepted \in Seq(Rows)
      BY <1>4
    <3>2. Append(buffer, next) \in Seq(Rows) /\ Append(accepted, next) \in Seq(Rows)
      BY <1>2, <3>1
    <3>3. /\ Len(Append(buffer, next)) = Len(buffer) + 1
          /\ \A i \in 1..Len(buffer) : Append(buffer, next)[i] = buffer[i]
      BY <1>2, <3>1
    <3>4. Append(buffer, next) # <<>>
      BY <1>2, <3>1
    <3>5. QED
      BY <3>2, <3>3, <3>4
  <2>2. QED
    BY <1>3, <2>1
<1>6. age' \in -1..MaxAge /\ age' # -1
  BY <1>4 DEF Submit, BatcherInv, ClockRuns
<1>7. BatcherTypes'
  <2>1. [at |-> "submit", todo |-> Tail(submitter[s].todo)] \in
            [at : {"submit", "waiting", "released"}, todo : Seq(Rows)]
    BY <1>2
  <2>2. submitter' \in [Submitters -> [at : {"submit", "waiting", "released"}, todo : Seq(Rows)]]
    BY <2>1 DEF Submit, BatcherInv, BatcherTypes
  <2>3. QED
    BY <1>5, <1>6, <2>2 DEF Submit, BatcherInv, BatcherTypes
<1>8. TakesOldest'
  <2>1. SubSeq(buffer', 1, Len(flush.take)) = SubSeq(buffer, 1, Len(flush.take))
    BY <1>4, <1>5 DEF BatcherInv, TakesOldest
  <2>2. Len(flush.take) <= Len(buffer')
    BY <1>4, <1>5 DEF BatcherInv, TakesOldest
  <2>3. QED
    BY <2>1, <2>2 DEF Submit, BatcherInv, TakesOldest
<1>9. EveryRowKept'
  <2>1. buffer' = buffer \o <<next>> /\ accepted' = accepted \o <<next>>
    BY <1>2, <1>3, <1>4, AppendIsConcat
  <2>2. accepted' = handled \o (buffer \o <<next>>)
    <3>1. <<next>> \in Seq(Rows)
      BY <1>2
    <3>2. QED
      BY <1>4, <2>1, <3>1, ConcatAssociative DEF BatcherInv, EveryRowKept
  <2>3. QED
    BY <2>1, <2>2 DEF Submit, EveryRowKept
<1>10. Bounded'
  BY <1>4, <1>5, HeldIsNat DEF Submit, Full, BatcherInv, Bounded, Held
<1>11. QED
  BY <1>5, <1>6, <1>7, <1>8, <1>9, <1>10 DEF BatcherInv, ClockRuns

\* flush takes the lock and reads the oldest rows by position.
LEMMA LockKeeps ==
    ASSUME BatcherInv, NEW by \in {"runner", "caller", "closer"}, Lock(by),
           UNCHANGED <<buffer, age, accepted, handled>>,
           submitter' = submitter, closing' = closing,
           runner' \in [at : {"check", "await", "nap", "pause", "flush", "flushing", "gone"},
                        nap : 0..MaxAge]
    PROVE  BatcherInv'
<1> DEFINE n == IF Len(buffer) < BatchRows THEN Len(buffer) ELSE BatchRows
           take == SubSeq(buffer, 1, n)
<1>1. buffer \in Seq(Rows) /\ n \in 0..Len(buffer) /\ n <= BatchRows
  BY BatcherAssumption DEF BatcherInv, BatcherTypes
<1>2. flush' = [by |-> by, take |-> take, attempt |-> 1]
  BY DEF Lock
<1> HIDE DEF n
<1>3. take \in Seq(Rows) /\ Len(take) = n
  BY <1>1
<1> HIDE DEF take
<1>4. BatcherTypes'
  BY <1>2, <1>3 DEF BatcherInv, BatcherTypes
<1>5. TakesOldest'
  BY <1>1, <1>2, <1>3 DEF TakesOldest, take
<1>6. EveryRowKept'
  BY DEF BatcherInv, EveryRowKept
<1>7. ClockRuns'
  BY DEF BatcherInv, ClockRuns
<1>8. Bounded'
  BY DEF BatcherInv, Bounded, Held
<1>9. QED
  BY <1>4, <1>5, <1>6, <1>7, <1>8 DEF BatcherInv

\* notify_all keeps what a submitter still has to submit.
LEMMA ReleaseTypes ==
    ASSUME BatcherTypes
    PROVE  Release \in [Submitters -> [at : {"submit", "waiting", "released"}, todo : Seq(Rows)]]
<1>1. \A s \in Submitters : [submitter[s] EXCEPT !.at = "released"] \in
          [at : {"submit", "waiting", "released"}, todo : Seq(Rows)]
  BY DEF BatcherTypes
<1>2. QED
  BY <1>1 DEF Release, BatcherTypes

\* A batch leaves: the rows that were taken are the rows that go.
LEMMA FlushedKeeps == ASSUME BatcherInv, Flushed PROVE BatcherInv'
<1> DEFINE n == Len(flush.take)
<1>1. /\ buffer \in Seq(Rows) /\ handled \in Seq(Rows) /\ flush.take \in Seq(Rows)
      /\ n \in 0..Len(buffer) /\ flush.take = SubSeq(buffer, 1, n)
      /\ MaxAge \in Nat \ {0}
  BY BatcherAssumption DEF BatcherInv, BatcherTypes, TakesOldest
<1>2. buffer' = SubSeq(buffer, n + 1, Len(buffer)) /\ handled' = handled \o flush.take
  BY DEF Flushed, RemoveTaken
<1> HIDE DEF n
<1>3. buffer' \in Seq(Rows) /\ Len(buffer') = Len(buffer) - n /\ handled' \in Seq(Rows)
  BY <1>1, <1>2
<1>4. flush.take \o buffer' = buffer
  <2>1. SubSeq(buffer, 1, n) \o SubSeq(buffer, n + 1, Len(buffer)) = SubSeq(buffer, 1, Len(buffer))
    <3>1. 1 \in 1..Len(buffer) + 1 /\ n \in 1 - 1..Len(buffer) /\ Len(buffer) \in n..Len(buffer)
      BY <1>1
    <3>2. QED
      BY <1>1, <3>1, ConcatAdjacentSubSeq, Zenon
  <2>2. SubSeq(buffer, 1, Len(buffer)) = buffer
    BY <1>1, SubSeqFull
  <2>3. QED
    BY <1>1, <1>2, <2>1, <2>2
<1>5. EveryRowKept'
  <2>1. handled' \o buffer' = handled \o (flush.take \o buffer')
    <3>1. handled \in Seq(Rows) /\ flush.take \in Seq(Rows) /\ buffer' \in Seq(Rows)
      BY <1>1, <1>3
    <3>2. (handled \o flush.take) \o buffer' = handled \o (flush.take \o buffer')
      <4>1. \A s, t, u \in Seq(Rows) : (s \o t) \o u = s \o (t \o u)
        BY ConcatAssociative
      <4>2. QED
        BY <3>1, <4>1, Zenon
    <3>3. QED
      BY <1>2, <3>2
  <2>2. QED
    BY <1>4, <2>1 DEF Flushed, BatcherInv, EveryRowKept
<1>6. age' \in -1..MaxAge /\ (buffer' = <<>> <=> age' = -1)
  BY <1>1 DEF Flushed
<1>7. /\ flush' \in [by : {"none", "runner", "caller", "closer"}, take : Seq(Rows), attempt : Nat]
      /\ flush'.take = <<>>
  BY DEF Flushed, NoFlush
<1>8. runner' \in [at : {"check", "await", "nap", "pause", "flush", "flushing", "gone"},
                   nap : 0..MaxAge]
  BY <1>1 DEF Flushed, RunnerGoesOn, BatcherInv, BatcherTypes
<1>9. BatcherTypes'
  BY <1>3, <1>6, <1>7, <1>8, ReleaseTypes DEF Flushed, BatcherInv, BatcherTypes
<1>10. TakesOldest'
  <2>1. SubSeq(buffer', 1, 0) = <<>>
    BY SubSeqEmpty
  <2>2. Len(flush'.take) = 0 /\ Len(buffer') >= 0 /\ BatchRows >= 0
    BY <1>1, <1>3, <1>7, BatcherAssumption
  <2>3. QED
    BY <1>7, <2>1, <2>2 DEF TakesOldest
<1>11. Bounded'
  <2>1. Len(buffer') <= Len(buffer) /\ Len(buffer') \in Int /\ Len(buffer) \in Int
    BY <1>1, <1>3
  <2>2. QED
    BY <2>1, HeldIsNat DEF BatcherInv, Bounded
<1>12. QED
  BY <1>5, <1>6, <1>9, <1>10, <1>11 DEF BatcherInv, ClockRuns

\* The runner looks, wakes or is moved on.
LEMMA RunnerKeeps ==
    ASSUME BatcherInv, RunnerCheck \/ RunnerWakes \/ TimePasses
    PROVE  BatcherInv'
<1>1. /\ age \in -1..MaxAge /\ MaxAge \in Nat \ {0}
      /\ runner \in [at : {"check", "await", "nap", "pause", "flush", "flushing", "gone"},
                     nap : 0..MaxAge]
  BY BatcherAssumption DEF BatcherInv, BatcherTypes
<1>2. age' \in -1..MaxAge /\ (age' = -1 <=> age = -1)
  BY <1>1 DEF RunnerCheck, RunnerWakes, TimePasses
<1>3. runner' \in [at : {"check", "await", "nap", "pause", "flush", "flushing", "gone"},
                   nap : 0..MaxAge]
  <2>1. CASE RunnerCheck
    <3>1. \A at \in {"gone", "await", "flush"} : [runner EXCEPT !.at = at] \in
              [at : {"check", "await", "nap", "pause", "flush", "flushing", "gone"},
               nap : 0..MaxAge]
      BY <1>1
    <3>2. ~DueNow => age \in 0..MaxAge
      BY <1>1 DEF DueNow
    <3>3. age \in 0..MaxAge => [at |-> "nap", nap |-> age] \in
              [at : {"check", "await", "nap", "pause", "flush", "flushing", "gone"},
               nap : 0..MaxAge]
      OBVIOUS
    <3>4. QED
      BY <2>1, <3>1, <3>2, <3>3 DEF RunnerCheck
  <2>2. CASE RunnerWakes
    BY <1>1, <2>2 DEF RunnerWakes
  <2>3. CASE TimePasses
    <3>1. runner.nap \in 0..MaxAge /\ (IF runner.nap > 0 THEN runner.nap - 1 ELSE 0) \in 0..MaxAge
      BY <1>1
    <3>2. runner' = [runner EXCEPT !.nap = IF runner.nap > 0 THEN runner.nap - 1 ELSE 0]
      BY <2>3 DEF TimePasses
    <3>3. QED
      BY <1>1, <3>1, <3>2
  <2>4. QED
    BY <2>1, <2>2, <2>3
<1>4. UNCHANGED <<buffer, accepted, handled, flush, submitter, closing>>
  BY DEF RunnerCheck, RunnerWakes, TimePasses
<1>5. BatcherTypes'
  BY <1>2, <1>3, <1>4 DEF BatcherInv, BatcherTypes
<1>6. QED
  BY <1>2, <1>4, <1>5, NoRowMoves

LEMMA BatcherInvStep == BatcherInv /\ [BatcherNext]_batcherVars => BatcherInv'
<1> SUFFICES ASSUME BatcherInv, [BatcherNext]_batcherVars PROVE BatcherInv'
  OBVIOUS
<1>1. /\ flush \in [by : {"none", "runner", "caller", "closer"}, take : Seq(Rows), attempt : Nat]
      /\ runner \in [at : {"check", "await", "nap", "pause", "flush", "flushing", "gone"},
                     nap : 0..MaxAge]
      /\ MaxAge \in Nat \ {0}
  BY BatcherAssumption DEF BatcherInv, BatcherTypes
<1>2. ASSUME NEW s \in Submitters, WaitForRoom(s) \/ Refused(s)
      PROVE  BatcherInv'
  <2>1. submitter' \in [Submitters -> [at : {"submit", "waiting", "released"}, todo : Seq(Rows)]]
    <3>1. submitter[s] \in [at : {"submit", "waiting", "released"}, todo : Seq(Rows)]
      BY DEF BatcherInv, BatcherTypes
    <3>2. /\ [submitter[s] EXCEPT !.at = "waiting"] \in
                 [at : {"submit", "waiting", "released"}, todo : Seq(Rows)]
          /\ [at |-> "submit", todo |-> <<>>] \in
                 [at : {"submit", "waiting", "released"}, todo : Seq(Rows)]
      BY <3>1
    <3>3. QED
      BY <1>2, <3>2 DEF WaitForRoom, Refused, BatcherInv, BatcherTypes
  <2>2. UNCHANGED <<buffer, accepted, handled, flush, age, runner, closing>>
    BY <1>2 DEF WaitForRoom, Refused
  <2>3. BatcherTypes'
    BY <2>1, <2>2 DEF BatcherInv, BatcherTypes
  <2>4. QED
    BY <2>2, <2>3, NoRowMoves
<1>3. CASE CallFlush
  BY <1>1, <1>3, LockKeeps DEF CallFlush
<1>4. CASE RunnerFlush
  <2>1. /\ runner' \in [at : {"check", "await", "nap", "pause", "flush", "flushing", "gone"},
                        nap : 0..MaxAge]
        /\ UNCHANGED <<buffer, age, accepted, handled, submitter, closing>>
    BY <1>1, <1>4 DEF RunnerFlush
  <2>2. CASE buffer = <<>>
    <3>1. flush' = flush
      BY <1>4, <2>2 DEF RunnerFlush
    <3>2. BatcherTypes'
      BY <2>1, <3>1 DEF BatcherInv, BatcherTypes
    <3>3. QED
      BY <2>1, <3>1, <3>2, NoRowMoves
  <2>3. CASE buffer # <<>>
    BY <1>4, <2>1, <2>3, LockKeeps DEF RunnerFlush
  <2>4. QED
    BY <2>2, <2>3
<1>5. CASE CloseFlush
  BY <1>1, <1>5, LockKeeps DEF CloseFlush
<1>6. CASE Write \/ DeadLetter
  BY <1>6, FlushedKeeps DEF Write, DeadLetter
<1>7. CASE RetryWrite
  <2>1. /\ flush' \in [by : {"none", "runner", "caller", "closer"}, take : Seq(Rows), attempt : Nat]
        /\ flush'.take = flush.take
        /\ UNCHANGED <<buffer, age, accepted, handled, submitter, runner, closing>>
    BY <1>1, <1>7 DEF RetryWrite
  <2>2. BatcherTypes'
    BY <2>1 DEF BatcherInv, BatcherTypes
  <2>3. QED
    BY <2>1, <2>2, NoRowMoves
<1>8. CASE FlushFails
  <2>1. /\ flush' \in [by : {"none", "runner", "caller", "closer"}, take : Seq(Rows), attempt : Nat]
        /\ flush'.take = <<>>
        /\ UNCHANGED <<buffer, age, accepted, handled>>
        /\ closing' \in {"closed", closing} /\ submitter' \in {submitter, Release}
        /\ runner' \in [at : {"check", "await", "nap", "pause", "flush", "flushing", "gone"},
                        nap : 0..MaxAge]
    BY <1>1, <1>8 DEF FlushFails, NoFlush, RunnerGoesOn
  <2>2. BatcherTypes'
    BY <2>1, ReleaseTypes DEF BatcherInv, BatcherTypes
  <2>3. QED
    BY <2>1, <2>2, NoRowMoves
<1>9. CASE RunnerCheck \/ RunnerWakes \/ TimePasses
  BY <1>9, RunnerKeeps
<1>10. CASE Close \/ Closed
  <2>1. /\ UNCHANGED <<buffer, age, accepted, handled, flush, runner>>
        /\ closing' \in {"closing", "closed"} /\ submitter' \in {submitter, Release}
    BY <1>10 DEF Close, Closed
  <2>2. BatcherTypes'
    BY <2>1, ReleaseTypes DEF BatcherInv, BatcherTypes
  <2>3. QED
    BY <2>1, <2>2, NoRowMoves
<1>11. CASE UNCHANGED batcherVars
  <2>1. BatcherTypes'
    BY <1>11 DEF batcherVars, BatcherInv, BatcherTypes
  <2>2. QED
    BY <1>11, <2>1, NoRowMoves DEF batcherVars
<1>12. QED
  BY <1>2, <1>3, <1>4, <1>5, <1>6, <1>7, <1>8, <1>9, <1>10, <1>11, SubmitKeeps DEF BatcherNext

LEMMA BatcherInvAlways == BatcherSpec => []BatcherInv
  BY BatcherInvInit, BatcherInvStep, PTL DEF BatcherSpec

\* WriteBatcher, submit and flush: the buffer is never above its capacity, its
\* clock runs exactly while it holds a row, and a flush never holds more than a
\* batch.
THEOREM BatcherTypesHold == BatcherSpec => []BatcherTypeOK
<1>1. BatcherInv => BatcherTypeOK
  BY DEF BatcherInv, BatcherTypes, TakesOldest, ClockRuns, Bounded, BatcherTypeOK
<1>2. QED
  BY <1>1, BatcherInvAlways, PTL

\* WriteBatcher, flush: rows are read by position before an await and deleted by
\* position after it; whoever submits, flushes, fails or closes meanwhile, every
\* row that was accepted left exactly once, in order, or is still buffered.
THEOREM RowsAreKept == BatcherSpec => []EveryRowKept
<1>1. BatcherInv => EveryRowKept
  BY DEF BatcherInv
<1>2. QED
  BY <1>1, BatcherInvAlways, PTL

-----------------------------------------------------------------------------
(* What the writer's transactions leave in the graph.                       *)

LEMMA SignalsAddUp ==
    ASSUME NEW s \in Seq(Rows), NEW t \in Seq(Rows), NEW n
    PROVE  /\ Signals(s, n) \in Nat /\ Signals(t, n) \in Nat
           /\ Signals(s \o t, n) = Signals(s, n) + Signals(t, n)
<1> DEFINE Delta(r) == IF IsNode(r, n) THEN r.signals ELSE 0
           Deltas(rows) == [i \in 1..Len(rows) |-> Delta(rows[i])]
<1>1. \A r \in Rows : Delta(r) \in Nat
  BY BatcherAssumption DEF IsNode
<1>2. \A rows : Signals(rows, n) = Total(Deltas(rows))
  BY DEF Signals
<1> HIDE DEF Delta
<1>3. ASSUME NEW rows \in Seq(Rows) PROVE Deltas(rows) \in Seq(Nat) /\ Len(Deltas(rows)) = Len(rows)
  <2>1. Len(rows) \in Nat /\ \A i \in 1..Len(rows) : Delta(rows[i]) \in Nat
    BY <1>1
  <2>2. Deltas(rows) \in [1..Len(rows) -> Nat]
    BY <2>1
  <2>3. QED
    BY <2>1, <2>2
<1>4. /\ s \o t \in Seq(Rows) /\ Len(s \o t) = Len(s) + Len(t) /\ Len(s) \in Nat /\ Len(t) \in Nat
      /\ \A i \in 1..Len(s) : (s \o t)[i] = s[i]
      /\ \A i \in 1..(Len(s) + Len(t)) : i > Len(s) => (s \o t)[i] = t[i - Len(s)]
  OBVIOUS
<1> DEFINE ds == Deltas(s)
           dt == Deltas(t)
           both == Deltas(s \o t)
<1>5. /\ ds \in Seq(Nat) /\ dt \in Seq(Nat) /\ both \in Seq(Nat)
      /\ Len(ds) = Len(s) /\ Len(dt) = Len(t) /\ Len(both) = Len(s) + Len(t)
  BY <1>3, <1>4
<1>6. /\ \A i \in 1..Len(s) : ds[i] = Delta(s[i])
      /\ \A i \in 1..Len(t) : dt[i] = Delta(t[i])
      /\ \A i \in 1..(Len(s) + Len(t)) : both[i] = Delta((s \o t)[i])
  BY <1>4
<1>7. Signals(s, n) = Total(ds) /\ Signals(t, n) = Total(dt) /\ Signals(s \o t, n) = Total(both)
  BY <1>2
<1> HIDE DEF ds, dt, both
<1>8. /\ ds \o dt \in Seq(Nat) /\ Len(ds \o dt) = Len(s) + Len(t)
      /\ \A i \in 1..Len(s) : (ds \o dt)[i] = ds[i]
      /\ \A i \in 1..(Len(s) + Len(t)) : i > Len(s) => (ds \o dt)[i] = dt[i - Len(s)]
  BY <1>4, <1>5
<1>9. ASSUME NEW i \in 1..(Len(s) + Len(t)) PROVE both[i] = (ds \o dt)[i]
  <2>1. CASE i \in 1..Len(s)
    BY <1>4, <1>6, <1>8, <2>1
  <2>2. CASE i > Len(s)
    <3>1. i - Len(s) \in 1..Len(t)
      BY <1>4, <1>9, <2>2
    <3>2. QED
      BY <1>4, <1>6, <1>8, <2>2, <3>1
  <2>3. i \in 1..Len(s) \/ i > Len(s)
    <3>1. Len(s) \in Nat /\ Len(t) \in Nat
      BY <1>4
    <3>2. QED
      BY <1>9, <3>1
  <2>4. QED
    BY <2>1, <2>2, <2>3
<1>10. both = ds \o dt
  BY <1>4, <1>5, <1>8, <1>9, SeqEqual
<1>11. QED
  BY <1>5, <1>7, <1>10, TotalOfBoth

\* A transaction brings the nodes of its rows and takes nothing away; a node
\* it names was counted by this batch before, or is counted now.
LEMMA AppliedIs ==
    ASSUME NEW g, NEW rows \in Seq(Rows)
    PROVE  LET new == Applied(g, rows)
               named == {r.id : r \in {x \in ToSet(rows) : x.kind = "node"}}
           IN  /\ DOMAIN new.nodes = DOMAIN g.nodes \cup named
               /\ DOMAIN g.edges \subseteq DOMAIN new.edges
               /\ \A n \in DOMAIN new.nodes \ named : new.nodes[n] = g.nodes[n]
               /\ \A n \in named \ DOMAIN g.nodes :
                      new.nodes[n].count = Signals(rows, n) /\ new.nodes[n].batch = BatchId(rows)
               /\ \A n \in named \cap DOMAIN g.nodes :
                      /\ new.nodes[n].count = g.nodes[n].count
                            + (IF g.nodes[n].batch = BatchId(rows) THEN 0 ELSE Signals(rows, n))
                      /\ new.nodes[n].batch = BatchId(rows)
<1> DEFINE named == {r.id : r \in {x \in ToSet(rows) : x.kind = "node"}}
           nodes == MergeNodes(g.nodes, rows, BatchId(rows))
           edges == MergeEdges([nodes |-> nodes, edges |-> g.edges], rows, BatchId(rows))
<1>1. Applied(g, rows) = [nodes |-> nodes, edges |-> edges]
  BY DEF Applied
<1>2. DOMAIN g.edges \subseteq DOMAIN edges
  <2> HIDE DEF nodes
  <2>1. QED
    BY DEF MergeEdges
<1>3. /\ DOMAIN nodes = DOMAIN g.nodes \cup named
      /\ \A n \in DOMAIN nodes \ named : nodes[n] = g.nodes[n]
      /\ \A n \in named \ DOMAIN g.nodes :
             nodes[n].count = Signals(rows, n) /\ nodes[n].batch = BatchId(rows)
      /\ \A n \in named \cap DOMAIN g.nodes :
             /\ nodes[n].count = g.nodes[n].count
                   + (IF g.nodes[n].batch = BatchId(rows) THEN 0 ELSE Signals(rows, n))
             /\ nodes[n].batch = BatchId(rows)
  BY DEF MergeNodes, AddOnce
<1> HIDE DEF nodes, edges, named
<1>4. Applied(g, rows).nodes = nodes /\ Applied(g, rows).edges = edges
  BY <1>1
<1>5. QED
  BY <1>2, <1>3, <1>4 DEF named

\* How often a node was counted: not more than the rows that left the buffer,
\* or - once a transaction of the batch under way may have committed - that left
\* it or are in this batch, and then the node says so.
Counted(node, i) ==
    \/ node.count <= Signals(handled, i)
    \/ /\ flush.by # "none" /\ node.batch = BatchId(flush.take)
       /\ node.count <= Signals(handled \o flush.take, i)

Has(g, r) == IF r.kind = "node" THEN r.id \in DOMAIN g.nodes ELSE EdgeKey(r) \in DOMAIN g.edges

GraphInv ==
    /\ \A i \in DOMAIN graph.nodes : graph.nodes[i].count \in Nat
    /\ \A n \in DOMAIN handled : handled[n] \in deadRows \/ Has(graph, handled[n])
    /\ sink => \A i \in DOMAIN graph.nodes : Counted(graph.nodes[i], i)

LEMMA GraphStarts == BatcherInit => GraphInv
BY DEF BatcherInit, GraphInv, EmptyGraph

\* A step that writes nothing and keeps the batch of a flush under way.
LEMMA GraphRests ==
    ASSUME GraphInv, UNCHANGED <<sink, graph, handled, deadRows>>,
           flush.by = "none" \/ UNCHANGED <<flush.by, flush.take>> \/ ~sink
    PROVE  GraphInv'
<1>1. \A i \in DOMAIN graph.nodes : sink /\ Counted(graph.nodes[i], i) => Counted(graph.nodes[i], i)'
  BY DEF Counted
<1>2. QED
  BY <1>1 DEF GraphInv

\* The transaction of the batch under way commits, for the first time or again.
LEMMA AppliedKeepsCounts ==
    ASSUME BatcherInv, GraphInv, flush.by # "none", NEW new, new = Applied(graph, flush.take)
    PROVE  /\ \A i \in DOMAIN new.nodes : new.nodes[i].count \in Nat
           /\ \A r : Has(graph, r) => Has(new, r)
           /\ \A n \in DOMAIN flush.take :
                  flush.take[n].kind = "node" => flush.take[n].id \in DOMAIN new.nodes
           /\ sink => \A i \in DOMAIN new.nodes : Counted(new.nodes[i], i)
<1> DEFINE take == flush.take
           named == {r.id : r \in {x \in ToSet(take) : x.kind = "node"}}
<1>1. take \in Seq(Rows) /\ handled \in Seq(Rows)
  BY DEF BatcherInv, BatcherTypes
<1>2. /\ DOMAIN new.nodes = DOMAIN graph.nodes \cup named
      /\ DOMAIN graph.edges \subseteq DOMAIN new.edges
      /\ \A n \in DOMAIN new.nodes \ named : new.nodes[n] = graph.nodes[n]
      /\ \A n \in named \ DOMAIN graph.nodes :
             new.nodes[n].count = Signals(take, n) /\ new.nodes[n].batch = BatchId(take)
      /\ \A n \in named \cap DOMAIN graph.nodes :
             /\ new.nodes[n].count = graph.nodes[n].count
                   + (IF graph.nodes[n].batch = BatchId(take) THEN 0 ELSE Signals(take, n))
             /\ new.nodes[n].batch = BatchId(take)
  BY <1>1, AppliedIs
<1>3. \A n \in DOMAIN take : take[n].kind = "node" => take[n].id \in named
  BY DEF ToSet
<1> HIDE DEF named
<1>4. ASSUME NEW i \in DOMAIN new.nodes
      PROVE  new.nodes[i].count \in Nat /\ (sink => Counted(new.nodes[i], i))
  <2>1. /\ Signals(handled, i) \in Nat /\ Signals(take, i) \in Nat
        /\ Signals(handled \o take, i) = Signals(handled, i) + Signals(take, i)
    BY <1>1, SignalsAddUp
  <2>2. CASE i \notin named
    BY <1>2, <2>2 DEF GraphInv
  <2>3. CASE i \in named \ DOMAIN graph.nodes
    <3>1. new.nodes[i].count = Signals(take, i) /\ new.nodes[i].batch = BatchId(take)
      BY <1>2, <2>3
    <3>2. new.nodes[i].count <= Signals(handled \o take, i)
      BY <2>1, <3>1
    <3>3. QED
      BY <2>1, <3>1, <3>2 DEF Counted
  <2>4. CASE i \in named \cap DOMAIN graph.nodes
    <3>1. /\ new.nodes[i].batch = BatchId(take) /\ graph.nodes[i].count \in Nat
          /\ sink => Counted(graph.nodes[i], i)
      BY <1>2, <2>4 DEF GraphInv
    <3>2. CASE graph.nodes[i].batch = BatchId(take)
      <4>1. new.nodes[i].count = graph.nodes[i].count
        BY <1>2, <2>4, <3>1, <3>2
      <4>2. sink => new.nodes[i].count <= Signals(handled \o take, i)
        BY <2>1, <3>1, <4>1 DEF Counted
      <4>3. QED
        BY <3>1, <4>1, <4>2 DEF Counted
    <3>3. CASE graph.nodes[i].batch # BatchId(take)
      <4>1. new.nodes[i].count = graph.nodes[i].count + Signals(take, i)
        BY <1>2, <2>4, <3>1, <3>3
      <4>2. sink => graph.nodes[i].count <= Signals(handled, i)
        BY <3>1, <3>3 DEF Counted
      <4>3. new.nodes[i].count \in Nat
        BY <2>1, <3>1, <4>1
      <4>4. sink => new.nodes[i].count <= Signals(handled \o take, i)
        BY <2>1, <3>1, <4>1, <4>2
      <4>5. QED
        BY <3>1, <4>3, <4>4 DEF Counted
    <3>4. QED
      BY <3>2, <3>3
  <2>5. QED
    BY <1>2, <2>2, <2>3, <2>4
<1>5. \A r : Has(graph, r) => Has(new, r)
  BY <1>2 DEF Has
<1>6. QED
  BY <1>2, <1>3, <1>4, <1>5

\* An attempt, whatever becomes of it.
LEMMA AttemptKeeps ==
    ASSUME BatcherInv, GraphInv, flush.by # "none",
           graph' = graph \/ graph' = Applied(graph, flush.take)
    PROVE  /\ \A i \in DOMAIN graph'.nodes : graph'.nodes[i].count \in Nat
           /\ \A r : Has(graph, r) => Has(graph', r)
           /\ sink => \A i \in DOMAIN graph'.nodes : Counted(graph'.nodes[i], i)
<1>1. CASE graph' = graph
  BY <1>1 DEF GraphInv
<1>2. CASE graph' = Applied(graph, flush.take)
  BY <1>2, AppliedKeepsCounts
<1>3. QED
  BY <1>1, <1>2

\* A batch that goes: its rows are in the graph, or in a dead letter.
LEMMA BatchGoes ==
    ASSUME BatcherInv, GraphInv, flush.by # "none", sink' = sink, deadRows \subseteq deadRows',
           graph' = graph \/ graph' = Applied(graph, flush.take),
           handled' = handled \o flush.take,
           \A n \in DOMAIN flush.take : flush.take[n] \in deadRows' \/ Has(graph', flush.take[n])
    PROVE  GraphInv'
<1>1. flush.take \in Seq(Rows) /\ handled \in Seq(Rows)
  BY DEF BatcherInv, BatcherTypes
<1>2. /\ \A i \in DOMAIN graph'.nodes : graph'.nodes[i].count \in Nat
      /\ \A r : Has(graph, r) => Has(graph', r)
      /\ sink => \A i \in DOMAIN graph'.nodes : Counted(graph'.nodes[i], i)
  BY AttemptKeeps
<1>3. ASSUME NEW n \in DOMAIN handled'
      PROVE  handled'[n] \in deadRows' \/ Has(graph', handled'[n])
  <2>1. /\ n \in 1..(Len(handled) + Len(flush.take))
        /\ Len(handled) \in Nat /\ Len(flush.take) \in Nat
        /\ DOMAIN handled = 1..Len(handled) /\ DOMAIN flush.take = 1..Len(flush.take)
    BY <1>1
  <2>2. CASE n \in DOMAIN handled
    <3>1. handled'[n] = handled[n]
      BY <1>1, <2>1, <2>2
    <3>2. QED
      BY <1>2, <2>2, <3>1 DEF GraphInv
  <2>3. CASE n > Len(handled)
    <3>1. n - Len(handled) \in DOMAIN flush.take /\ handled'[n] = flush.take[n - Len(handled)]
      BY <1>1, <2>1, <2>3
    <3>2. QED
      BY <3>1
  <2>4. QED
    BY <2>1, <2>2, <2>3
<1>4. ASSUME sink', NEW i \in DOMAIN graph'.nodes PROVE Counted(graph.nodes[i], i)'
  <2>1. /\ Signals(handled, i) \in Nat /\ Signals(flush.take, i) \in Nat
        /\ Signals(handled', i) = Signals(handled, i) + Signals(flush.take, i)
    BY <1>1, SignalsAddUp
  <2>2. Counted(graph'.nodes[i], i) /\ graph'.nodes[i].count \in Nat
    BY <1>2, <1>4
  <2>3. graph'.nodes[i].count <= Signals(handled', i)
    BY <2>1, <2>2 DEF Counted
  <2>4. QED
    BY <2>3 DEF Counted
<1>5. QED
  BY <1>2, <1>3, <1>4 DEF GraphInv

\* What is left of a sequence behind its first elements.
LEMMA LeftOf ==
    ASSUME NEW S, NEW s \in Seq(S), NEW n \in 0..Len(s)
    PROVE  /\ SubSeq(s, n + 1, Len(s)) \in Seq(S)
           /\ Len(SubSeq(s, n + 1, Len(s))) = Len(s) - n
           /\ \A k \in 1..(Len(s) - n) : SubSeq(s, n + 1, Len(s))[k] = s[n + k]
<1>1. Len(s) \in Nat /\ n \in Nat /\ n + 1 \in Nat
  OBVIOUS
<1>2. SubSeq(s, n + 1, Len(s)) \in Seq(S)
  BY <1>1
<1>3. Len(SubSeq(s, n + 1, Len(s))) = Len(s) - n
  BY <1>1
<1>4. ASSUME NEW k \in 1..(Len(s) - n) PROVE SubSeq(s, n + 1, Len(s))[k] = s[n + k]
  BY <1>1
<1>5. QED
  BY <1>2, <1>3, <1>4

LEMMA GraphStep == BatcherInv /\ GraphInv /\ [BatcherNext]_batcherVars => GraphInv'
<1> SUFFICES ASSUME BatcherInv, GraphInv, [BatcherNext]_batcherVars PROVE GraphInv'
  OBVIOUS
<1>1. CASE Write
  <2>1. /\ flush.by # "none" /\ sink' = sink /\ deadRows' = deadRows
        /\ graph' = Applied(graph, flush.take) /\ Verified(graph', flush.take)
        /\ handled' = handled \o flush.take
    BY <1>1 DEF Write, Flushed
  <2>2. ASSUME NEW n \in DOMAIN flush.take PROVE Has(graph', flush.take[n])
    <3>1. flush.take[n].kind = "node" => flush.take[n].id \in DOMAIN graph'.nodes
      BY <2>1, AppliedKeepsCounts
    <3>2. flush.take[n] \in Rows
      BY DEF BatcherInv, BatcherTypes
    <3>3. flush.take[n].kind = "edge" => EdgeKey(flush.take[n]) \in DOMAIN graph'.edges
      BY <2>1 DEF Verified
    <3>4. QED
      BY <3>1, <3>2, <3>3, BatcherAssumption DEF Has
  <2>3. QED
    BY <2>1, <2>2, BatchGoes
<1>2. CASE DeadLetter
  <2>1. /\ flush.by # "none" /\ sink' = sink /\ deadRows' = deadRows \cup ToSet(flush.take)
        /\ graph' = graph \/ graph' = Applied(graph, flush.take)
        /\ handled' = handled \o flush.take
    BY <1>2 DEF DeadLetter, AttemptFails, Flushed
  <2>2. \A n \in DOMAIN flush.take : flush.take[n] \in deadRows'
    BY <2>1 DEF ToSet
  <2>3. QED
    BY <2>1, <2>2, BatchGoes
<1>3. ASSUME flush.by # "none", UNCHANGED <<sink, handled, deadRows>>,
             graph' = graph \/ graph' = Applied(graph, flush.take),
             UNCHANGED <<flush.by, flush.take>> \/ ~sink
      PROVE  GraphInv'
  <2>1. /\ \A i \in DOMAIN graph'.nodes : graph'.nodes[i].count \in Nat
        /\ \A r : Has(graph, r) => Has(graph', r)
        /\ sink => \A i \in DOMAIN graph'.nodes : Counted(graph'.nodes[i], i)
    BY <1>3, AttemptKeeps
  <2>2. ASSUME sink, NEW i \in DOMAIN graph'.nodes PROVE Counted(graph.nodes[i], i)'
    BY <1>3, <2>1, <2>2 DEF Counted
  <2>3. QED
    BY <1>3, <2>1, <2>2 DEF GraphInv
<1>4. CASE RetryWrite
  <2>1. /\ flush.by # "none" /\ UNCHANGED <<sink, handled, deadRows>>
        /\ graph' = graph \/ graph' = Applied(graph, flush.take)
    BY <1>4 DEF RetryWrite, AttemptFails
  <2>2. UNCHANGED <<flush.by, flush.take>>
    BY <1>4 DEF RetryWrite, BatcherInv, BatcherTypes
  <2>3. QED
    BY <1>3, <2>1, <2>2
<1>5. CASE FlushFails
  <2>1. /\ flush.by # "none" /\ ~sink /\ UNCHANGED <<sink, handled, deadRows>>
        /\ graph' = graph \/ graph' = Applied(graph, flush.take)
    BY <1>5 DEF FlushFails, AttemptFails
  <2>2. QED
    BY <1>3, <2>1
<1>6. CASE CallFlush \/ CloseFlush
  BY <1>6, GraphRests DEF CallFlush, CloseFlush
<1>7. CASE RunnerFlush
  BY <1>7, GraphRests DEF RunnerFlush
<1>8. ASSUME NEW s \in Submitters, WaitForRoom(s) \/ Refused(s) \/ Submit(s) PROVE GraphInv'
  BY <1>8, GraphRests DEF WaitForRoom, Refused, Submit
<1>9. CASE RunnerCheck \/ RunnerWakes \/ TimePasses \/ Close \/ Closed
  BY <1>9, GraphRests DEF RunnerCheck, RunnerWakes, TimePasses, Close, Closed
<1>10. CASE UNCHANGED batcherVars
  BY <1>10, GraphRests DEF batcherVars
<1>11. QED
  BY <1>1, <1>2, <1>4, <1>5, <1>6, <1>7, <1>8, <1>9, <1>10 DEF BatcherNext

\* GraphWriter, merge_cypher: for any rows, batches, failures, retries and
\* replays, what has left the buffer is in the graph or in a dead letter, and with
\* a dead-letter sink no node counts a signal twice.
THEOREM GraphAgreesHolds == BatcherSpec => []GraphAgrees
<1>1. BatcherInv /\ GraphInv => GraphAgrees
  <2> SUFFICES ASSUME BatcherInv, GraphInv PROVE GraphAgrees
    OBVIOUS
  <2>1. /\ handled \in Seq(Rows) /\ buffer \in Seq(Rows) /\ accepted \in Seq(Rows)
        /\ flush.take \in Seq(Rows) /\ accepted = handled \o buffer
        /\ Len(flush.take) <= Len(buffer) /\ flush.take = SubSeq(buffer, 1, Len(flush.take))
    BY DEF BatcherInv, BatcherTypes, EveryRowKept, TakesOldest
  <2>2. ASSUME sink, NEW i \in DOMAIN graph.nodes
        PROVE  graph.nodes[i].count <= Signals(accepted, i)
    <3> DEFINE n == Len(flush.take)
               rest == SubSeq(buffer, n + 1, Len(buffer))
    <3>1. rest \in Seq(Rows) /\ buffer = flush.take \o rest
      <4>1. n \in 0..Len(buffer) /\ Len(buffer) \in Nat
        BY <2>1
      <4>2. rest \in Seq(Rows) /\ Len(rest) = Len(buffer) - n
            /\ \A k \in 1..(Len(buffer) - n) : rest[k] = buffer[n + k]
        BY <2>1, <4>1, LeftOf
      <4> HIDE DEF rest
      <4>3. /\ flush.take \o rest \in Seq(Rows) /\ Len(flush.take \o rest) = Len(buffer)
            /\ \A k \in 1..n : (flush.take \o rest)[k] = flush.take[k]
            /\ \A k \in 1..Len(buffer) : k > n => (flush.take \o rest)[k] = rest[k - n]
        BY <2>1, <4>1, <4>2
      <4>4. \A k \in 1..n : flush.take[k] = buffer[k]
        <5> DEFINE front == SubSeq(buffer, 1, n)
        <5>1. \A k \in 1..n : front[k] = buffer[k]
          BY <2>1, <4>1
        <5>2. QED
          BY <2>1, <5>1
      <4>5. ASSUME NEW k \in 1..Len(buffer) PROVE (flush.take \o rest)[k] = buffer[k]
        <5>1. CASE k \in 1..n
          BY <4>3, <4>4, <5>1
        <5>2. CASE k > n
          <6>1. k - n \in 1..(Len(buffer) - n) /\ n + (k - n) = k
            BY <4>1, <5>2
          <6>2. QED
            BY <4>2, <4>3, <5>2, <6>1
        <5>3. k \in 1..n \/ k > n
          BY <4>1
        <5>4. QED
          BY <5>1, <5>2, <5>3
      <4>6. QED
        BY <2>1, <4>2, <4>3, <4>5, SeqEqual
    <3> HIDE DEF rest
    <3>2. /\ Signals(handled, i) \in Nat /\ Signals(buffer, i) \in Nat
          /\ Signals(accepted, i) = Signals(handled, i) + Signals(buffer, i)
      BY <2>1, SignalsAddUp
    <3>3. /\ Signals(flush.take, i) \in Nat /\ Signals(rest, i) \in Nat
          /\ Signals(buffer, i) = Signals(flush.take, i) + Signals(rest, i)
      BY <2>1, <3>1, SignalsAddUp
    <3>4. Signals(handled \o flush.take, i) = Signals(handled, i) + Signals(flush.take, i)
      BY <2>1, SignalsAddUp
    <3>5. Counted(graph.nodes[i], i) /\ graph.nodes[i].count \in Nat
      BY <2>2 DEF GraphInv
    <3>6. \/ graph.nodes[i].count <= Signals(handled, i)
          \/ graph.nodes[i].count <= Signals(handled, i) + Signals(flush.take, i)
      BY <3>4, <3>5 DEF Counted
    <3>7. QED
      BY <3>2, <3>3, <3>5, <3>6
  <2>3. QED
    BY <2>2 DEF GraphInv, GraphAgrees, InGraph, Has
<1>2. QED
  BY <1>1, BatcherInvInit, BatcherInvStep, GraphStarts, GraphStep, PTL DEF BatcherSpec
-----------------------------------------------------------------------------
(* Entity resolution: every id leads to one live record.                      *)

\* The ids a record answers for, and a set of records.
Fam(r) == {r.id} \cup r.from
FamOf(s) == UNION {Fam(r) : r \in s}
IdsOf(s) == {r.id : r \in s}

\* i is known to be no younger than j, where anything is known of j.
NoYounger(i, j) == FirstSeen[j] # 0 => FirstSeen[i] # 0 /\ FirstSeen[i] <= FirstSeen[j]

Records == [id : Ids, seen : Nat, mentions : Nat, from : SUBSET Ids]

\* A record stands for its own id and for no older one.
Proper(r) ==
    /\ r \in Records /\ r.seen = FirstSeen[r.id] /\ r.id \notin r.from
    /\ \A i \in r.from : NoYounger(r.id, i)

\* No two records of a set answer for the same id.
Apart(s) == \A r, t \in s : Fam(r) \cap Fam(t) # {} => r = t

Folk(s) == IsFiniteSet(s) /\ Apart(s) /\ \A r \in s : Proper(r)

\* As much as holds whatever is undone: an id names one record.
Kin(s) == IsFiniteSet(s) /\ (\A r \in s : Proper(r)) /\ \A r, t \in s : r.id = t.id => r = t

LEMMA FolkAreKin == ASSUME NEW s, Folk(s) PROVE Kin(s)
  BY DEF Folk, Apart, Fam, Kin

LEMMA ImageIsFinite ==
    ASSUME NEW f, IsFiniteSet(DOMAIN f)
    PROVE  IsFiniteSet({f[x] : x \in DOMAIN f})
<1> DEFINE T == {f[x] : x \in DOMAIN f}
           g == [x \in DOMAIN f |-> f[x]]
<1>1. g \in Surjection(DOMAIN f, T)
  BY DEF Surjection
<1>2. QED
  BY <1>1, FS_Surjection

\* Outranks is total on records and transitive.
LEMMA OutranksOrders ==
    ASSUME NEW r \in Records, NEW s \in Records, NEW t \in Records
    PROVE  /\ Outranks(r, s) \/ Outranks(s, r)
           /\ Outranks(r, s) /\ Outranks(s, t) => Outranks(r, t)
<1>1. /\ r.id \in Nat /\ s.id \in Nat /\ t.id \in Nat
      /\ r.seen \in Nat /\ s.seen \in Nat /\ t.seen \in Nat
      /\ r.mentions \in Nat /\ s.mentions \in Nat /\ t.mentions \in Nat
  BY ResolutionAssumption DEF ResolutionAssumption, Records
<1>2. QED
  BY <1>1 DEF Outranks

\* elect_survivor ends with a record of the cluster that outranks the others.
LEMMA SurvivorLeads ==
    ASSUME NEW s \in SUBSET Records, IsFiniteSet(s), s # {}
    PROVE  Survivor(s) \in s /\ \A t \in s : Survivor(s) = t \/ Outranks(Survivor(s), t)
<1> DEFINE Top(u) == \E r \in u : \A t \in u : r = t \/ Outranks(r, t)
           S == {n \in Nat : \A u \in SUBSET s : Cardinality(u) = n /\ u # {} => Top(u)}
<1>1. 0 \in S
  <2>1. \A u \in SUBSET s : IsFiniteSet(u)
    BY FS_Subset
  <2>2. \A u \in SUBSET s : Cardinality(u) = 0 => u = {}
    BY <2>1, FS_EmptySet
  <2>3. QED
    BY <2>2
<1>2. ASSUME NEW n \in Nat, n \in S PROVE n + 1 \in S
  <2> SUFFICES ASSUME NEW u \in SUBSET s, Cardinality(u) = n + 1, u # {} PROVE Top(u)
    OBVIOUS
  <2>1. PICK x \in u : TRUE
    OBVIOUS
  <2>2. IsFiniteSet(u)
    BY FS_Subset
  <2>3. Cardinality(u \ {x}) = n /\ u \ {x} \in SUBSET s
    <3>1. Cardinality(u \ {x}) = Cardinality(u) - 1
      BY <2>1, <2>2, FS_RemoveElement
    <3>2. QED
      BY <3>1
  <2>4. CASE u \ {x} = {}
    BY <2>1, <2>4
  <2>5. CASE u \ {x} # {}
    <3>1. Top(u \ {x})
      BY <1>2, <2>3, <2>5
    <3>2. PICK r \in u \ {x} : \A t \in u \ {x} : r = t \/ Outranks(r, t)
      BY <3>1
    <3>3. r \in Records /\ x \in Records /\ r \in u
      BY <3>2
    <3>4. CASE Outranks(r, x)
      BY <3>2, <3>3, <3>4
    <3>5. CASE Outranks(x, r)
      <4>1. ASSUME NEW t \in u PROVE x = t \/ Outranks(x, t)
        <5>1. t \in Records
          OBVIOUS
        <5>2. t = x \/ t = r \/ Outranks(r, t)
          BY <3>2
        <5>3. QED
          BY <5>1, <5>2, <3>3, <3>5, OutranksOrders
      <4>2. QED
        BY <4>1, <2>1
    <3>6. QED
      BY <3>3, <3>4, <3>5, OutranksOrders
  <2>6. QED
    BY <2>4, <2>5
<1>3. Cardinality(s) \in Nat
  BY FS_CardinalityType
<1> HIDE DEF Top
<1>4. 0..Cardinality(s) \subseteq S
  <2> HIDE DEF S
  <2>1. \A k \in 0..(Cardinality(s) - 1) : k \in S => k + 1 \in S
    BY <1>2, <1>3
  <2>2. QED
    BY <1>1, <1>3, <2>1, UpTo
<1>5. Cardinality(s) \in S
  BY <1>3, <1>4
<1>6. Top(s)
  BY <1>5
<1>7. \E r \in s : \A t \in s : r = t \/ Outranks(r, t)
  BY <1>6 DEF Top
<1>8. QED
  BY <1>7 DEF Survivor

LEMMA SurvivorIsOldest ==
    ASSUME NEW s, Kin(s), s # {}
    PROVE  Survivor(s) \in s /\ \A i \in IdsOf(s) : NoYounger(Survivor(s).id, i)
<1>1. s \in SUBSET Records /\ IsFiniteSet(s)
  BY DEF Kin, Proper
<1>2. Survivor(s) \in s /\ \A t \in s : Survivor(s) = t \/ Outranks(Survivor(s), t)
  BY <1>1, SurvivorLeads
<1>3. ASSUME NEW t \in s PROVE NoYounger(Survivor(s).id, t.id)
  <2>1. Survivor(s).seen = FirstSeen[Survivor(s).id] /\ t.seen = FirstSeen[t.id]
    BY <1>2 DEF Kin, Proper
  <2>2. Survivor(s).seen \in Nat /\ t.seen \in Nat
    BY <1>1, <1>2 DEF Records
  <2>3. Survivor(s) = t \/ Outranks(Survivor(s), t)
    BY <1>2
  <2>4. QED
    BY <2>1, <2>2, <2>3 DEF NoYounger, Outranks
<1>4. QED
  BY <1>2, <1>3 DEF IdsOf

LEMMA Eldest ==
    ASSUME NEW i \in Ids, NEW j \in Ids, NEW k \in Ids, NoYounger(i, j), NoYounger(j, k)
    PROVE  NoYounger(i, k)
<1>1. FirstSeen[i] \in Nat /\ FirstSeen[j] \in Nat /\ FirstSeen[k] \in Nat
  BY ResolutionAssumption DEF ResolutionAssumption
<1>2. QED
  BY <1>1 DEF NoYounger

\* _merge_into: the merged record answers for all its members did.
LEMMA MergedAnswers ==
    ASSUME NEW s, Kin(s), NEW c \in s, \A i \in IdsOf(s) : NoYounger(c.id, i)
    PROVE  LET m == MergeInto(c, s)
           IN  m.id = c.id /\ Fam(m) = FamOf(s) /\ Proper(m)
<1> DEFINE m == MergeInto(c, s)
           stamps == {t.seen : t \in s} \ {0}
           told == UNION {{t.id} \X (1..t.mentions) : t \in s}
<1>1. \A t \in s : /\ t \in Records /\ t.seen = FirstSeen[t.id] /\ t.id \notin t.from
                   /\ \A i \in t.from : NoYounger(t.id, i)
  BY DEF Kin, Proper
<1>2. \A t \in s : t.id \in Ids /\ t.seen \in Nat /\ t.mentions \in Nat /\ t.from \subseteq Ids
  BY <1>1 DEF Records
<1>3. /\ m.id = c.id
      /\ m.seen = (IF stamps = {} THEN 0 ELSE Min(stamps))
      /\ m.mentions = Cardinality(told)
      /\ m.from = (IdsOf(s) \cup UNION {t.from : t \in s}) \ {c.id}
      /\ m = [id |-> m.id, seen |-> m.seen, mentions |-> m.mentions, from |-> m.from]
  BY DEF MergeInto, Absorbed, IdsOf
<1>4. Fam(m) = FamOf(s)
  <2>1. Fam(m) = {c.id} \cup IdsOf(s) \cup UNION {t.from : t \in s}
    BY <1>3 DEF Fam
  <2>2. FamOf(s) = IdsOf(s) \cup UNION {t.from : t \in s}
    BY DEF FamOf, Fam, IdsOf
  <2>3. c.id \in IdsOf(s)
    BY DEF IdsOf
  <2>4. QED
    BY <2>1, <2>2, <2>3
<1>5. m.seen = c.seen
  <2>1. \A t \in s : t.seen # 0 => c.seen # 0 /\ c.seen <= t.seen
    BY <1>1 DEF NoYounger, IdsOf
  <2>2. CASE c.seen = 0
    BY <2>1, <2>2, <1>3
  <2>3. CASE c.seen # 0
    <3>1. c.seen \in stamps /\ \A x \in stamps : c.seen <= x /\ x \in Nat
      BY <2>1, <2>3, <1>2
    <3>2. Min(stamps) \in stamps /\ \A y \in stamps : Min(stamps) <= y
      BY <3>1 DEF Min
    <3>3. Min(stamps) = c.seen
      <4> HIDE DEF stamps
      <4> QED
        BY <3>1, <3>2
    <3>4. QED
      BY <3>1, <3>3, <1>3
  <2>4. QED
    BY <2>2, <2>3
<1>6. m.mentions \in Nat
  <2> DEFINE f == [t \in s |-> {t.id} \X (1..t.mentions)]
  <2>1. IsFiniteSet(DOMAIN f)
    BY DEF Kin
  <2>2. \A T \in {f[t] : t \in DOMAIN f} : IsFiniteSet(T)
    <3>1. ASSUME NEW t \in s PROVE IsFiniteSet({t.id} \X (1..t.mentions))
      <4>1. IsFiniteSet({t.id}) /\ IsFiniteSet(1..t.mentions)
        <5>1. 1 \in Int /\ t.mentions \in Int
          BY <1>2
        <5>2. QED
          BY <5>1, FS_Singleton, FS_Interval
      <4>2. QED
        BY <4>1, FS_Product
    <3>2. QED
      BY <3>1
  <2>3. IsFiniteSet({f[t] : t \in DOMAIN f})
    BY <2>1, ImageIsFinite
  <2>4. IsFiniteSet(UNION {f[t] : t \in DOMAIN f})
    BY <2>2, <2>3, FS_UNION
  <2>5. told = UNION {f[t] : t \in DOMAIN f}
    OBVIOUS
  <2>6. QED
    BY <2>4, <2>5, <1>3, FS_CardinalityType
<1>7. m.id \in Ids /\ m.seen \in Nat /\ m.from \subseteq Ids /\ m.id \notin m.from
  BY <1>2, <1>3, <1>5 DEF IdsOf
<1>8. m \in Records
  BY <1>3, <1>6, <1>7 DEF Records
<1>9. ASSUME NEW i \in m.from PROVE NoYounger(m.id, i)
  <2>1. CASE i \in IdsOf(s)
    BY <2>1, <1>3
  <2>2. CASE \E t \in s : i \in t.from
    <3>1. PICK t \in s : i \in t.from
      BY <2>2
    <3>2. NoYounger(c.id, t.id) /\ NoYounger(t.id, i)
      BY <3>1, <1>1 DEF IdsOf
    <3>3. QED
      BY <3>1, <3>2, <1>2, <1>3, Eldest
  <2>3. QED
    BY <2>1, <2>2, <1>3
<1>10. m.seen = FirstSeen[m.id]
  BY <1>1, <1>3, <1>5
<1>11. QED
  BY <1>3, <1>4, <1>7, <1>8, <1>9, <1>10 DEF Proper

\* Records may stand in for others that answer for the same ids.
LEMMA Exchange ==
    ASSUME NEW s, Folk(s), NEW out \in SUBSET s, NEW in, Folk(in), FamOf(out) = FamOf(in)
    PROVE  Folk((s \ out) \cup in) /\ FamOf((s \ out) \cup in) = FamOf(s)
<1> DEFINE u == (s \ out) \cup in
<1>1. IsFiniteSet(u)
  BY FS_Difference, FS_Union DEF Folk
<1>2. \A r \in u : Proper(r)
  BY DEF Folk
<1>3. FamOf(u) = FamOf(s)
  <2>1. FamOf(u) = FamOf(s \ out) \cup FamOf(in) /\ FamOf(s) = FamOf(s \ out) \cup FamOf(out)
    BY DEF FamOf
  <2>2. QED
    BY <2>1
<1>4. ASSUME NEW r \in s \ out, NEW t \in in PROVE Fam(r) \cap Fam(t) = {}
  <2>1. Fam(t) \subseteq FamOf(out)
    BY DEF FamOf
  <2>2. \A q \in out : Fam(r) \cap Fam(q) = {}
    BY DEF Folk, Apart
  <2>3. Fam(r) \cap FamOf(out) = {}
    BY <2>2 DEF FamOf
  <2>4. QED
    BY <2>1, <2>3
<1>5. Apart(u)
  <2> SUFFICES ASSUME NEW r \in u, NEW t \in u, Fam(r) \cap Fam(t) # {} PROVE r = t
    BY DEF Apart
  <2>1. CASE r \in s \ out /\ t \in s \ out
    BY <2>1 DEF Folk, Apart
  <2>2. CASE r \in in /\ t \in in
    BY <2>2 DEF Folk, Apart
  <2>3. CASE r \in s \ out /\ t \in in
    BY <2>3, <1>4
  <2>4. CASE r \in in /\ t \in s \ out
    BY <2>4, <1>4
  <2>5. QED
    BY <2>1, <2>2, <2>3, <2>4
<1>6. QED
  BY <1>1, <1>2, <1>3, <1>5 DEF Folk

LEMMA FewerKin ==
    ASSUME NEW s, Kin(s), NEW u \in SUBSET s
    PROVE  Kin(u)
  BY FS_Subset DEF Kin

LEMMA FewerFolk ==
    ASSUME NEW s, Folk(s), NEW u \in SUBSET s
    PROVE  Folk(u)
  BY FS_Subset DEF Folk, Apart

LEMMA OneFolk ==
    ASSUME NEW r, Proper(r)
    PROVE  Folk({r}) /\ FamOf({r}) = Fam(r)
  BY FS_Singleton DEF Folk, Apart, FamOf

\* In such a set an id names one record.
LEMMA IdNames ==
    ASSUME NEW s, Folk(s), NEW r \in s, NEW t \in s, r.id = t.id
    PROVE  r = t
  BY DEF Folk, Apart, Fam

\* A log entry: its survivor is one of its members, and none of them is older.
LogEntry(m, all) ==
    /\ Folk(m.members) /\ FamOf(m.members) \subseteq all
    /\ m.members # {} => /\ m.into \in IdsOf(m.members)
                         /\ \A i \in IdsOf(m.members) : NoYounger(m.into, i)

\* The ids a merge took away.
Gone(m) == IdsOf(m.members) \ {m.into}

\* No entry between n and k has used the record that entry n left.
Untouched(log, n, k) == \A j \in (n + 1)..(k - 1) : log[n].into \notin IdsOf(log[j].members)

\* r, if it has the id of what m left, answers for what the members of m did.
Made(m, r) == m.members # {} /\ r.id = m.into => Fam(r) = FamOf(m.members)

\* What a merge log says of the records that are live.
LogOK(log, recs, all) ==
    /\ log \in Seq([into : Ids, members : SUBSET Records])
    /\ \A n \in DOMAIN log : LogEntry(log[n], all)
    /\ \A n \in DOMAIN log : Gone(log[n]) \cap IdsOf(recs) = {}
    /\ \A n, k \in DOMAIN log : n < k => Gone(log[n]) \cap IdsOf(log[k].members) = {}
    /\ \A n \in DOMAIN log : Untouched(log, n, Len(log) + 1) => \A r \in recs : Made(log[n], r)
    /\ \A n, k \in DOMAIN log :
          n < k /\ Untouched(log, n, k) => \A r \in log[k].members : Made(log[n], r)

LEMMA LogTakesArrivals ==
    ASSUME NEW log, NEW recs, NEW all, NEW new, NEW more, LogOK(log, recs, all),
           IdsOf(new) \cap all = {}, all \subseteq more
    PROVE  LogOK(log, recs \cup new, more)
<1>1. \A n \in DOMAIN log : IdsOf(log[n].members) \subseteq all
  BY DEF LogOK, LogEntry, FamOf, Fam, IdsOf
<1>2. \A n \in DOMAIN log : LogEntry(log[n], more)
  BY DEF LogOK, LogEntry
<1>3. IdsOf(recs \cup new) = IdsOf(recs) \cup IdsOf(new)
  BY DEF IdsOf
<1>4. \A n \in DOMAIN log : Gone(log[n]) \cap IdsOf(recs \cup new) = {}
  BY <1>1, <1>3 DEF LogOK, Gone
<1>5. ASSUME NEW n \in DOMAIN log, NEW r \in new PROVE Made(log[n], r)
  <2>1. r.id \notin all
    BY DEF IdsOf
  <2>2. log[n].members # {} => log[n].into \in all
    BY <1>1 DEF LogOK, LogEntry
  <2>3. QED
    BY <2>1, <2>2 DEF Made
<1>6. QED
  BY <1>2, <1>4, <1>5 DEF LogOK

\* _build_cluster adds the last entry.
LEMMA LogGrows ==
    ASSUME NEW log, NEW recs, NEW all, LogOK(log, recs, all), Folk(recs), FamOf(recs) = all,
           NEW mem \in SUBSET recs, NEW c \in mem, \A i \in IdsOf(mem) : NoYounger(c.id, i),
           NEW m, m.id = c.id, Fam(m) = FamOf(mem)
    PROVE  LogOK(Append(log, [into |-> c.id, members |-> mem]), (recs \ mem) \cup {m}, all)
<1> DEFINE e == [into |-> c.id, members |-> mem]
           lg == Append(log, e)
           L == Len(log)
           now == (recs \ mem) \cup {m}
<1>1. mem \subseteq Records /\ c.id \in Ids
  BY DEF Folk, Proper, Records
<1>2. /\ log \in Seq([into : Ids, members : SUBSET Records]) /\ L \in Nat /\ DOMAIN log = 1..L
      /\ e \in [into : Ids, members : SUBSET Records]
  BY <1>1 DEF LogOK
<1>3. /\ lg \in Seq([into : Ids, members : SUBSET Records]) /\ Len(lg) = L + 1
      /\ DOMAIN lg = 1..(L + 1) /\ lg[L + 1] = e /\ \A i \in 1..L : lg[i] = log[i]
  <2> HIDE DEF e
  <2>1. QED
    BY <1>2
<1>4. \A n \in 1..(L + 1) : n \in 1..L \/ n = L + 1
  BY <1>2
<1>5. e.into = c.id /\ e.members = mem
  OBVIOUS
<1>6. IdsOf(mem) \subseteq IdsOf(recs) /\ IdsOf(now) \subseteq IdsOf(recs) /\ c.id \in IdsOf(mem)
  BY DEF IdsOf
<1>7. LogEntry(e, all)
  <2>1. Folk(mem) /\ FamOf(mem) \subseteq all
    BY FewerFolk DEF FamOf
  <2>2. QED
    BY <2>1, <1>5, <1>6 DEF LogEntry
<1>8. \A n \in DOMAIN lg : LogEntry(lg[n], all)
  BY <1>2, <1>3, <1>4, <1>7 DEF LogOK
<1> HIDE DEF e, lg
<1>9. \A n \in DOMAIN lg : Gone(lg[n]) \cap IdsOf(now) = {}
  <2>1. ASSUME NEW t \in mem, t.id # c.id PROVE t.id \notin IdsOf(now)
    <3>1. \A r \in recs \ mem : r.id # t.id
      BY IdNames
    <3>2. m.id # t.id
      BY <2>1
    <3>3. QED
      BY <3>1, <3>2 DEF IdsOf
  <2>2. Gone(e) \cap IdsOf(now) = {}
    BY <2>1, <1>5 DEF Gone, IdsOf
  <2>3. \A n \in 1..L : Gone(log[n]) \cap IdsOf(now) = {}
    BY <1>2, <1>6 DEF LogOK
  <2>4. QED
    BY <2>2, <2>3, <1>3, <1>4
<1>10. ASSUME NEW n \in DOMAIN lg, NEW k \in DOMAIN lg, n < k
       PROVE  Gone(lg[n]) \cap IdsOf(lg[k].members) = {}
  <2>1. n \in 1..L
    BY <1>2, <1>3, <1>10
  <2>2. CASE k \in 1..L
    BY <2>1, <2>2, <1>2, <1>3, <1>10 DEF LogOK
  <2>3. CASE k = L + 1
    BY <2>1, <2>3, <1>2, <1>3, <1>5, <1>6 DEF LogOK
  <2>4. QED
    BY <2>2, <2>3, <1>3, <1>4
<1>11. ASSUME NEW n \in 1..L, NEW k \in 1..(L + 1), Untouched(lg, n, k)
       PROVE  Untouched(log, n, k)
  <2>1. ASSUME NEW j \in (n + 1)..(k - 1) PROVE log[n].into \notin IdsOf(log[j].members)
    <3>1. j \in 1..L /\ lg[n] = log[n]
      BY <1>2, <1>3
    <3>2. lg[j] = log[j]
      BY <3>1, <1>3
    <3>3. QED
      BY <3>1, <3>2, <1>11 DEF Untouched
  <2>2. QED
    BY <2>1 DEF Untouched
<1>12. ASSUME NEW n \in DOMAIN lg, Untouched(lg, n, L + 2), NEW r \in now
       PROVE  Made(lg[n], r)
  <2>1. CASE n = L + 1
    <3>1. \A q \in recs \ mem : q.id # c.id
      BY IdNames
    <3>2. r.id = c.id => r = m
      BY <3>1
    <3>3. QED
      BY <2>1, <3>2, <1>3, <1>5 DEF Made
  <2>2. CASE n \in 1..L
    <3>1. L + 1 \in (n + 1)..((L + 2) - 1)
      BY <2>2, <1>2
    <3>2. lg[n].into \notin IdsOf(mem)
      BY <3>1, <1>3, <1>5, <1>12 DEF Untouched
    <3>3. \A j \in (n + 1)..((L + 1) - 1) : j \in (n + 1)..((L + 2) - 1)
      BY <2>2, <1>2
    <3>4. Untouched(lg, n, L + 1)
      BY <3>3, <1>12 DEF Untouched
    <3>5. Untouched(log, n, L + 1)
      <4>1. L + 1 \in 1..(L + 1)
        BY <1>2
      <4>2. QED
        BY <4>1, <2>2, <3>4, <1>11
    <3>6. CASE r = m
      BY <3>2, <3>6, <1>6 DEF Made
    <3>7. CASE r \in recs
      BY <2>2, <3>5, <3>7, <1>2, <1>3 DEF LogOK
    <3>8. QED
      BY <3>6, <3>7
  <2>3. QED
    BY <2>1, <2>2, <1>3, <1>4
<1>13. ASSUME NEW n \in DOMAIN lg, NEW k \in DOMAIN lg, n < k, Untouched(lg, n, k),
              NEW r \in lg[k].members
       PROVE  Made(lg[n], r)
  <2>1. n \in 1..L /\ k \in 1..(L + 1) /\ lg[n] = log[n]
    BY <1>2, <1>3, <1>13
  <2>2. Untouched(log, n, k)
    BY <2>1, <1>11, <1>13
  <2>3. CASE k \in 1..L
    BY <2>1, <2>2, <2>3, <1>2, <1>3, <1>13 DEF LogOK
  <2>4. CASE k = L + 1
    <3>1. r \in recs
      BY <2>4, <1>3, <1>5
    <3>2. QED
      BY <2>1, <2>2, <2>4, <3>1, <1>2 DEF LogOK
  <2>5. QED
    BY <2>3, <2>4, <1>3, <1>4
<1>14. (L + 1) + 1 = L + 2
  BY <1>2
<1>15. LogOK(lg, now, all)
  BY <1>3, <1>8, <1>9, <1>10, <1>12, <1>13, <1>14 DEF LogOK
<1>16. QED
  BY <1>15 DEF lg, e

Cut(log, n, rest) == [log EXCEPT ![n].members = rest]
Swapped(recs, id, targets, m) == {r \in recs : r.id # id} \cup targets \cup {m}

\* unmerge cuts the last merge of an id down to the members that stay.
LEMMA LogShrinks ==
    ASSUME NEW log, NEW recs, NEW all, LogOK(log, recs, all), Folk(recs),
           NEW n0 \in DOMAIN log, NEW c \in log[n0].members, c.id = log[n0].into, c.id \in IdsOf(recs),
           \A k \in (n0 + 1)..Len(log) : c.id \notin IdsOf(log[k].members),
           NEW targets \in SUBSET (log[n0].members \ {c}), NEW kept, kept = log[n0].members \ targets,
           NEW m, m.id = c.id, Fam(m) = FamOf(kept), kept = {c} => m = c,
           NEW rest, rest = IF kept = {c} THEN {} ELSE kept
    PROVE  LogOK(Cut(log, n0, rest), Swapped(recs, c.id, targets, m), all)
<1> DEFINE old == log[n0].members
           into == c.id
           L == Len(log)
           lg == Cut(log, n0, rest)
           now == Swapped(recs, c.id, targets, m)
<1>0. now = {r \in recs : r.id # into} \cup targets \cup {m}
  BY DEF Swapped
<1>1. /\ log \in Seq([into : Ids, members : SUBSET Records]) /\ L \in Nat /\ DOMAIN log = 1..L
      /\ n0 \in 1..L
  BY DEF LogOK
<1>2. LogEntry(log[n0], all) /\ Folk(old) /\ c \in kept /\ rest \subseteq kept /\ kept \subseteq old
  BY DEF LogOK, LogEntry
<1>3. /\ lg \in Seq([into : Ids, members : SUBSET Records]) /\ Len(lg) = L /\ DOMAIN lg = 1..L
      /\ \A i \in 1..L : lg[i].into = log[i].into
      /\ \A i \in 1..L : i # n0 => lg[i] = log[i]
      /\ lg[n0].members = rest
  <2>1. log[n0] \in [into : Ids, members : SUBSET Records]
    BY <1>1, ElementOfSeq
  <2>2. rest \in SUBSET Records
    BY <1>2, <2>1
  <2>3. [log[n0] EXCEPT !.members = rest] \in [into : Ids, members : SUBSET Records]
    BY <2>1, <2>2
  <2>4. [log[n0] EXCEPT !.members = rest].members = rest /\ [log[n0] EXCEPT !.members = rest].into = log[n0].into
    BY <2>1
  <2> DEFINE e == [log[n0] EXCEPT !.members = rest]
  <2>5. lg = [log EXCEPT ![n0] = e]
    BY DEF Cut
  <2> HIDE DEF e, lg
  <2>6. Len(lg) = L /\ DOMAIN lg = 1..L /\ lg \in Seq([into : Ids, members : SUBSET Records])
    BY <1>1, <2>3, <2>5 DEF e
  <2>7. lg[n0] = e /\ \A i \in 1..L : i # n0 => lg[i] = log[i]
    BY <1>1, <2>5
  <2>8. QED
    BY <2>4, <2>6, <2>7 DEF e
<1> HIDE DEF lg, now
<1>4. rest # {} => rest = kept
  OBVIOUS
<1>5. \A t \in targets : t.id # into /\ t.id \in Gone(log[n0])
  <2>1. \A t \in targets : t \in old /\ t # c /\ c \in old
    OBVIOUS
  <2>2. \A t \in targets : t.id # into
    BY <2>1, <1>2, IdNames
  <2>3. \A t \in targets : t.id \in IdsOf(old)
    BY <2>1 DEF IdsOf
  <2>4. QED
    BY <2>2, <2>3 DEF Gone
<1>6. IdsOf(now) = IdsOf({r \in recs : r.id # into}) \cup IdsOf(targets) \cup {into}
  BY <1>0 DEF IdsOf
<1>7. IdsOf(now) \subseteq IdsOf(recs) \cup IdsOf(targets)
  BY <1>6 DEF IdsOf
<1>8. \A n \in 1..L : IdsOf(lg[n].members) \subseteq IdsOf(log[n].members)
  BY <1>2, <1>3 DEF IdsOf
<1>9. \A n \in 1..L : Gone(lg[n]) \subseteq Gone(log[n])
  BY <1>3, <1>8 DEF Gone
<1>10. IdsOf(targets) \subseteq Gone(log[n0])
  BY <1>5 DEF IdsOf
<1>11. ASSUME NEW n \in DOMAIN lg PROVE LogEntry(lg[n], all)
  <2>1. CASE n # n0
    BY <2>1, <1>1, <1>3 DEF LogOK
  <2>2. CASE n = n0
    <3>1. Folk(rest) /\ FamOf(rest) \subseteq all
      BY <1>2, FewerFolk DEF LogEntry, FamOf
    <3>2. ASSUME rest # {} PROVE into \in IdsOf(rest) /\ \A i \in IdsOf(rest) : NoYounger(into, i)
      <4>1. c \in rest /\ IdsOf(rest) \subseteq IdsOf(old)
        BY <3>2, <1>2, <1>4 DEF IdsOf
      <4>2. QED
        BY <4>1, <1>2 DEF LogEntry, IdsOf
    <3>3. QED
      BY <2>2, <3>1, <3>2, <1>1, <1>3 DEF LogEntry
  <2>3. QED
    BY <2>1, <2>2
<1>12. ASSUME NEW n \in DOMAIN lg PROVE Gone(lg[n]) \cap IdsOf(now) = {}
  <2>1. Gone(log[n]) \cap IdsOf(recs) = {}
    BY <1>1, <1>3 DEF LogOK
  <2>2. Gone(lg[n]) \cap IdsOf(targets) = {}
    <3>1. CASE n = n0
      <4>1. ASSUME NEW t \in targets, NEW r \in rest PROVE t.id # r.id
        BY <1>2, IdNames
      <4>2. Gone(lg[n]) \subseteq IdsOf(rest)
        BY <3>1, <1>3 DEF Gone
      <4>3. QED
        BY <4>1, <4>2 DEF IdsOf
    <3>2. CASE n < n0
      <4>1. Gone(log[n]) \cap IdsOf(old) = {}
        BY <3>2, <1>1, <1>3 DEF LogOK
      <4>2. QED
        BY <4>1, <1>3, <1>9, <1>10 DEF Gone
    <3>3. CASE n0 < n
      <4>1. Gone(log[n0]) \cap IdsOf(log[n].members) = {}
        BY <3>3, <1>1, <1>3 DEF LogOK
      <4>2. QED
        BY <4>1, <1>3, <1>9, <1>10 DEF Gone
    <3>4. QED
      BY <3>1, <3>2, <3>3, <1>1, <1>3
  <2>3. QED
    BY <2>1, <2>2, <1>3, <1>7, <1>9
<1>13. ASSUME NEW n \in DOMAIN lg, NEW k \in DOMAIN lg, n < k
       PROVE  Gone(lg[n]) \cap IdsOf(lg[k].members) = {}
  <2>1. Gone(log[n]) \cap IdsOf(log[k].members) = {}
    BY <1>1, <1>3, <1>13 DEF LogOK
  <2>2. QED
    BY <2>1, <1>3, <1>8, <1>9
\* Away from n0, what was untouched is.
<1>14. ASSUME NEW n \in 1..L, NEW k \in 1..(L + 1), Untouched(lg, n, k),
              n < n0 /\ n0 < k => log[n].into \notin IdsOf(old)
       PROVE  Untouched(log, n, k)
  <2>1. ASSUME NEW j \in (n + 1)..(k - 1) PROVE log[n].into \notin IdsOf(log[j].members)
    <3>1. j \in 1..L /\ n < j /\ j < k
      BY <1>1
    <3>2. CASE j = n0
      BY <3>1, <3>2, <1>14
    <3>3. CASE j # n0
      BY <3>1, <3>3, <1>3, <1>14 DEF Untouched
    <3>4. QED
      BY <3>2, <3>3
  <2>2. QED
    BY <2>1 DEF Untouched
<1>15. ASSUME NEW n \in DOMAIN lg, Untouched(lg, n, L + 1), NEW r \in now,
              lg[n].members # {}, r.id = lg[n].into
       PROVE  Fam(r) = FamOf(lg[n].members)
  <2>1. n \in 1..L /\ L + 1 \in 1..(L + 1) /\ r.id = log[n].into
    BY <1>1, <1>3, <1>15
  <2>2. CASE n = n0
    <3>1. r.id = into /\ rest = kept
      BY <2>1, <2>2, <1>3, <1>4, <1>15
    <3>2. r = m
      BY <3>1, <1>0, <1>5
    <3>3. QED
      BY <2>2, <3>1, <3>2, <1>3
  <2>3. CASE n0 < n
    <3>1. log[n].members # {} /\ log[n].into \in IdsOf(log[n].members)
      BY <2>1, <2>3, <1>1, <1>3, <1>15 DEF LogOK, LogEntry
    <3>2. n \in (n0 + 1)..L
      BY <2>1, <2>3, <1>1
    <3>3. r.id # into
      BY <2>1, <3>1, <3>2
    <3>4. r \notin targets
      <4>1. Gone(log[n0]) \cap IdsOf(log[n].members) = {}
        BY <2>1, <2>3, <1>1 DEF LogOK
      <4>2. QED
        BY <2>1, <3>1, <4>1, <1>5
    <3>5. r \in recs
      BY <3>3, <3>4, <1>0
    <3>6. Untouched(log, n, L + 1)
      BY <2>1, <2>3, <1>1, <1>14, <1>15
    <3>7. QED
      BY <2>1, <2>3, <3>1, <3>5, <3>6, <1>1, <1>3 DEF LogOK, Made
  <2>4. CASE n < n0
    <3>1. lg[n] = log[n]
      BY <2>1, <2>4, <1>1, <1>3
    <3>2. CASE r \in recs /\ r.id # into
      <4>1. log[n].into \notin IdsOf(old)
        <5>1. Gone(log[n0]) \cap IdsOf(recs) = {}
          BY DEF LogOK
        <5>2. r.id \in IdsOf(recs)
          BY <3>2 DEF IdsOf
        <5>3. QED
          BY <2>1, <3>2, <5>1, <5>2 DEF Gone
      <4>2. Untouched(log, n, L + 1)
        BY <2>1, <4>1, <1>14, <1>15
      <4>3. QED
        BY <2>1, <3>1, <3>2, <4>2, <1>1, <1>15 DEF LogOK, Made
    <3>3. ASSUME r \in old PROVE Fam(r) = FamOf(lg[n].members)
      <4>1. Untouched(log, n, n0)
        <5>1. \A j \in (n + 1)..(n0 - 1) : j \in (n + 1)..((L + 1) - 1) /\ j \in 1..L /\ j # n0
          BY <2>1, <2>4, <1>1
        <5>2. QED
          BY <5>1, <2>1, <1>3, <1>15 DEF Untouched
      <4>2. QED
        BY <2>1, <2>4, <3>1, <3>3, <4>1, <1>1, <1>15 DEF LogOK, Made
    <3>4. CASE r \in targets
      BY <3>3, <3>4
    <3>5. CASE r = m
      <4>1. n0 \in (n + 1)..((L + 1) - 1)
        BY <2>1, <2>4, <1>1
      <4>2. into \notin IdsOf(rest)
        BY <2>1, <3>5, <4>1, <1>3, <1>15 DEF Untouched
      <4>3. rest = {}
        BY <4>2, <1>2, <1>4 DEF IdsOf
      <4>4. m = c
        BY <4>3, <1>2
      <4>5. QED
        BY <3>3, <3>5, <4>4
    <3>6. QED
      BY <3>2, <3>4, <3>5, <1>0
  <2>5. QED
    BY <2>1, <2>2, <2>3, <2>4, <1>1
<1>16. ASSUME NEW n \in DOMAIN lg, NEW k \in DOMAIN lg, n < k, Untouched(lg, n, k),
              NEW r \in lg[k].members, lg[n].members # {}, r.id = lg[n].into
       PROVE  Fam(r) = FamOf(lg[n].members)
  <2>1. n \in 1..L /\ k \in 1..L /\ k \in 1..(L + 1) /\ r.id = log[n].into
    BY <1>1, <1>3, <1>16
  <2>2. r \in log[k].members /\ r.id \in IdsOf(log[k].members)
    BY <2>1, <1>2, <1>3 DEF IdsOf
  <2>3. n0 < k => r.id # into
    <3>1. n0 < k => k \in (n0 + 1)..L
      BY <2>1, <1>1
    <3>2. QED
      BY <2>2, <3>1
  <2>4. n # n0
    BY <2>1, <2>3, <1>16
  <2>5. n0 < k => r.id \notin IdsOf(old)
    <3>1. n0 < k => Gone(log[n0]) \cap IdsOf(log[k].members) = {}
      BY <2>1, <1>1 DEF LogOK
    <3>2. QED
      BY <2>2, <2>3, <3>1 DEF Gone
  <2>6. Untouched(log, n, k)
    BY <2>1, <2>5, <1>14, <1>16
  <2>7. lg[n] = log[n]
    BY <2>1, <2>4, <1>3
  <2>8. QED
    BY <2>1, <2>2, <2>6, <2>7, <1>1, <1>16 DEF LogOK, Made
<1>17. LogOK(lg, now, all)
  BY <1>3, <1>11, <1>12, <1>13, <1>15, <1>16 DEF LogOK, Made
<1>18. QED
  BY <1>17 DEF lg, now

\* The clusters of a pass are disjoint, of one component each, and live.
RefiningOK(components, ids) ==
    /\ \A c \in UNION components : c # {} /\ c \subseteq ids
    /\ \A c, d \in UNION components : c \cap d # {} => c = d
    /\ \A x, y \in components : x \cap y # {} => x = y

\* The record of a merge, as it was written: its survivor is one of its members.
Recorded(m) ==
    /\ Kin(m.members) /\ m.into \in IdsOf(m.members)
    /\ \A i \in IdsOf(m.members) : NoYounger(m.into, i)

LogSound(log, all) ==
    /\ log \in Seq([into : Ids, members : SUBSET Records])
    /\ \A n \in DOMAIN log : Recorded(log[n]) /\ IdsOf(log[n].members) \subseteq all

\* While every un-merge was of an outermost merge.
StandingInOrder ==
    /\ Folk(live) /\ FamOf(live) = known
    /\ LogOK(standing, live, known) /\ Len(standing) = Len(merges)

ResolutionInv ==
    /\ Kin(live) /\ IdsOf(live) \subseteq known
    /\ RefiningOK(refining, LiveIds)
    /\ LogSound(merges, known)
    /\ mustNot \subseteq Pairs /\ passes \in 0..MaxPasses /\ unmerges \in 0..MaxUnmerges
    /\ strayed \in BOOLEAN /\ (~strayed => StandingInOrder)

LEMMA LiveIdsAre == LiveIds = IdsOf(live) /\ LiveIds' = IdsOf(live')
  BY DEF LiveIds, IdsOf

LEMMA NothingRefining == ASSUME NEW ids PROVE RefiningOK({}, ids)
  BY DEF RefiningOK

LEMMA LogStaysSound ==
    ASSUME NEW log, NEW all, NEW more, LogSound(log, all), all \subseteq more
    PROVE  LogSound(log, more)
  BY DEF LogSound

LEMMA LogGrowsSound ==
    ASSUME NEW log, NEW all, LogSound(log, all), NEW mem \in SUBSET Records, Kin(mem),
           NEW c \in mem, \A i \in IdsOf(mem) : NoYounger(c.id, i), IdsOf(mem) \subseteq all
    PROVE  LogSound(Append(log, [into |-> c.id, members |-> mem]), all)
<1> DEFINE e == [into |-> c.id, members |-> mem]
           lg == Append(log, e)
           L == Len(log)
<1>1. c.id \in Ids /\ c.id \in IdsOf(mem)
  BY DEF Records, IdsOf
<1>2. e \in [into : Ids, members : SUBSET Records] /\ e.into = c.id /\ e.members = mem
  BY <1>1
<1>3. Recorded(e) /\ IdsOf(e.members) \subseteq all
  BY <1>1, <1>2 DEF Recorded
<1>4. log \in Seq([into : Ids, members : SUBSET Records]) /\ L \in Nat /\ DOMAIN log = 1..L
  BY DEF LogSound
<1> HIDE DEF e
<1>5. /\ lg \in Seq([into : Ids, members : SUBSET Records])
      /\ DOMAIN lg = 1..(L + 1) /\ lg[L + 1] = e /\ \A i \in 1..L : lg[i] = log[i]
  BY <1>2, <1>4
<1>6. \A n \in 1..(L + 1) : n \in 1..L \/ n = L + 1
  BY <1>4
<1> HIDE DEF lg
<1>7. \A n \in DOMAIN lg : Recorded(lg[n]) /\ IdsOf(lg[n].members) \subseteq all
  BY <1>3, <1>4, <1>5, <1>6 DEF LogSound
<1>8. LogSound(lg, all)
  BY <1>5, <1>7 DEF LogSound
<1>9. QED
  BY <1>8 DEF lg, e

LEMMA ArrivalsKeepOrder ==
    ASSUME ResolutionInv, Arrive PROVE ResolutionInv'
<1>1. PICK ids \in SUBSET (Ids \ known) :
          known' = known \cup ids /\ live' = live \cup {Fresh(i) : i \in ids}
  BY DEF Arrive
<1> DEFINE new == {Fresh(i) : i \in ids}
<1>2. /\ refining = {} /\ refining' = {}
      /\ merges' = merges /\ mustNot' = mustNot /\ passes' = passes /\ unmerges' = unmerges
      /\ standing' = standing /\ strayed' = strayed
  BY DEF Arrive
<1>3. \A i \in ids : Fresh(i).id = i /\ Fam(Fresh(i)) = {i} /\ Proper(Fresh(i))
  <2>1. ASSUME NEW i \in ids PROVE i \in Ids /\ FirstSeen[i] \in Nat /\ Mentions[i] \in Nat
    BY ResolutionAssumption DEF ResolutionAssumption
  <2>2. QED
    BY <2>1 DEF Fresh, Fam, Proper, Records
<1>4. IdsOf(new) = ids /\ FamOf(new) = ids
  BY <1>3 DEF IdsOf, FamOf
<1>5. Folk(new)
  <2>1. IsFiniteSet(ids)
    BY FS_Subset, ResolutionAssumption DEF ResolutionAssumption
  <2> DEFINE f == [i \in ids |-> Fresh(i)]
  <2>2. IsFiniteSet({f[i] : i \in DOMAIN f})
    BY <2>1, ImageIsFinite
  <2>3. new = {f[i] : i \in DOMAIN f}
    OBVIOUS
  <2>4. Apart(new)
    BY <1>3 DEF Apart
  <2>5. QED
    BY <2>2, <2>3, <2>4, <1>3 DEF Folk
<1> HIDE DEF new
<1>6. ids \cap known = {} /\ IdsOf(live) \cap IdsOf(new) = {}
  BY <1>1, <1>4 DEF ResolutionInv
<1>7. Kin(new)
  BY <1>5, FolkAreKin
<1>8. Kin(live \cup new)
  <2>1. IsFiniteSet(live \cup new)
    BY <1>7, FS_Union DEF ResolutionInv, Kin
  <2>2. \A r \in live, t \in new : r.id # t.id
    BY <1>6 DEF IdsOf
  <2>3. QED
    BY <2>1, <2>2, <1>7 DEF ResolutionInv, Kin
<1>9. live' = live \cup new
  BY <1>1 DEF new
<1>10. IdsOf(live') \subseteq known'
  BY <1>1, <1>4, <1>9 DEF ResolutionInv, IdsOf
<1>11. LogSound(merges', known')
  BY <1>1, <1>2, LogStaysSound DEF ResolutionInv
<1>12. ASSUME StandingInOrder PROVE StandingInOrder'
  <2>1. Folk(live \cup new)
    <3>1. \A r \in live, t \in new : Fam(r) \cap Fam(t) = {}
      <4>1. \A r \in live : Fam(r) \subseteq known
        BY <1>12 DEF StandingInOrder, FamOf
      <4>2. \A t \in new : Fam(t) \subseteq ids
        BY <1>4 DEF FamOf
      <4>3. QED
        BY <4>1, <4>2, <1>6
    <3>2. Apart(live \cup new)
      BY <3>1, <1>5, <1>12 DEF StandingInOrder, Folk, Apart
    <3>3. QED
      BY <3>2, <1>8 DEF Folk, Kin
  <2>2. FamOf(live \cup new) = known \cup ids
    BY <1>4, <1>12 DEF StandingInOrder, FamOf
  <2>3. LogOK(standing, live \cup new, known \cup ids)
    BY <1>4, <1>6, <1>12, LogTakesArrivals DEF StandingInOrder
  <2>4. QED
    BY <2>1, <2>2, <2>3, <1>1, <1>2, <1>9, <1>12 DEF StandingInOrder
<1>13. RefiningOK(refining', LiveIds')
  BY <1>2, NothingRefining
<1>14. Kin(live')
  BY <1>8, <1>9
<1>15. QED
  BY <1>2, <1>10, <1>11, <1>12, <1>13, <1>14 DEF ResolutionInv

LEMMA ComponentsDisjoint ==
    ASSUME NEW ids, NEW links, NEW c \in Components(ids, links), NEW d \in Components(ids, links),
           c \cap d # {}
    PROVE  c = d
<1>1. SelfContained(c \cap d, links)
  BY DEF Components, SelfContained
<1>2. c \cap d = c /\ c \cap d = d
  BY <1>1 DEF Components
<1>3. QED
  BY <1>2

LEMMA PassesKeepOrder ==
    ASSUME ResolutionInv, Resolve PROVE ResolutionInv'
<1> DEFINE links == {p \in Candidates(LiveIds) : p \notin mustNot /\ Accepted(p)}
           comps == Components(LiveIds, links)
<1>1. /\ refining' = {Singletons(c) : c \in comps} /\ passes' = passes + 1 /\ passes < MaxPasses
      /\ known' = known /\ live' = live /\ merges' = merges /\ mustNot' = mustNot
      /\ unmerges' = unmerges /\ standing' = standing /\ strayed' = strayed
  BY DEF Resolve
<1>2. passes' \in 0..MaxPasses
  <2>1. MaxPasses \in Nat /\ passes \in 0..MaxPasses
    BY ResolutionAssumption DEF ResolutionAssumption, ResolutionInv
  <2>2. passes' = passes + 1 /\ passes < MaxPasses
    BY <1>1
  <2>3. QED
    BY <2>1, <2>2
<1>3. \A c \in comps : c # {} /\ c \subseteq LiveIds
  BY DEF Components
<1>4. \A c, d \in comps : c \cap d # {} => c = d
  BY ComponentsDisjoint
<1> HIDE DEF comps
<1>5. RefiningOK({Singletons(c) : c \in comps}, LiveIds)
  <2>1. \A x \in UNION {Singletons(c) : c \in comps} : \E i \in LiveIds : x = {i}
    BY <1>3 DEF Singletons
  <2>2. ASSUME NEW c \in comps, NEW d \in comps, Singletons(c) \cap Singletons(d) # {}
        PROVE  c = d
    <3>1. PICK i \in c, j \in d : {i} = {j}
      BY <2>2 DEF Singletons
    <3>2. QED
      BY <3>1, <1>4
  <2> DEFINE all == {Singletons(c) : c \in comps}
  <2>3. \A x, y \in all : x \cap y # {} => x = y
    BY <2>2
  <2>4. ASSUME NEW x \in UNION all, NEW y \in UNION all, x \cap y # {} PROVE x = y
    <3>1. PICK i \in LiveIds : x = {i}
      BY <2>1
    <3>2. PICK j \in LiveIds : y = {j}
      BY <2>1
    <3>3. QED
      BY <3>1, <3>2, <2>4
  <2>5. \A x \in UNION all : x # {} /\ x \subseteq LiveIds
    BY <2>1
  <2> HIDE DEF all
  <2>6. RefiningOK(all, LiveIds)
    BY <2>3, <2>4, <2>5 DEF RefiningOK
  <2>7. QED
    BY <2>6 DEF all
<1>6. LiveIds' = LiveIds
  BY <1>1 DEF LiveIds
<1>7. StandingInOrder => StandingInOrder'
  BY <1>1 DEF StandingInOrder
<1>8. RefiningOK(refining', LiveIds')
  BY <1>1, <1>5, <1>6
<1>9. QED
  BY <1>1, <1>2, <1>7, <1>8 DEF ResolutionInv

LEMMA JoinsKeepOrder ==
    ASSUME ResolutionInv, Join PROVE ResolutionInv'
<1>1. PICK clusters \in refining : \E best \in Near(clusters) :
          refining' = (refining \ {clusters}) \cup {(clusters \ best) \cup {UNION best}}
  BY DEF Join
<1>2. PICK best \in Near(clusters) :
          refining' = (refining \ {clusters}) \cup {(clusters \ best) \cup {UNION best}}
  BY <1>1
<1>3. /\ known' = known /\ live' = live /\ merges' = merges /\ mustNot' = mustNot
      /\ passes' = passes /\ unmerges' = unmerges /\ standing' = standing /\ strayed' = strayed
  BY DEF Join
<1>4. best \subseteq clusters /\ Cardinality(best) = 2
  BY <1>2 DEF Near, kSubset
<1>5. best # {}
  BY <1>4, FS_EmptySet
<1> DEFINE joined == UNION best
           part == (clusters \ best) \cup {joined}
           after == (refining \ {clusters}) \cup {part}
<1>6. /\ \A c \in UNION refining : c # {} /\ c \subseteq LiveIds
      /\ \A c, d \in UNION refining : c \cap d # {} => c = d
      /\ \A x, y \in refining : x \cap y # {} => x = y
  BY DEF ResolutionInv, RefiningOK
<1>7. best \subseteq UNION refining /\ clusters \subseteq UNION refining
  BY <1>4
<1>8. joined # {} /\ joined \subseteq LiveIds
  BY <1>5, <1>6, <1>7
<1>9. ASSUME NEW c \in UNION refining, c \cap joined # {} PROVE c \in best
  <2>1. PICK d \in best : c \cap d # {}
    BY <1>9
  <2>2. c = d
    BY <2>1, <1>6, <1>7
  <2>3. QED
    BY <2>1, <2>2
<1> HIDE DEF joined
<1>10. ASSUME NEW x \in refining, x # clusters PROVE x \cap part = {}
  <2>1. x \cap clusters = {}
    BY <1>6, <1>10
  <2>2. joined \notin x
    <3>1. ASSUME joined \in x PROVE FALSE
      <4>1. joined \in UNION refining
        BY <3>1
      <4>2. joined \cap joined # {}
        BY <1>8
      <4>3. joined \in best
        BY <4>1, <4>2, <1>9
      <4>4. QED
        BY <3>1, <4>3, <2>1, <1>4
    <3>2. QED
      BY <3>1
  <2>3. QED
    BY <2>1, <2>2
<1>11. \A c \in UNION after : c = joined \/ (c \in UNION refining /\ c \notin best)
  <2>1. \A x \in refining : x # clusters => x \cap best = {}
    BY <1>4, <1>6
  <2>2. QED
    BY <2>1
<1>12. \A c \in UNION after : c # {} /\ c \subseteq LiveIds
  BY <1>6, <1>8, <1>11
<1>13. \A c, d \in UNION after : c \cap d # {} => c = d
  BY <1>6, <1>9, <1>11
<1>14. \A x, y \in after : x \cap y # {} => x = y
  BY <1>6, <1>10
<1>15. RefiningOK(after, LiveIds)
  BY <1>12, <1>13, <1>14 DEF RefiningOK
<1>16. LiveIds' = LiveIds
  BY <1>3 DEF LiveIds
<1>17. refining' = after
  BY <1>2 DEF joined
<1> HIDE DEF after
<1>18. StandingInOrder => StandingInOrder'
  BY <1>3 DEF StandingInOrder
<1>19. QED
  BY <1>3, <1>15, <1>16, <1>17, <1>18 DEF ResolutionInv

LEMMA BuildsKeepOrder ==
    ASSUME ResolutionInv, Build PROVE ResolutionInv'
<1>0. PICK clusters \in refining : \E c \in clusters :
         LET members == {r \in live : r.id \in c}
             survivor == Survivor(members)
         IN  /\ IF Cardinality(c) = 1 THEN UNCHANGED <<live, merges, standing>>
                ELSE /\ live' = (live \ members) \cup {MergeInto(survivor, members)}
                     /\ merges' = Append(merges, [into |-> survivor.id, members |-> members])
                     /\ standing' = Append(standing, [into |-> survivor.id, members |-> members])
             /\ refining' = (refining \ {clusters}) \cup ({clusters \ {c}} \ {{}})
  BY DEF Build
<1>1. PICK c \in clusters :
         LET members == {r \in live : r.id \in c}
             survivor == Survivor(members)
         IN  /\ IF Cardinality(c) = 1 THEN UNCHANGED <<live, merges, standing>>
                ELSE /\ live' = (live \ members) \cup {MergeInto(survivor, members)}
                     /\ merges' = Append(merges, [into |-> survivor.id, members |-> members])
                     /\ standing' = Append(standing, [into |-> survivor.id, members |-> members])
             /\ refining' = (refining \ {clusters}) \cup ({clusters \ {c}} \ {{}})
  BY <1>0
<1> DEFINE mem == {r \in live : r.id \in c}
           s == Survivor(mem)
           m == MergeInto(s, mem)
<1>2. /\ known' = known /\ mustNot' = mustNot /\ passes' = passes /\ unmerges' = unmerges
      /\ strayed' = strayed
  BY DEF Build
<1>3. /\ \A d \in UNION refining : d # {} /\ d \subseteq LiveIds
      /\ \A d, e \in UNION refining : d \cap e # {} => d = e
      /\ \A x, y \in refining : x \cap y # {} => x = y
  BY DEF ResolutionInv, RefiningOK
<1>4. refining' = (refining \ {clusters}) \cup ({clusters \ {c}} \ {{}})
  BY <1>1
<1>5. \A d \in UNION refining' : d \in UNION refining /\ d \cap c = {}
  <2>1. \A x \in refining : x # clusters => c \notin x
    BY <1>1, <1>3
  <2>2. \A d \in UNION refining' : d \in UNION refining /\ d # c
    BY <1>4, <2>1
  <2>3. QED
    BY <1>1, <1>3, <2>2
<1>6. \A x, y \in refining' : x \cap y # {} => x = y
  BY <1>3, <1>4
<1>7. CASE Cardinality(c) = 1
  <2>1. live' = live /\ merges' = merges /\ standing' = standing
    BY <1>1, <1>7
  <2>2. LiveIds' = LiveIds
    BY <2>1 DEF LiveIds
  <2>3. RefiningOK(refining', LiveIds')
    BY <2>2, <1>3, <1>5, <1>6 DEF RefiningOK
  <2>4. StandingInOrder => StandingInOrder'
    BY <1>2, <2>1 DEF StandingInOrder
  <2>5. QED
    BY <1>2, <2>1, <2>3, <2>4 DEF ResolutionInv
<1>8. CASE Cardinality(c) # 1
  <2>1. /\ live' = (live \ mem) \cup {m}
        /\ merges' = Append(merges, [into |-> s.id, members |-> mem])
        /\ standing' = Append(standing, [into |-> s.id, members |-> mem])
    BY <1>1, <1>8
  <2>2. mem # {} /\ mem \subseteq live
    <3>1. c # {} /\ c \subseteq LiveIds
      BY <1>1, <1>3
    <3>2. QED
      BY <3>1 DEF LiveIds
  <2>3. \A r \in live \ mem : r.id \notin c
    OBVIOUS
  <2> HIDE DEF mem
  <2>4. Kin(live) /\ Kin(mem)
    BY <2>2, FewerKin DEF ResolutionInv
  <2>5. s \in mem /\ \A i \in IdsOf(mem) : NoYounger(s.id, i)
    BY <2>2, <2>4, SurvivorIsOldest
  <2> HIDE DEF s
  <2>6. m.id = s.id /\ Fam(m) = FamOf(mem) /\ Proper(m)
    BY <2>4, <2>5, MergedAnswers
  <2> HIDE DEF m
  <2>7. Kin(live')
    <3>1. IsFiniteSet(live \ mem) /\ IsFiniteSet({m})
      BY <2>4, FS_Difference, FS_Singleton DEF Kin
    <3>2. IsFiniteSet(live')
      BY <3>1, <2>1, FS_Union
    <3>3. \A r \in live \ mem : r.id # m.id
      BY <2>2, <2>4, <2>5, <2>6 DEF Kin
    <3>4. QED
      BY <3>2, <3>3, <2>1, <2>4, <2>6 DEF Kin
  <2>8. IdsOf(live') \subseteq known' /\ IdsOf(mem) \subseteq known
    BY <1>2, <2>1, <2>2, <2>5, <2>6 DEF ResolutionInv, IdsOf
  <2>9. LogSound(merges', known')
    <3>1. mem \in SUBSET Records
      BY <2>4 DEF Kin, Proper
    <3>2. LogSound(merges, known)
      BY DEF ResolutionInv
    <3>3. QED
      BY <3>1, <3>2, <1>2, <2>1, <2>4, <2>5, <2>8, LogGrowsSound
  <2>10. RefiningOK(refining', LiveIds')
    <3>1. ASSUME NEW d \in UNION refining', NEW i \in d PROVE i \in LiveIds'
      <4>1. PICK r \in live : r.id = i
        BY <1>3, <1>5 DEF LiveIds
      <4>2. r \notin mem
        BY <4>1, <1>5 DEF mem
      <4>3. QED
        BY <4>1, <4>2, <2>1 DEF LiveIds
    <3>2. QED
      BY <3>1, <1>3, <1>5, <1>6 DEF RefiningOK
  <2>11. ASSUME StandingInOrder PROVE StandingInOrder'
    <3>1. Folk(live) /\ FamOf(live) = known /\ Folk(mem)
      BY <2>2, <2>11, FewerFolk DEF StandingInOrder
    <3>2. Folk({m}) /\ FamOf(mem) = FamOf({m})
      BY <2>6, OneFolk
    <3>3. Folk(live') /\ FamOf(live') = known'
      BY <2>1, <2>2, <3>1, <3>2, <1>2, Exchange
    <3>4. LogOK(standing, live, known)
      BY <2>11 DEF StandingInOrder
    <3>5. LogOK(standing', live', known')
      BY <3>1, <3>4, <2>1, <2>2, <2>5, <2>6, <1>2, LogGrows
    <3>6. Len(standing') = Len(merges')
      <4>1. standing \in Seq([into : Ids, members : SUBSET Records])
        BY <3>4 DEF LogOK
      <4>2. merges \in Seq([into : Ids, members : SUBSET Records])
        BY DEF ResolutionInv, LogSound
      <4> DEFINE e == [into |-> s.id, members |-> mem]
      <4>3. standing' = Append(standing, e) /\ merges' = Append(merges, e)
        BY <2>1
      <4> HIDE DEF e
      <4>4. Len(standing') = Len(standing) + 1 /\ Len(merges') = Len(merges) + 1
        BY <4>1, <4>2, <4>3, LenProperties
      <4>5. QED
        BY <4>4, <2>11 DEF StandingInOrder
    <3>7. QED
      BY <3>3, <3>5, <3>6 DEF StandingInOrder
  <2>12. QED
    BY <1>2, <2>7, <2>8, <2>9, <2>10, <2>11 DEF ResolutionInv
<1>9. QED
  BY <1>7, <1>8

LEMMA UnmergesKeepOrder ==
    ASSUME ResolutionInv, Unmerge PROVE ResolutionInv'
<1>1. PICK n \in DOMAIN merges : \E canonical \in merges[n].members :
          /\ canonical.id = merges[n].into
          /\ \E targets \in SUBSET (merges[n].members \ {canonical}) :
                targets # {} /\ Detach(n, canonical, targets)
  BY DEF Unmerge
<1> DEFINE old == merges[n].members
           into == merges[n].into
<1>2. PICK c \in old :
          /\ c.id = into
          /\ \E targets \in SUBSET (old \ {c}) : targets # {} /\ Detach(n, c, targets)
  BY <1>1
<1>3. PICK targets \in SUBSET (old \ {c}) : targets # {} /\ Detach(n, c, targets)
  BY <1>2
<1> DEFINE kept == old \ targets
           m == IF kept = {c} THEN c ELSE MergeInto(c, kept)
           rest == IF kept = {c} THEN {} ELSE kept
           back == targets \cup {m}
           stay == {r \in live : r.id \notin IdsOf(back)}
<1>4. /\ live' = stay \cup back
      /\ mustNot' = mustNot \cup {{t.id, k.id} : t \in targets, k \in kept}
      /\ standing' = [standing EXCEPT ![n].members = rest]
      /\ strayed' = (strayed \/ ~Outermost(n, c))
  BY <1>3 DEF Detach, IdsOf
<1>5. /\ refining = {} /\ refining' = {} /\ known' = known /\ passes' = passes
      /\ unmerges < MaxUnmerges /\ unmerges' = unmerges + 1 /\ merges' = merges
  BY DEF Unmerge
<1>6. /\ Kin(live) /\ IdsOf(live) \subseteq known /\ LogSound(merges, known)
      /\ Kin(old) /\ (\A i \in IdsOf(old) : NoYounger(c.id, i)) /\ IdsOf(old) \subseteq known
  BY <1>1, <1>2 DEF ResolutionInv, LogSound, Recorded
<1>7. c \in kept /\ kept \subseteq old /\ Kin(kept) /\ Kin(targets)
  BY <1>2, <1>3, <1>6, FewerKin
<1>8. m.id = c.id /\ Fam(m) = FamOf(kept) /\ Proper(m)
  <2>1. CASE kept = {c}
    <3>1. m = c /\ Proper(c)
      BY <2>1, <1>7 DEF Kin
    <3>2. QED
      BY <2>1, <3>1, OneFolk
  <2>2. CASE kept # {c}
    <3>1. \A i \in IdsOf(kept) : NoYounger(c.id, i)
      BY <1>6, <1>7 DEF IdsOf
    <3>2. QED
      BY <2>2, <3>1, <1>7, MergedAnswers
  <2>3. QED
    BY <2>1, <2>2
<1>9. kept = {c} => m = c
  OBVIOUS
<1> HIDE DEF m
<1>10. Kin(back) /\ IdsOf(back) = IdsOf(targets) \cup {c.id}
  <2>1. IsFiniteSet(back)
    BY <1>7, FS_Singleton, FS_Union DEF Kin
  <2>2. \A t \in targets : t.id # m.id
    BY <1>2, <1>3, <1>6, <1>8 DEF Kin
  <2>3. Kin(back)
    BY <2>1, <2>2, <1>7, <1>8 DEF Kin
  <2>4. QED
    BY <2>3, <1>8 DEF IdsOf
<1>11. IdsOf(back) \subseteq known
  BY <1>2, <1>3, <1>6, <1>10 DEF IdsOf
<1> HIDE DEF back
<1>12. Kin(live') /\ IdsOf(live') \subseteq known'
  <2>1. Kin(stay)
    BY <1>6, FewerKin
  <2>2. \A r \in stay, t \in back : r.id # t.id
    BY DEF IdsOf
  <2>3. IsFiniteSet(live')
    BY <2>1, <1>4, <1>10, FS_Union DEF Kin
  <2>4. Kin(live')
    BY <2>1, <2>2, <2>3, <1>4, <1>10 DEF Kin
  <2>5. IdsOf(live') \subseteq IdsOf(live) \cup IdsOf(back)
    BY <1>4 DEF IdsOf
  <2>6. QED
    BY <2>4, <2>5, <1>5, <1>6, <1>11
<1>13. ASSUME StandingInOrder, Outermost(n, c) PROVE StandingInOrder'
  <2>1. /\ Folk(live) /\ FamOf(live) = known /\ LogOK(standing, live, known)
        /\ standing[n] = merges[n] /\ c.id \in IdsOf(live)
        /\ \A k \in (n + 1)..Len(standing) : c.id \notin IdsOf(standing[k].members)
    BY <1>13 DEF StandingInOrder, Outermost, LiveIds, IdsOf
  <2>2. /\ standing \in Seq([into : Ids, members : SUBSET Records]) /\ Len(standing) \in Nat
        /\ n \in DOMAIN standing
    <3>1. standing \in Seq([into : Ids, members : SUBSET Records])
      BY <2>1 DEF LogOK
    <3>2. merges \in Seq([into : Ids, members : SUBSET Records]) /\ Len(standing) = Len(merges)
      BY <1>6, <1>13 DEF LogSound, StandingInOrder
    <3>3. QED
      BY <3>1, <3>2
  <2>3. Folk(old) /\ Folk(kept) /\ IdsOf(old) \ {c.id} = Gone(standing[n])
    BY <2>1, <2>2, <1>2, <1>7, FewerFolk DEF LogOK, LogEntry, Gone
  <2>4. PICK r \in live : r.id = c.id
    BY <2>1 DEF IdsOf
  <2>5. stay = {q \in live : q.id # c.id}
    <3>1. Gone(standing[n]) \cap IdsOf(live) = {}
      BY <2>1, <2>2 DEF LogOK
    <3>2. \A t \in targets : t.id # c.id
      BY <1>2, <1>3, <1>6 DEF Kin
    <3>3. IdsOf(targets) \subseteq Gone(standing[n])
      BY <3>2, <2>3, <1>3 DEF IdsOf
    <3>4. IdsOf(targets) \cap IdsOf(live) = {}
      BY <3>1, <3>3
    <3>5. \A q \in live : q.id \notin IdsOf(targets)
      BY <3>4 DEF IdsOf
    <3>6. QED
      BY <3>5, <1>10
  <2>6. stay = live \ {r}
    BY <2>1, <2>4, <2>5, IdNames
  <2>7. Fam(r) = FamOf(old)
    <3>1. Untouched(standing, n, Len(standing) + 1)
      <4>1. \A k \in (n + 1)..((Len(standing) + 1) - 1) : k \in (n + 1)..Len(standing)
        BY <2>2
      <4>2. QED
        BY <4>1, <2>1, <1>2 DEF Untouched
    <3>2. Made(standing[n], r)
      BY <3>1, <2>1, <2>2, <2>4 DEF LogOK
    <3>3. QED
      BY <3>2, <2>1, <2>4, <1>2 DEF Made
  <2>8. Folk(back) /\ FamOf(back) = FamOf(old)
    <3>1. Folk({m}) /\ FamOf(kept) = FamOf({m})
      BY <1>8, OneFolk
    <3>2. back = (old \ kept) \cup {m}
      BY <1>3 DEF back
    <3>3. QED
      BY <3>1, <3>2, <2>3, <1>7, Exchange
  <2>9. Folk(live') /\ FamOf(live') = known
    <3>1. FamOf({r}) = FamOf(back)
      BY <2>1, <2>4, <2>7, <2>8, OneFolk DEF Folk
    <3>2. Folk((live \ {r}) \cup back) /\ FamOf((live \ {r}) \cup back) = known
      BY <3>1, <2>1, <2>4, <2>8, Exchange
    <3>3. QED
      BY <3>2, <2>6, <1>4
  <2> DEFINE keptNow == kept
             restNow == rest
  <2>10. keptNow = standing[n].members \ targets /\ restNow = IF keptNow = {c} THEN {} ELSE keptNow
    BY <2>1
  <2>11. standing' = Cut(standing, n, restNow) /\ live' = Swapped(live, c.id, targets, m)
    BY <2>5, <1>4 DEF Cut, Swapped, back
  <2>12. Fam(m) = FamOf(keptNow) /\ (keptNow = {c} => m = c) /\ m.id = c.id /\ c.id = standing[n].into
    BY <2>1, <1>2, <1>8, <1>9
  <2>13. targets \in SUBSET (standing[n].members \ {c}) /\ c \in standing[n].members
    BY <2>1, <1>2, <1>3
  <2> HIDE DEF keptNow, restNow
  <2>14. LogOK(standing', live', known)
    BY <2>1, <2>2, <2>10, <2>11, <2>12, <2>13, LogShrinks
  <2>15. Len(standing') = Len(standing)
    BY <2>2, <2>11 DEF Cut
  <2>16. QED
    BY <2>9, <2>14, <2>15, <1>5, <1>13 DEF StandingInOrder
<1>14. strayed' \in BOOLEAN /\ (~strayed' => StandingInOrder')
  <2>1. ~strayed' => ~strayed /\ Outermost(n, c)
    BY <1>4
  <2>2. ~strayed => StandingInOrder
    BY DEF ResolutionInv
  <2>3. strayed' \in BOOLEAN
    BY <1>4 DEF ResolutionInv
  <2>4. QED
    BY <2>1, <2>2, <2>3, <1>13
<1>15. LogSound(merges', known')
  BY <1>5, <1>6
<1>16. mustNot' \subseteq Pairs
  <2>1. ASSUME NEW t \in targets, NEW k \in kept PROVE {t.id, k.id} \in Pairs
    <3>1. t.id # k.id
      BY <1>3, <1>6, <1>7 DEF Kin
    <3>2. t.id \in Ids /\ k.id \in Ids
      BY <1>7 DEF Kin, Proper, Records
    <3>3. IsFiniteSet({t.id}) /\ Cardinality({t.id}) = 1 /\ {t.id, k.id} = {t.id} \cup {k.id}
      BY FS_Singleton
    <3>4. Cardinality({t.id, k.id}) = 1 + 1
      BY <3>1, <3>3, FS_AddElement
    <3>5. QED
      BY <3>2, <3>4 DEF Pairs, kSubset
  <2>2. QED
    BY <2>1, <1>4 DEF ResolutionInv
<1>17. unmerges' \in 0..MaxUnmerges
  <2>1. MaxUnmerges \in Nat /\ unmerges \in 0..MaxUnmerges
    BY ResolutionAssumption DEF ResolutionAssumption, ResolutionInv
  <2>2. QED
    BY <2>1, <1>5
<1>18. RefiningOK(refining', LiveIds')
  BY <1>5, NothingRefining
<1>19. passes' \in 0..MaxPasses
  BY <1>5 DEF ResolutionInv
<1>20. QED
  BY <1>12, <1>14, <1>15, <1>16, <1>17, <1>18, <1>19 DEF ResolutionInv

LEMMA ResolutionKeepsOrder ==
    ResolutionInv /\ [ResolutionNext]_resolutionVars => ResolutionInv'
<1> SUFFICES ASSUME ResolutionInv, [ResolutionNext]_resolutionVars PROVE ResolutionInv'
  OBVIOUS
<1>1. CASE UNCHANGED resolutionVars
  BY <1>1 DEF resolutionVars, ResolutionInv, StandingInOrder, LiveIds
<1>2. CASE Arrive
  BY <1>2, ArrivalsKeepOrder
<1>3. CASE Resolve
  BY <1>3, PassesKeepOrder
<1>4. CASE Join
  BY <1>4, JoinsKeepOrder
<1>5. CASE Build
  BY <1>5, BuildsKeepOrder
<1>6. CASE Unmerge
  BY <1>6, UnmergesKeepOrder
<1>7. QED
  BY <1>1, <1>2, <1>3, <1>4, <1>5, <1>6 DEF ResolutionNext

LEMMA ResolutionStartsInOrder == ResolutionInit => ResolutionInv
<1> SUFFICES ASSUME ResolutionInit PROVE ResolutionInv
  OBVIOUS
<1>1. /\ known = {} /\ live = {} /\ merges = <<>> /\ standing = <<>> /\ strayed = FALSE /\ mustNot = {} /\ refining = {}
      /\ passes = 0 /\ unmerges = 0
  BY DEF ResolutionInit
<1>2. Folk({}) /\ FamOf({}) = {}
  BY FS_EmptySet DEF Folk, Apart, FamOf
<1>3. LogOK(<<>>, {}, {})
  BY DEF LogOK
<1>4. passes \in 0..MaxPasses /\ unmerges \in 0..MaxUnmerges
  <2>1. MaxPasses \in Nat /\ MaxUnmerges \in Nat
    BY ResolutionAssumption DEF ResolutionAssumption
  <2>2. QED
    BY <2>1, <1>1
<1>5. LogSound(<<>>, {}) /\ IdsOf({}) = {} /\ Kin({})
  BY <1>2, FolkAreKin DEF LogSound, IdsOf
<1>6. QED
  BY <1>1, <1>2, <1>3, <1>4, <1>5, NothingRefining DEF ResolutionInv, StandingInOrder

LEMMA ResolutionStaysInOrder == ResolutionSpec => []ResolutionInv
  BY ResolutionStartsInOrder, ResolutionKeepsOrder, PTL DEF ResolutionSpec

\* The records of a resolution are records, with the ids of entities: every
\* merge and un-merge writes whole ones.
THEOREM ResolutionTypesHold == ResolutionSpec => []ResolutionTypeOK
<1>1. ResolutionInv => ResolutionTypeOK
  BY DEF ResolutionInv, ResolutionTypeOK, Kin, Proper, Records
<1>2. QED
  BY <1>1, ResolutionStaysInOrder, PTL

\* Across passes, late arrivals and corrections (_merge_into, elect_survivor,
\* unmerge) every id that was ever known leads to exactly one live record while
\* each un-merge is of an outermost merge, and whatever is undone, a record's
\* own id is no younger than the ids that lead to it.
THEOREM IdsLeadHomeHolds == ResolutionSpec => []IdsLeadHome
<1>1. ASSUME ResolutionInv PROVE IdsLeadHome
  <2>1. ASSUME StandingInOrder, NEW i \in known PROVE Cardinality({r \in live : i \in {r.id} \cup r.from}) = 1
    <3>1. PICK r \in live : i \in Fam(r)
      BY <2>1 DEF StandingInOrder, FamOf
    <3>2. {q \in live : i \in {q.id} \cup q.from} = {r}
      BY <2>1, <3>1 DEF StandingInOrder, Folk, Apart, Fam
    <3>3. QED
      BY <3>2, FS_Singleton
  <2>2. ASSUME NEW r \in live, NEW i \in r.from
        PROVE  FirstSeen[i] # 0 => FirstSeen[r.id] # 0 /\ FirstSeen[r.id] <= FirstSeen[i]
    BY <1>1 DEF ResolutionInv, Kin, Proper, NoYounger
  <2>3. ~strayed => StandingInOrder
    BY <1>1 DEF ResolutionInv
  <2>4. QED
    BY <2>1, <2>2, <2>3 DEF IdsLeadHome
<1>2. QED
  BY <1>1, ResolutionStaysInOrder, PTL
=============================================================================
