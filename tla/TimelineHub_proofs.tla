-------------------------- MODULE TimelineHub_proofs --------------------------
(***************************************************************************)
(* Proofs about the timeline hub of backend/api/v1/stream.py and the       *)
(* connections that read it.                                               *)
(*                                                                         *)
(* The argument is about one connection's line: snapshot, event in hand,   *)
(* mailbox.  It ascends, it lies after all that was sent and below what    *)
(* the hub has accepted, and an untold gap lies between the snapshot and   *)
(* the mailbox (InLine, Sent).  A publish extends the line at its end or   *)
(* moves its oldest live event into the gap; a frame takes what is first.  *)
(* That nothing is lost (Covered) then needs the ring to hold the newest   *)
(* events without a hole (RingInv), for that is what a new connection's    *)
(* snapshot is cut from.                                                   *)
(***************************************************************************)
EXTENDS TimelineHub, SequenceTheorems, WellFoundedInduction, TLAPS

Ascends(q) == \A i, j \in 1 .. Len(q) : i < j => q[i] < q[j]

Gaps == {<<>>} \cup {ga \in Seqs \X Seqs : ga[1] <= ga[2]}
Span(ga) == IF ga = <<>> THEN {} ELSE ga[1] .. ga[2]

Waiting(re, he, qu) == Elements(re) \cup Elements(qu) \cup ({he} \ {-1})

ChannelTypes ==
  /\ lastSeq \in Seqs \cup {-1} /\ accepted \subseteq Seqs
  /\ history \in Seq(Seqs) /\ Len(history) <= ReplayEvents

RunTypes ==
  next \in 0 .. Last + 1 /\ relay \in {"none", "running", "dead"} /\ asked \in BOOLEAN

SubTypes ==
  /\ pc \in [Slots -> {"free", "resume", "stream", "held"}]
  /\ after \in [Slots -> Seqs \cup {-1}] /\ floor \in [Slots -> Seqs \cup {-1}]
  /\ replay \in [Slots -> Seq(Seqs)] /\ queue \in [Slots -> Seq(Seqs)]
  /\ gap \in [Slots -> Gaps]
  /\ held \in [Slots -> Seqs \cup {-1}] /\ last \in [Slots -> Seqs \cup {-1}]
  /\ rendered \in [Slots -> SUBSET Seqs] /\ named \in [Slots -> SUBSET Seqs]

BrowserTypes ==
  /\ client \in {"waiting", "live", "done", "failed"}
  /\ conn \in Slots \cup {None}
  /\ clientSeq \in Seqs \cup {-1} /\ attempt \in 0 .. MaxAttempts

\* The ring ascends to the last event accepted and misses nothing of what was
\* accepted since its oldest.
RingInv ==
  /\ Ascends(history)
  /\ history = <<>> => lastSeq = -1 /\ accepted = {}
  /\ history # <<>> =>
       /\ history[Len(history)] = lastSeq
       /\ \A s \in accepted : s >= Head(history) => s \in Elements(history)
  /\ \A s \in accepted : s <= lastSeq

\* The line of a connection with snapshot re, he in hand, mailbox qu and the
\* untold gap ga, which was last sent la by a hub that has accepted up to top.
InLine(re, he, qu, ga, la, top) ==
  /\ Ascends(re) /\ Ascends(qu)
  /\ \A x \in Elements(re) :
       /\ la < x /\ x <= top
       /\ \A y \in Elements(qu) \cup Span(ga) : x < y
  /\ \A y \in Elements(qu) : la < y /\ y <= top /\ \A g \in Span(ga) : g < y
  /\ he # -1 => /\ re = <<>> /\ la < he /\ he <= top
                /\ \A y \in Elements(qu) \cup Span(ga) : he < y
  /\ \A g \in Span(ga) : la < g /\ g <= top
  /\ la <= top

\* What was rendered, and what was named in a gap frame, is behind the line.
Sent(re, he, qu, ga, la, rn, na, top) ==
  /\ \A n \in na : n <= top /\ \A p \in Waiting(re, he, qu) \cup Span(ga) : n < p
  /\ \A r \in rn : r <= la
  /\ na \cap rn = {}

\* A slot nobody has is empty; what is in hand, and a resumption, are where the
\* generator says.
Stage(k) ==
  /\ pc[k] = "free" => /\ replay[k] = <<>> /\ queue[k] = <<>> /\ gap[k] = <<>>
                       /\ last[k] = -1 /\ rendered[k] = {} /\ named[k] = {}
  /\ pc[k] # "held" => held[k] = -1
  /\ pc[k] = "resume" => /\ replay[k] # <<>> /\ last[k] = -1
                         /\ rendered[k] = {} /\ named[k] = {}

\* Nothing owed to the connection has been dropped.
Covered(k) ==
  pc[k] # "free" =>
    \A s \in accepted :
      s > floor[k] => s \in rendered[k] \cup named[k] \cup GapRange(k) \cup Owed(k) \cup Pending(k)

ConnInv(k) ==
  /\ InLine(replay[k], held[k], queue[k], gap[k], last[k], lastSeq)
  /\ Sent(replay[k], held[k], queue[k], gap[k], last[k], rendered[k], named[k], lastSeq)
  /\ Len(replay[k]) <= ReplayEvents /\ Len(queue[k]) <= QueueEvents
  /\ Stage(k) /\ Covered(k)

HubInv ==
  /\ ChannelTypes /\ RunTypes /\ SubTypes /\ BrowserTypes /\ RingInv
  /\ \A k \in Slots : ConnInv(k)

-----------------------------------------------------------------------------
\* A set of naturals has a least element: what CHOOSE needs in Above.
LEMMA LeastIsThere ==
    ASSUME NEW T \in SUBSET Nat, T # {} PROVE \E m \in T : \A n \in T : m <= n
<1>1. PICK m \in T : \A n \in T : <<n, m>> \notin OpToRel(<, Nat)
  BY WFMin, NatLessThanWellFounded, Zenon
<1>2. \A n \in T : ~(n < m)
  BY <1>1, Zenon DEF OpToRel
<1>3. QED
  BY <1>2

LEMMA SeqsAre ==
  /\ Last \in Nat /\ Seqs \subseteq Int /\ Seqs \cup {-1} \subseteq Int
  /\ \A s \in Seqs : s \in Nat /\ s # -1 /\ s > -1 /\ s <= Last
BY HubAssumption DEF Seqs

LEMMA ElementsAre == ASSUME NEW q \in Seq(Seqs) PROVE Elements(q) \subseteq Seqs /\ Elements(<<>>) = {}
BY DEF Elements

\* What a deque keeps when it takes one more at its end, and gives its first.
LEMMA AppendIs ==
    ASSUME NEW q \in Seq(Seqs), NEW s \in Seqs
    PROVE  /\ Append(q, s) \in Seq(Seqs) /\ Len(Append(q, s)) = Len(q) + 1 /\ Append(q, s) # <<>>
           /\ Append(q, s)[Len(q) + 1] = s
           /\ Elements(Append(q, s)) = Elements(q) \cup {s}
           /\ Ascends(q) /\ (\A x \in Elements(q) : x < s) => Ascends(Append(q, s))
<1>1. /\ Append(q, s) \in Seq(Seqs) /\ Len(Append(q, s)) = Len(q) + 1
      /\ \A i \in 1 .. Len(q) : Append(q, s)[i] = q[i]
      /\ Append(q, s)[Len(q) + 1] = s /\ Len(q) \in Nat
  OBVIOUS
<1>2. PICK p : p = Append(q, s)
  OBVIOUS
<1>3. PICK n \in Nat : n = Len(q)
  BY <1>1
<1>4. /\ p \in Seq(Seqs) /\ Len(p) = n + 1 /\ \A i \in 1 .. n : p[i] = q[i]
      /\ p[n + 1] = s
  BY <1>1, <1>2, <1>3
<1>5. Elements(p) = Elements(q) \cup {s}
  <2>1. \A i \in 1 .. n + 1 : i \in 1 .. n \/ i = n + 1
    BY <1>3
  <2>2. \A i \in 1 .. n : i \in 1 .. n + 1
    BY <1>3
  <2>3. n + 1 \in 1 .. n + 1
    BY <1>3
  <2>4. QED
    BY <1>3, <1>4, <2>1, <2>2, <2>3 DEF Elements
<1>6. ASSUME Ascends(q), \A x \in Elements(q) : x < s,
             NEW i \in 1 .. n + 1, NEW j \in 1 .. n + 1, i < j
      PROVE  p[i] < p[j]
  <2>1. i \in 1 .. n
    BY <1>6
  <2>2. CASE j \in 1 .. n
    BY <1>3, <1>4, <1>6, <2>1, <2>2 DEF Ascends
  <2>3. CASE j = n + 1
    BY <1>3, <1>4, <1>6, <2>1, <2>3 DEF Elements
  <2>4. QED
    BY <1>3, <2>2, <2>3
<1>7. p # <<>>
  BY <1>4
<1>8. QED
  BY <1>2, <1>3, <1>4, <1>5, <1>6, <1>7 DEF Ascends

LEMMA TailIs ==
    ASSUME NEW q \in Seq(Seqs), q # <<>>
    PROVE  /\ Tail(q) \in Seq(Seqs) /\ Len(Tail(q)) = Len(q) - 1 /\ Len(q) >= 1
           /\ Head(q) \in Seqs /\ Head(q) \in Elements(q)
           /\ Elements(q) = {Head(q)} \cup Elements(Tail(q))
           /\ Elements(Tail(q)) \subseteq Seqs
           /\ Ascends(q) => Ascends(Tail(q)) /\ \A x \in Elements(Tail(q)) : Head(q) < x
<1>1. /\ Tail(q) \in Seq(Seqs) /\ Len(Tail(q)) = Len(q) - 1 /\ Len(q) \in Nat /\ Len(q) >= 1
      /\ Head(q) = q[1]
      /\ \A i \in 1 .. Len(q) - 1 : Tail(q)[i] = q[i + 1]
      /\ \A i \in 1 .. Len(q) : q[i] \in Seqs
  OBVIOUS
<1>2. PICK p : p = Tail(q)
  OBVIOUS
<1>3. PICK n \in Nat : n = Len(q)
  BY <1>1
<1>4. /\ p \in Seq(Seqs) /\ Len(p) = n - 1 /\ n >= 1 /\ \A i \in 1 .. n - 1 : p[i] = q[i + 1]
      /\ Head(q) = q[1]
  BY <1>1, <1>2, <1>3
<1>5. Elements(q) = {Head(q)} \cup Elements(p)
  <2>1. \A i \in 1 .. n : i = 1 \/ (i - 1 \in 1 .. n - 1 /\ (i - 1) + 1 = i)
    BY <1>3
  <2>2. \A i \in 1 .. n - 1 : i + 1 \in 1 .. n
    BY <1>3
  <2>3. \A i \in 1 .. n : i = 1 \/ (i - 1 \in 1 .. n - 1 /\ q[i] = p[i - 1])
    BY <1>4, <2>1
  <2>4. Elements(p) = {p[i] : i \in 1 .. n - 1} /\ Elements(q) = {q[i] : i \in 1 .. n}
    BY <1>3, <1>4 DEF Elements
  <2>5. 1 \in 1 .. n
    BY <1>3, <1>4
  <2>6. ASSUME NEW x \in Elements(q) PROVE x = q[1] \/ x \in Elements(p)
    BY <2>3, <2>4
  <2>7. ASSUME NEW x \in Elements(p) PROVE x \in Elements(q)
    BY <1>4, <2>2, <2>4
  <2>8. q[1] \in Elements(q)
    BY <2>4, <2>5
  <2>9. QED
    BY <1>4, <2>6, <2>7, <2>8
<1>6. ASSUME Ascends(q)
      PROVE  Ascends(p) /\ \A x \in Elements(p) : Head(q) < x
  <2>1. \A i, j \in 1 .. n : i < j => q[i] < q[j]
    BY <1>3, <1>6 DEF Ascends
  <2>2. \A i \in 1 .. n - 1 : i + 1 \in 1 .. n /\ 1 < i + 1 /\ 1 \in 1 .. n
    BY <1>3
  <2>3. \A i, j \in 1 .. n - 1 : i < j => i + 1 < j + 1
    BY <1>3
  <2>4. Ascends(p)
    BY <1>3, <1>4, <2>1, <2>2, <2>3 DEF Ascends
  <2>5. \A i \in 1 .. n - 1 : q[1] < p[i]
    BY <1>4, <2>1, <2>2
  <2>6. QED
    BY <1>4, <2>4, <2>5 DEF Elements
<1>7. Elements(p) \subseteq Seqs
  BY <1>4, ElementsAre
<1>8. Head(q) \in Seqs
  BY <1>1
<1>9. QED
  BY <1>2, <1>3, <1>4, <1>5, <1>6, <1>7, <1>8

\* The end of an ascending ring is what a filter would leave of it.
LEMMA AboveIs ==
    ASSUME NEW h \in Seq(Seqs), Ascends(h), NEW s \in Seqs \cup {-1}
    PROVE  /\ Above(h, s) \in Seq(Seqs) /\ Len(Above(h, s)) <= Len(h)
           /\ Ascends(Above(h, s)) /\ Elements(Above(h, s)) = {x \in Elements(h) : x > s}
           /\ h # <<>> /\ s < Head(h) => Above(h, s) # <<>> /\ Head(Above(h, s)) = Head(h)
<1>1. PICK n \in Nat : n = Len(h)
  OBVIOUS
<1>2. s \in Int /\ \A i \in 1 .. n : h[i] \in Seqs /\ h[i] \in Int
  <2>1. \A i \in 1 .. n : h[i] \in Seqs
    BY <1>1
  <2>2. QED
    BY <2>1, SeqsAre
<1> DEFINE Cut(i) == /\ \A j \in 1 .. i - 1 : h[j] <= s
                     /\ i <= Len(h) => h[i] > s
<1>3. \E i \in 1 .. n + 1 : Cut(i)
  <2> DEFINE T == {i \in 1 .. n + 1 : i <= n => h[i] > s}
  <2>1. T \in SUBSET Nat /\ n + 1 \in T
    BY <1>1
  <2>2. PICK m \in T : \A i \in T : m <= i
    BY <2>1, LeastIsThere
  <2>3. ASSUME NEW j \in 1 .. m - 1 PROVE h[j] <= s
    <3>1. j \in 1 .. n + 1 /\ j \in 1 .. n /\ j < m
      BY <1>1, <2>2
    <3>2. j \notin T
      BY <2>2, <3>1
    <3>3. QED
      BY <1>2, <3>1, <3>2
  <2>4. QED
    BY <1>1, <2>2, <2>3
<1>4. PICK f \in 1 .. n + 1 : Cut(f) /\ Above(h, s) = SubSeq(h, f, n)
  <2> DEFINE first == CHOOSE i \in 1 .. n + 1 : Cut(i)
  <2>1. first \in 1 .. n + 1 /\ Cut(first)
    BY <1>3, Zenon
  <2>2. Above(h, s) = SubSeq(h, first, n)
    BY <1>1 DEF Above
  <2> HIDE DEF first
  <2>3. QED
    BY <2>1, <2>2
<1>5. PICK p : p = Above(h, s)
  OBVIOUS
<1>6. /\ p \in Seq(Seqs) /\ Len(p) = n - f + 1
      /\ \A i \in 1 .. n - f + 1 : p[i] = h[f + i - 1]
  <2>1. \A i \in f .. n : h[i] \in Seqs
    BY <1>2
  <2>2. f \in Int /\ n \in Int /\ f <= n + 1
    BY <1>1
  <2>3. QED
    BY <1>1, <1>4, <1>5, <2>1, <2>2, SubSeqProperties
<1>7. \A i \in 1 .. n : h[i] > s <=> i >= f
  <2>1. ASSUME NEW i \in 1 .. n, i < f PROVE ~(h[i] > s)
    BY <1>2, <1>4, <2>1
  <2>2. ASSUME NEW i \in 1 .. n, i >= f PROVE h[i] > s
    <3>1. f \in 1 .. n /\ h[f] > s /\ (i = f \/ f < i)
      BY <1>1, <1>4, <2>2
    <3>2. h[f] <= h[i]
      BY <1>1, <1>2, <3>1 DEF Ascends
    <3>3. QED
      BY <1>2, <3>1, <3>2
  <2>3. QED
    BY <2>1, <2>2
<1>8. Ascends(p)
  <2>1. ASSUME NEW i \in 1 .. n - f + 1, NEW j \in 1 .. n - f + 1, i < j PROVE p[i] < p[j]
    <3>1. f + i - 1 \in 1 .. n /\ f + j - 1 \in 1 .. n /\ f + i - 1 < f + j - 1
      BY <2>1
    <3>2. QED
      BY <1>1, <1>6, <3>1 DEF Ascends
  <2>2. QED
    BY <1>6, <2>1 DEF Ascends
<1>9. Elements(p) = {x \in Elements(h) : x > s}
  <2>1. ASSUME NEW i \in 1 .. n - f + 1 PROVE p[i] \in Elements(h) /\ p[i] > s
    <3>1. f + i - 1 \in 1 .. n /\ f + i - 1 >= f
      OBVIOUS
    <3>2. QED
      BY <1>1, <1>6, <1>7, <3>1 DEF Elements
  <2>2. ASSUME NEW i \in 1 .. n, h[i] > s PROVE h[i] \in Elements(p)
    <3>1. i >= f
      BY <1>7, <2>2
    <3>2. i - f + 1 \in 1 .. n - f + 1 /\ f + (i - f + 1) - 1 = i
      BY <3>1
    <3>3. h[i] = p[i - f + 1]
      BY <1>6, <3>2
    <3>4. QED
      BY <1>6, <3>2, <3>3 DEF Elements
  <2>3. QED
    BY <1>1, <1>6, <2>1, <2>2 DEF Elements
<1>10. ASSUME h # <<>>, s < Head(h) PROVE p # <<>> /\ Head(p) = Head(h)
  <2>1. n >= 1 /\ Head(h) = h[1]
    BY <1>1, <1>10
  <2>2. f = 1
    BY <1>7, <1>10, <2>1, <1>2
  <2>3. Len(p) = n /\ p[1] = h[1]
    BY <1>6, <2>1, <2>2
  <2>4. QED
    BY <1>6, <2>1, <2>3
<1>11. QED
  BY <1>1, <1>5, <1>6, <1>8, <1>9, <1>10

-----------------------------------------------------------------------------
(* A connection's line: snapshot, held event, mailbox and untold gap.         *)

LEMMA SpanIs == ASSUME NEW ga \in Gaps PROVE Span(ga) \subseteq Seqs /\ Span(<<>>) = {}
<1>1. CASE ga = <<>>
  BY <1>1 DEF Span
<1>2. CASE ga \in Seqs \X Seqs
  BY <1>2, SeqsAre DEF Span, Seqs
<1>3. QED
  BY <1>1, <1>2 DEF Gaps

LEMMA WidenedIs ==
    ASSUME NEW ga \in Gaps, NEW s \in Seqs, \A g \in Span(ga) : g < s
    PROVE  /\ Widened(ga, s) \in Gaps /\ Span(ga) \cup {s} \subseteq Span(Widened(ga, s))
           /\ \A x \in Span(Widened(ga, s)) :
                 x \in Seqs /\ x <= s /\ (x = s \/ \E g \in Span(ga) : g <= x)
<1>1. s \in Int
  BY SeqsAre
<1>2. CASE ga = <<>>
  <2>1. Widened(ga, s) = <<s, s>> /\ <<s, s>> # <<>>
    BY <1>2 DEF Widened
  <2>2. Span(Widened(ga, s)) = s .. s
    BY <2>1 DEF Span
  <2>3. <<s, s>> \in Gaps
    BY <1>1 DEF Gaps
  <2>4. Span(ga) = {}
    BY <1>2 DEF Span
  <2>5. s .. s = {s}
    BY <1>1
  <2>6. QED
    BY <1>1, <2>1, <2>2, <2>3, <2>4, <2>5
<1>3. CASE ga \in Seqs \X Seqs /\ ga[1] <= ga[2]
  <2>1. PICK a \in Seqs, b \in Seqs : ga = <<a, b>> /\ a <= b
    BY <1>3
  <2>2. a \in Int /\ b \in Int /\ ga # <<>> /\ ga[1] = a /\ ga[2] = b
    BY <2>1, SeqsAre
  <2>3. Span(ga) = a .. b
    BY <2>2 DEF Span
  <2>4. a < s /\ b < s
    <3>1. a \in a .. b /\ b \in a .. b
      BY <2>1, <2>2
    <3>2. QED
      BY <2>3, <3>1
  <2>5. Widened(ga, s) = <<a, s>> /\ <<a, s>> # <<>>
    BY <1>1, <2>2, <2>4 DEF Widened
  <2>6. <<a, s>> \in Gaps /\ Span(<<a, s>>) = a .. s
    BY <1>1, <2>1, <2>2, <2>4, <2>5 DEF Gaps, Span
  <2>7. a \in Span(ga) /\ a .. b \subseteq a .. s /\ s \in a .. s
    BY <1>1, <2>1, <2>2, <2>3, <2>4
  <2>8. a .. s \subseteq Seqs
    BY <2>1, SeqsAre DEF Seqs
  <2>9. \A x \in a .. s : x <= s /\ a <= x
    BY <1>1, <2>2
  <2>10. QED
    BY <2>3, <2>5, <2>6, <2>7, <2>8, <2>9
<1>4. QED
  BY <1>2, <1>3 DEF Gaps

MailTaken(qu, s) == IF Len(qu) < QueueEvents THEN Append(qu, s) ELSE Append(Tail(qu), s)
GapTaken(ga, qu) == IF Len(qu) < QueueEvents THEN ga ELSE Widened(ga, Head(qu))

\* offer: what is evicted joins the gap, between what was sent and what waits.
LEMMA OfferIs ==
    ASSUME NEW re \in Seq(Seqs), NEW he \in Seqs \cup {-1}, NEW qu \in Seq(Seqs), NEW ga \in Gaps,
           NEW la \in Seqs \cup {-1}, NEW rn \in SUBSET Seqs, NEW na \in SUBSET Seqs,
           NEW top \in Seqs \cup {-1}, NEW s \in Seqs, s > top,
           InLine(re, he, qu, ga, la, top), Sent(re, he, qu, ga, la, rn, na, top),
           Len(qu) <= QueueEvents
    PROVE  /\ MailTaken(qu, s) \in Seq(Seqs) /\ GapTaken(ga, qu) \in Gaps
           /\ Len(MailTaken(qu, s)) <= QueueEvents
           /\ InLine(re, he, MailTaken(qu, s), GapTaken(ga, qu), la, s)
           /\ Sent(re, he, MailTaken(qu, s), GapTaken(ga, qu), la, rn, na, s)
           /\ Elements(qu) \cup Span(ga) \cup {s}
                 \subseteq Elements(MailTaken(qu, s)) \cup Span(GapTaken(ga, qu))
<1>0. PICK qu2, ga2 : qu2 = MailTaken(qu, s) /\ ga2 = GapTaken(ga, qu)
  OBVIOUS
<1>1. /\ s \in Int /\ top \in Int /\ la \in Int /\ he \in Int
      /\ Elements(re) \subseteq Int /\ Elements(qu) \subseteq Int /\ Span(ga) \subseteq Int
      /\ rn \subseteq Int /\ na \subseteq Int /\ QueueEvents \in Nat \ {0} /\ Len(qu) \in Nat
  <2>1. Elements(re) \subseteq Seqs /\ Elements(qu) \subseteq Seqs /\ Span(ga) \subseteq Seqs
    BY ElementsAre, SpanIs
  <2>2. s \in Int /\ top \in Int /\ la \in Int /\ he \in Int
    BY SeqsAre
  <2>3. rn \subseteq Int /\ na \subseteq Int /\ QueueEvents \in Nat \ {0} /\ Len(qu) \in Nat
    BY SeqsAre, HubAssumption
  <2>4. QED
    BY <2>1, <2>2, <2>3, SeqsAre
<1>2. /\ \A x \in Elements(re) \cup Elements(qu) \cup Span(ga) \cup na : x < s
      /\ la < s /\ (he # -1 => he < s)
  <2>1. ASSUME NEW x \in Elements(re) \cup Elements(qu) \cup Span(ga) \cup na PROVE x < s
    <3>1. x \in Int /\ x <= top
      BY <1>1 DEF InLine, Sent
    <3>2. QED
      BY <1>1, <3>1
  <2>2. la <= top /\ (he # -1 => he <= top)
    BY DEF InLine
  <2>3. QED
    BY <1>1, <2>1, <2>2
<1>3. CASE Len(qu) < QueueEvents
  <2>1. qu2 = Append(qu, s) /\ ga2 = ga
    BY <1>0, <1>3 DEF MailTaken, GapTaken
  <2>2. /\ qu2 \in Seq(Seqs) /\ Len(qu2) = Len(qu) + 1 /\ Elements(qu2) = Elements(qu) \cup {s}
        /\ Ascends(qu2)
    <3>1. Ascends(qu) /\ \A x \in Elements(qu) : x < s
      BY <1>2 DEF InLine
    <3>2. QED
      BY <2>1, <3>1, AppendIs
  <2>3. InLine(re, he, qu2, ga, la, s)
    BY <1>1, <1>2, <2>2 DEF InLine
  <2>4. Sent(re, he, qu2, ga, la, rn, na, s)
    BY <1>1, <1>2, <2>2 DEF Sent, Waiting
  <2>5. QED
    BY <1>0, <1>1, <1>3, <2>1, <2>2, <2>3, <2>4
<1>4. CASE ~(Len(qu) < QueueEvents)
  <2>1. Len(qu) = QueueEvents /\ qu # <<>>
    BY <1>1, <1>4
  <2>2. PICK e \in Seqs : e = Head(qu)
    BY <2>1, TailIs
  <2>3. PICK rest \in Seq(Seqs) : rest = Tail(qu)
    BY <2>1, TailIs
  <2>4. /\ Len(rest) = Len(qu) - 1 /\ Elements(qu) = {e} \cup Elements(rest)
        /\ Ascends(rest) /\ \A x \in Elements(rest) : e < x
    BY <2>1, <2>2, <2>3, TailIs DEF InLine
  <2>5. qu2 = Append(rest, s) /\ ga2 = Widened(ga, e)
    BY <1>0, <1>4, <2>2, <2>3 DEF MailTaken, GapTaken
  <2>6. /\ qu2 \in Seq(Seqs) /\ Len(qu2) = Len(rest) + 1 /\ Elements(qu2) = Elements(rest) \cup {s}
        /\ Ascends(qu2)
    BY <1>2, <2>4, <2>5, AppendIs
  <2>7. \A g \in Span(ga) : g < e
    BY <2>4 DEF InLine
  <2>8. /\ ga2 \in Gaps /\ Span(ga) \cup {e} \subseteq Span(ga2)
        /\ \A x \in Span(ga2) : x \in Seqs /\ x <= e /\ (x = e \/ \E g \in Span(ga) : g <= x)
    BY <2>5, <2>7, WidenedIs
  <2>9. e \in Int /\ Elements(rest) \subseteq Int /\ Span(ga2) \subseteq Int /\ e \in Elements(qu)
    <3>1. Span(ga2) \subseteq Seqs
      BY <2>8
    <3>2. QED
      BY <1>1, <2>4, <3>1, SeqsAre
  <2>10. ASSUME NEW x \in Span(ga2)
         PROVE  /\ la < x /\ x < s /\ \A y \in Elements(qu2) : x < y
                /\ \A z \in Elements(re) : z < x
                /\ \A z \in na : z < x
                /\ he # -1 => he < x
    <3>1. x \in Int /\ x <= e /\ e < s
      BY <1>2, <2>8, <2>9
    <3>2. x < s /\ \A y \in Elements(qu2) : x < y
      BY <1>1, <2>4, <2>6, <2>9, <3>1
    <3>3. PICK g \in Elements(qu) \cup Span(ga) : g <= x
      BY <2>8, <2>9, <3>1
    <3>4. g \in Int
      BY <1>1
    <3>5. la < g /\ (\A z \in Elements(re) : z < g) /\ (he # -1 => he < g)
      BY DEF InLine
    <3>6. \A z \in na : z < g
      BY DEF Sent, Waiting
    <3>7. la < x /\ (he # -1 => he < x)
      BY <1>1, <3>1, <3>3, <3>4, <3>5
    <3>8. (\A z \in Elements(re) : z < x) /\ (\A z \in na : z < x)
      BY <1>1, <3>1, <3>3, <3>4, <3>5, <3>6
    <3>9. QED
      BY <3>2, <3>7, <3>8
  <2>11. InLine(re, he, qu2, ga2, la, s)
    <3>1. \A x \in Elements(re) : la < x /\ x <= s /\ \A y \in Elements(qu2) \cup Span(ga2) : x < y
      BY <1>1, <1>2, <2>4, <2>6, <2>10 DEF InLine
    <3>2. \A y \in Elements(qu2) : la < y /\ y <= s /\ \A g \in Span(ga2) : g < y
      BY <1>1, <1>2, <2>4, <2>6, <2>10 DEF InLine
    <3>3. he # -1 => /\ re = <<>> /\ la < he /\ he <= s
                     /\ \A y \in Elements(qu2) \cup Span(ga2) : he < y
      BY <1>1, <1>2, <2>4, <2>6, <2>10 DEF InLine
    <3>4. (\A g \in Span(ga2) : la < g /\ g <= s) /\ la <= s /\ Ascends(re)
      BY <1>1, <1>2, <2>9, <2>10 DEF InLine
    <3>5. QED
      BY <2>6, <3>1, <3>2, <3>3, <3>4 DEF InLine
  <2>12. Sent(re, he, qu2, ga2, la, rn, na, s)
    <3>1. \A n \in na : n < s /\ n <= s
      BY <1>1, <1>2
    <3>2. \A n \in na : \A p \in Waiting(re, he, qu2) \cup Span(ga2) : n < p
      BY <2>4, <2>6, <2>10, <3>1 DEF Sent, Waiting
    <3>3. QED
      BY <3>1, <3>2 DEF Sent
  <2>13. QED
    BY <1>0, <1>1, <2>1, <2>4, <2>6, <2>8, <2>11, <2>12
<1>5. QED
  BY <1>0, <1>3, <1>4

\* The next event of the line goes, in a frame of its own or in a gap frame.
LEMMA SentIs ==
    ASSUME NEW re, NEW he, NEW qu, NEW ga, NEW la \in Int, NEW rn \in SUBSET Int, NEW na \in SUBSET Int,
           NEW top \in Int, NEW re2, NEW he2, NEW qu2, NEW ga2, NEW e \in Int, NEW rn2, NEW na2,
           Sent(re, he, qu, ga, la, rn, na, top),
           e \in Waiting(re, he, qu), la < e, e <= top,
           \A p \in Waiting(re2, he2, qu2) \cup Span(ga2) :
              e < p /\ p \in Waiting(re, he, qu) \cup Span(ga),
           \/ rn2 = rn \cup {e} /\ na2 = na
           \/ rn2 = rn /\ na2 = na \cup {e}
    PROVE  Sent(re2, he2, qu2, ga2, e, rn2, na2, top)
<1>1. \A n \in na : n < e
  BY DEF Sent
<1>2. \A r \in rn : r < e
  BY DEF Sent
<1>3. ASSUME NEW n \in na2
      PROVE  n <= top /\ \A p \in Waiting(re2, he2, qu2) \cup Span(ga2) : n < p
  <2>1. CASE n = e
    BY <2>1
  <2>2. CASE n \in na
    BY <2>2 DEF Sent
  <2>3. QED
    BY <2>1, <2>2
<1>4. (\A r \in rn2 : r <= e) /\ na2 \cap rn2 = {}
  <2>1. CASE rn2 = rn \cup {e} /\ na2 = na
    BY <1>1, <1>2, <2>1 DEF Sent
  <2>2. CASE rn2 = rn /\ na2 = na \cup {e}
    BY <1>1, <1>2, <2>2 DEF Sent
  <2>3. QED
    BY <2>1, <2>2
<1>5. QED
  BY <1>3, <1>4 DEF Sent

LEMMA ReplaySent ==
    ASSUME NEW re \in Seq(Seqs), NEW he \in Seqs \cup {-1}, NEW qu \in Seq(Seqs), NEW ga \in Gaps,
           NEW la \in Seqs \cup {-1}, NEW rn \in SUBSET Seqs, NEW na \in SUBSET Seqs,
           NEW top \in Seqs \cup {-1}, NEW rn2, NEW na2,
           InLine(re, he, qu, ga, la, top), Sent(re, he, qu, ga, la, rn, na, top), re # <<>>,
           \/ rn2 = rn \cup {Head(re)} /\ na2 = na
           \/ rn2 = rn /\ na2 = na \cup {Head(re)}
    PROVE  /\ InLine(Tail(re), he, qu, ga, Head(re), top)
           /\ Sent(Tail(re), he, qu, ga, Head(re), rn2, na2, top)
           /\ Head(re) > la /\ Waiting(re, he, qu) = Waiting(Tail(re), he, qu) \cup {Head(re)}
<1>1. PICK e \in Seqs, re2 \in Seq(Seqs) : e = Head(re) /\ re2 = Tail(re)
  BY TailIs
<1>2. /\ Elements(re) = {e} \cup Elements(re2) /\ Ascends(re2)
      /\ \A x \in Elements(re2) : e < x
  BY <1>1, TailIs DEF InLine
<1>3. he = -1 /\ la < e /\ e <= top /\ e > la /\ \A x \in Elements(qu) \cup Span(ga) : e < x
  BY <1>2, SeqsAre DEF InLine
<1>4. InLine(re2, he, qu, ga, e, top)
  BY <1>2, <1>3 DEF InLine
<1>5. Waiting(re, he, qu) = Waiting(re2, he, qu) \cup {e}
  BY <1>2 DEF Waiting
<1>6. Sent(re2, he, qu, ga, e, rn2, na2, top)
  <2>1. \A p \in Waiting(re2, he, qu) \cup Span(ga) : e < p
    BY <1>2, <1>3 DEF Waiting
  <2>2. la \in Int /\ top \in Int /\ e \in Int /\ rn \in SUBSET Int /\ na \in SUBSET Int
    BY SeqsAre
  <2>3. QED
    BY <1>1, <1>3, <1>5, <2>1, <2>2, SentIs
<1>7. QED
  BY <1>1, <1>3, <1>4, <1>5, <1>6

LEMMA QueueSent ==
    ASSUME NEW re \in Seq(Seqs), NEW he \in Seqs \cup {-1}, NEW qu \in Seq(Seqs), NEW ga \in Gaps,
           NEW la \in Seqs \cup {-1}, NEW rn \in SUBSET Seqs, NEW na \in SUBSET Seqs,
           NEW top \in Seqs \cup {-1}, NEW rn2, NEW na2,
           InLine(re, he, qu, ga, la, top), Sent(re, he, qu, ga, la, rn, na, top),
           re = <<>>, he = -1, qu # <<>>, ga = <<>>,
           \/ rn2 = rn \cup {Head(qu)} /\ na2 = na
           \/ rn2 = rn /\ na2 = na \cup {Head(qu)}
    PROVE  /\ InLine(re, he, Tail(qu), ga, Head(qu), top)
           /\ Sent(re, he, Tail(qu), ga, Head(qu), rn2, na2, top)
           /\ Head(qu) > la /\ Waiting(re, he, qu) = Waiting(re, he, Tail(qu)) \cup {Head(qu)}
<1>1. PICK e \in Seqs, qu2 \in Seq(Seqs) : e = Head(qu) /\ qu2 = Tail(qu)
  BY TailIs
<1>2. /\ Elements(qu) = {e} \cup Elements(qu2) /\ Ascends(qu2)
      /\ \A x \in Elements(qu2) : e < x
  BY <1>1, TailIs DEF InLine
<1>3. la < e /\ e <= top /\ e > la /\ Span(ga) = {} /\ Elements(re) = {}
  BY <1>2, SeqsAre, SpanIs, ElementsAre DEF InLine
<1>4. InLine(re, he, qu2, ga, e, top)
  BY <1>2, <1>3 DEF InLine
<1>5. Waiting(re, he, qu) = Waiting(re, he, qu2) \cup {e}
  BY <1>2 DEF Waiting
<1>6. Sent(re, he, qu2, ga, e, rn2, na2, top)
  <2>1. \A p \in Waiting(re, he, qu2) \cup Span(ga) : e < p
    BY <1>2, <1>3 DEF Waiting
  <2>2. la \in Int /\ top \in Int /\ e \in Int /\ rn \in SUBSET Int /\ na \in SUBSET Int
    BY SeqsAre
  <2>3. QED
    BY <1>1, <1>3, <1>5, <2>1, <2>2, SentIs
<1>7. QED
  BY <1>1, <1>3, <1>4, <1>5, <1>6

LEMMA HeldSent ==
    ASSUME NEW re \in Seq(Seqs), NEW he \in Seqs, NEW qu \in Seq(Seqs), NEW ga \in Gaps,
           NEW la \in Seqs \cup {-1}, NEW rn \in SUBSET Seqs, NEW na \in SUBSET Seqs,
           NEW top \in Seqs \cup {-1}, NEW rn2, NEW na2,
           InLine(re, he, qu, ga, la, top), Sent(re, he, qu, ga, la, rn, na, top),
           \/ rn2 = rn \cup {he} /\ na2 = na
           \/ rn2 = rn /\ na2 = na \cup {he}
    PROVE  /\ InLine(re, -1, qu, ga, he, top) /\ Sent(re, -1, qu, ga, he, rn2, na2, top)
           /\ he > la /\ Waiting(re, he, qu) = Waiting(re, -1, qu) \cup {he}
<1>1. he \in Int /\ he # -1 /\ la \in Int /\ top \in Int /\ rn \in SUBSET Int /\ na \in SUBSET Int
  BY SeqsAre
<1>2. /\ Elements(re) = {} /\ la < he /\ he <= top /\ he > la
      /\ \A x \in Elements(qu) \cup Span(ga) : he < x
  BY <1>1, ElementsAre DEF InLine
<1>3. InLine(re, -1, qu, ga, he, top)
  BY <1>1, <1>2 DEF InLine
<1>4. Waiting(re, he, qu) = Waiting(re, -1, qu) \cup {he}
  BY <1>1 DEF Waiting
<1>5. \A p \in Waiting(re, -1, qu) \cup Span(ga) : he < p
  BY <1>2 DEF Waiting
<1>6. Sent(re, -1, qu, ga, he, rn2, na2, top)
  BY <1>1, <1>2, <1>4, <1>5, SentIs
<1>7. QED
  BY <1>2, <1>3, <1>4, <1>6

\* take_gap: the range is told, the event that survived it is in hand.
LEMMA GapTold ==
    ASSUME NEW re \in Seq(Seqs), NEW he \in Seqs \cup {-1}, NEW qu \in Seq(Seqs), NEW ga \in Gaps,
           NEW la \in Seqs \cup {-1}, NEW rn \in SUBSET Seqs, NEW na \in SUBSET Seqs,
           NEW top \in Seqs \cup {-1},
           InLine(re, he, qu, ga, la, top), Sent(re, he, qu, ga, la, rn, na, top),
           re = <<>>, he = -1, qu # <<>>
    PROVE  /\ InLine(re, Head(qu), Tail(qu), <<>>, la, top)
           /\ Sent(re, Head(qu), Tail(qu), <<>>, la, rn, na \cup Span(ga), top)
           /\ Waiting(re, he, qu) = Waiting(re, Head(qu), Tail(qu))
<1>1. PICK e \in Seqs, qu2 \in Seq(Seqs) : e = Head(qu) /\ qu2 = Tail(qu)
  BY TailIs
<1>2. /\ Elements(qu) = {e} \cup Elements(qu2) /\ Ascends(qu2)
      /\ \A x \in Elements(qu2) : e < x
  BY <1>1, TailIs DEF InLine
<1>3. la < e /\ e <= top /\ Span(<<>>) = {} /\ Elements(re) = {} /\ e # -1
  BY <1>2, SeqsAre, SpanIs, ElementsAre DEF InLine
<1>4. InLine(re, e, qu2, <<>>, la, top)
  BY <1>2, <1>3 DEF InLine
<1>5. Waiting(re, he, qu) = Waiting(re, e, qu2) /\ Waiting(re, e, qu2) = Elements(qu)
  BY <1>2, <1>3 DEF Waiting
<1>6. Sent(re, e, qu2, <<>>, la, rn, na \cup Span(ga), top)
  <2>1. \A g \in Span(ga) : g <= top /\ la < g /\ \A p \in Elements(qu) : g < p
    BY DEF InLine
  <2>2. la \in Int /\ rn \in SUBSET Int /\ Span(ga) \in SUBSET Int
    BY SeqsAre, SpanIs
  <2>3. \A r \in rn : r <= la
    BY DEF Sent
  <2>4. Span(ga) \cap rn = {}
    BY <2>1, <2>2, <2>3
  <2>5. QED
    BY <1>3, <1>5, <2>1, <2>3, <2>4 DEF Sent
<1>7. QED
  BY <1>1, <1>4, <1>5, <1>6

\* _resume_gap: what the ring no longer holds, up to its first event.
LEMMA ResumeTold ==
    ASSUME NEW re \in Seq(Seqs), NEW he \in Seqs \cup {-1}, NEW qu \in Seq(Seqs), NEW ga \in Gaps,
           NEW la \in Seqs \cup {-1}, NEW top \in Seqs \cup {-1}, NEW from \in Seqs \cup {-1},
           InLine(re, he, qu, ga, la, top), re # <<>>
    PROVE  /\ from + 1 .. Head(re) - 1 \subseteq Seqs
           /\ Sent(re, he, qu, ga, la, {}, from + 1 .. Head(re) - 1, top)
<1>1. PICK e \in Seqs, re2 \in Seq(Seqs) : e = Head(re) /\ re2 = Tail(re)
  BY TailIs
<1>2. Elements(re) = {e} \cup Elements(re2) /\ \A x \in Elements(re2) : e < x
  BY <1>1, TailIs DEF InLine
<1>3. e \in Int /\ from \in Int /\ from >= -1 /\ e <= Last /\ Last \in Int /\ top \in Int
  BY SeqsAre
<1>4. from + 1 .. e - 1 \subseteq Seqs
  BY <1>3 DEF Seqs
<1>5. e <= top /\ he = -1 /\ \A y \in Elements(qu) \cup Span(ga) : e < y
  BY <1>2 DEF InLine
<1>6. \A p \in Waiting(re, he, qu) \cup Span(ga) : p \in Int /\ e <= p
  <2>1. Elements(re2) \cup Elements(qu) \cup Span(ga) \subseteq Int
    BY ElementsAre, SpanIs, SeqsAre
  <2>2. QED
    BY <1>2, <1>3, <1>5, <2>1 DEF Waiting
<1>7. \A n \in from + 1 .. e - 1 : n \in Int /\ n < e
  BY <1>3
<1>8. Sent(re, he, qu, ga, la, {}, from + 1 .. e - 1, top)
  BY <1>3, <1>5, <1>6, <1>7 DEF Sent
<1>9. QED
  BY <1>1, <1>4, <1>8

-----------------------------------------------------------------------------
(* The hub's steps.                                                           *)

\* publish: the ring takes an event newer than all it holds.
LEMMA RingIs ==
    ASSUME ChannelTypes, RingInv, NEW s \in Seqs, s > lastSeq, history' = Ring(history, s), lastSeq' = s,
           accepted' = accepted \cup {s}
    PROVE  /\ RingInv' /\ history' \in Seq(Seqs) /\ Len(history') <= ReplayEvents
           /\ accepted' \subseteq Seqs
<1>1. /\ history \in Seq(Seqs) /\ lastSeq \in Int /\ s \in Int /\ ReplayEvents \in Nat \ {0}
      /\ Len(history) \in Nat /\ Len(history) <= ReplayEvents /\ accepted \subseteq Seqs
      /\ accepted \subseteq Int /\ \A x \in accepted : x <= lastSeq
  BY SeqsAre, HubAssumption DEF ChannelTypes, RingInv
<1>2. Ascends(history) /\ \A x \in Elements(history) : x \in Int /\ x < s
  <2>1. ASSUME NEW i \in 1 .. Len(history) PROVE history[i] \in Int /\ history[i] <= lastSeq
    <3>1. history # <<>> /\ Len(history) \in 1 .. Len(history)
      BY <1>1, <2>1
    <3>2. history[Len(history)] = lastSeq /\ (i < Len(history) => history[i] < history[Len(history)])
      BY <3>1 DEF RingInv, Ascends
    <3>3. history[i] \in Seqs /\ (i = Len(history) \/ i < Len(history))
      BY <1>1, <2>1
    <3>4. history[i] \in Int
      BY <3>3, SeqsAre
    <3>5. QED
      BY <1>1, <3>2, <3>3, <3>4
  <2>2. QED
    BY <1>1, <2>1 DEF RingInv, Elements
<1>3. ASSUME NEW q \in Seq(Seqs), history' = Append(q, s), Ascends(q),
             \A x \in Elements(q) : x < s, Len(q) < ReplayEvents,
             q # <<>> => \A x \in accepted : x >= Head(q) => x \in Elements(q)
      PROVE  /\ RingInv' /\ history' \in Seq(Seqs) /\ Len(history') <= ReplayEvents
             /\ accepted' \subseteq Seqs
  <2>1. /\ history' \in Seq(Seqs) /\ Len(history') = Len(q) + 1 /\ history' # <<>>
        /\ history'[Len(history')] = s
        /\ Elements(history') = Elements(q) \cup {s} /\ Ascends(history')
    BY <1>3, AppendIs
  <2>2. \A x \in accepted' : x \in Int /\ x <= s
    BY <1>1
  <2>3. ASSUME NEW x \in accepted', x >= Head(history') PROVE x \in Elements(history')
    <3>1. CASE q = <<>>
      <4>1. Head(history') = s
        BY <1>3, <3>1
      <4>2. QED
        BY <1>1, <2>1, <2>2, <2>3, <4>1
    <3>2. CASE q # <<>>
      <4>1. Head(history') = Head(q)
        <5>1. Len(q) \in Nat /\ Len(q) >= 1 /\ history' = Append(q, s)
          BY <1>3, <3>2
        <5>2. Append(q, s)[1] = q[1]
          BY <1>3, <5>1
        <5>3. Head(Append(q, s)) = Append(q, s)[1] /\ Head(q) = q[1]
          BY <1>3, <3>2, <2>1
        <5>4. QED
          BY <5>1, <5>2, <5>3
      <4>2. QED
        BY <1>3, <2>1, <2>3, <3>2, <4>1
    <3>3. QED
      BY <3>1, <3>2
  <2>4. Len(history') <= ReplayEvents
    BY <1>1, <1>3, <2>1
  <2>5. RingInv'
    BY <2>1, <2>2, <2>3 DEF RingInv
  <2>6. QED
    BY <1>1, <2>1, <2>4, <2>5
<1>4. CASE Len(history) < ReplayEvents
  <2>1. history' = Append(history, s)
    BY <1>4 DEF Ring
  <2>2. history # <<>> => \A x \in accepted : x >= Head(history) => x \in Elements(history)
    BY DEF RingInv
  <2>3. QED
    BY <1>1, <1>2, <1>3, <1>4, <2>1, <2>2
<1>5. CASE ~(Len(history) < ReplayEvents)
  <2>1. history # <<>> /\ Len(history) = ReplayEvents
    BY <1>1, <1>5
  <2>2. PICK q \in Seq(Seqs), e \in Seqs : q = Tail(history) /\ e = Head(history)
    BY <1>1, <2>1, TailIs
  <2>3. /\ Len(q) = Len(history) - 1 /\ Elements(history) = {e} \cup Elements(q)
        /\ Ascends(q) /\ \A x \in Elements(q) : e < x
    BY <1>1, <1>2, <2>1, <2>2, TailIs
  <2>4. history' = Append(q, s)
    BY <1>5, <2>2 DEF Ring
  <2>5. ASSUME q # <<>>, NEW x \in accepted, x >= Head(q) PROVE x \in Elements(q)
    <3>1. Head(q) \in Elements(q) /\ Head(q) \in Seqs
      BY <2>5, TailIs
    <3>2. e < Head(q) /\ e \in Int /\ Head(q) \in Int /\ x \in Int
      BY <1>1, <2>3, <3>1, SeqsAre
    <3>3. x >= e /\ x # e
      BY <2>5, <3>2
    <3>4. x \in Elements(history)
      BY <2>1, <2>2, <3>3 DEF RingInv
    <3>5. QED
      BY <2>3, <3>3, <3>4
  <2>6. Len(q) < ReplayEvents /\ \A x \in Elements(q) : x < s
    BY <1>1, <1>2, <2>1, <2>3
  <2>7. QED
    BY <1>3, <2>3, <2>4, <2>5, <2>6
<1>6. QED
  BY <1>4, <1>5

LEMMA Sets == \A k : GapRange(k) = Span(gap[k]) /\ Pending(k) = Waiting(replay[k], held[k], queue[k])
BY DEF GapRange, Span, Pending, Waiting

LEMMA EmptyLine ==
    ASSUME NEW top \in Seqs \cup {-1}
    PROVE  /\ InLine(<<>>, -1, <<>>, <<>>, -1, top) /\ Sent(<<>>, -1, <<>>, <<>>, -1, {}, {}, top)
           /\ <<>> \in Seq(Seqs) /\ Len(<<>>) = 0 /\ <<>> \in Gaps
<1>1. <<>> \in Seq(Seqs) /\ Len(<<>>) = 0 /\ <<>> \in Gaps /\ Elements(<<>>) = {} /\ Span(<<>>) = {}
  BY DEF Gaps, Elements, Span
<1>2. top >= -1 /\ -1 <= top
  BY SeqsAre
<1>3. Ascends(<<>>)
  BY <1>1 DEF Ascends
<1>4. QED
  BY <1>1, <1>2, <1>3 DEF InLine, Sent

\* A connection no step of which it is.
LEMMA ConnAside ==
    ASSUME NEW k \in Slots, ConnInv(k), UNCHANGED <<lastSeq, accepted>>,
           pc'[k] = pc[k], after'[k] = after[k], floor'[k] = floor[k], replay'[k] = replay[k],
           queue'[k] = queue[k], gap'[k] = gap[k], held'[k] = held[k], last'[k] = last[k],
           rendered'[k] = rendered[k], named'[k] = named[k]
    PROVE  ConnInv(k)'
<1>1. Stage(k)'
  BY DEF ConnInv, Stage
<1>2. Covered(k)'
  BY DEF ConnInv, Covered, GapRange, Owed, Pending
<1>3. QED
  BY <1>1, <1>2 DEF ConnInv

\* A slot whose connection is gone, in the channel as it is after the step.
LEMMA ConnGone ==
    ASSUME NEW k \in Slots, lastSeq' \in Seqs \cup {-1}, pc'[k] = "free", replay'[k] = <<>>,
           queue'[k] = <<>>, gap'[k] = <<>>, held'[k] = -1, last'[k] = -1,
           rendered'[k] = {}, named'[k] = {}
    PROVE  ConnInv(k)'
<1>1. Stage(k)' /\ Covered(k)'
  BY DEF Stage, Covered
<1>2. /\ InLine(<<>>, -1, <<>>, <<>>, -1, lastSeq') /\ Sent(<<>>, -1, <<>>, <<>>, -1, {}, {}, lastSeq')
      /\ Len(<<>>) = 0
  BY EmptyLine
<1>3. QED
  BY <1>1, <1>2, HubAssumption DEF ConnInv

LEMMA ClosedIs ==
    ASSUME SubTypes, NEW ks \in SUBSET Slots, Closed(ks)
    PROVE  /\ SubTypes'
           /\ \A k \in ks : /\ pc'[k] = "free" /\ replay'[k] = <<>> /\ queue'[k] = <<>> /\ gap'[k] = <<>>
                            /\ held'[k] = -1 /\ last'[k] = -1 /\ rendered'[k] = {} /\ named'[k] = {}
           /\ \A k \in Slots \ ks :
                 /\ pc'[k] = pc[k] /\ after'[k] = after[k] /\ floor'[k] = floor[k]
                 /\ replay'[k] = replay[k] /\ queue'[k] = queue[k] /\ gap'[k] = gap[k]
                 /\ held'[k] = held[k] /\ last'[k] = last[k]
                 /\ rendered'[k] = rendered[k] /\ named'[k] = named[k]
<1>1. <<>> \in Seq(Seqs) /\ <<>> \in Gaps /\ -1 \in Seqs \cup {-1} /\ {} \in SUBSET Seqs
  BY DEF Gaps
<1>2. /\ pc' \in [Slots -> {"free", "resume", "stream", "held"}]
      /\ after' \in [Slots -> Seqs \cup {-1}] /\ floor' \in [Slots -> Seqs \cup {-1}]
  BY <1>1 DEF Closed, SubTypes
<1>3. replay' \in [Slots -> Seq(Seqs)] /\ queue' \in [Slots -> Seq(Seqs)]
  BY <1>1 DEF Closed, SubTypes
<1>4. gap' \in [Slots -> Gaps]
  BY <1>1 DEF Closed, SubTypes
<1>5. held' \in [Slots -> Seqs \cup {-1}] /\ last' \in [Slots -> Seqs \cup {-1}]
  BY <1>1 DEF Closed, SubTypes
<1>6. rendered' \in [Slots -> SUBSET Seqs] /\ named' \in [Slots -> SUBSET Seqs]
  BY <1>1 DEF Closed, SubTypes
<1>7. \A k \in ks : /\ pc'[k] = "free" /\ replay'[k] = <<>> /\ queue'[k] = <<>> /\ gap'[k] = <<>>
                    /\ held'[k] = -1 /\ last'[k] = -1 /\ rendered'[k] = {} /\ named'[k] = {}
  BY DEF Closed
<1>8. \A k \in Slots \ ks :
         /\ pc'[k] = pc[k] /\ after'[k] = after[k] /\ floor'[k] = floor[k]
         /\ replay'[k] = replay[k] /\ queue'[k] = queue[k] /\ gap'[k] = gap[k]
         /\ held'[k] = held[k] /\ last'[k] = last[k]
         /\ rendered'[k] = rendered[k] /\ named'[k] = named[k]
  BY DEF Closed
<1>9. QED
  BY <1>2, <1>3, <1>4, <1>5, <1>6, <1>7, <1>8 DEF SubTypes

LEMMA HubStarts == Init => HubInv
<1> SUFFICES ASSUME Init PROVE HubInv
  OBVIOUS
<1>1. <<>> \in Seq(Seqs) /\ Len(<<>>) = 0 /\ <<>> \in Gaps /\ Elements(<<>>) = {}
  BY EmptyLine DEF Elements
<1>2. ChannelTypes /\ RunTypes /\ BrowserTypes
  <2>1. ChannelTypes
    <3>1. history = <<>> /\ lastSeq = -1 /\ accepted = {}
      BY DEF Init
    <3>2. Len(history) <= ReplayEvents
      BY <1>1, <3>1, HubAssumption
    <3>3. QED
      BY <1>1, <3>1, <3>2 DEF ChannelTypes
  <2>2. RunTypes
    <3>1. 0 \in 0 .. Last + 1
      BY HubAssumption
    <3>2. QED
      BY <3>1 DEF Init, RunTypes
  <2>3. BrowserTypes
    BY HubAssumption DEF Init, BrowserTypes
  <2>4. QED
    BY <2>1, <2>2, <2>3
<1>3. SubTypes
  BY <1>1 DEF Init, SubTypes
<1>4. RingInv
  BY DEF Init, RingInv, Ascends
<1>5. ASSUME NEW k \in Slots PROVE ConnInv(k)
  <2>1. /\ pc[k] = "free" /\ replay[k] = <<>> /\ queue[k] = <<>> /\ gap[k] = <<>> /\ held[k] = -1
        /\ last[k] = -1 /\ rendered[k] = {} /\ named[k] = {} /\ lastSeq = -1
    BY DEF Init
  <2>2. InLine(<<>>, -1, <<>>, <<>>, -1, -1) /\ Sent(<<>>, -1, <<>>, <<>>, -1, {}, {}, -1)
    BY EmptyLine
  <2>3. Stage(k) /\ Covered(k)
    BY <2>1 DEF Stage, Covered
  <2>4. QED
    BY <1>1, <2>1, <2>2, <2>3, HubAssumption DEF ConnInv
<1>6. QED
  BY <1>2, <1>3, <1>4, <1>5 DEF HubInv

\* publish, for an event that advances the sequence.
LEMMA AcceptKeeps ==
    ASSUME HubInv, NEW s \in Seqs, Accept(s),
           UNCHANGED <<pc, after, floor, replay, held, last, rendered, named>>
    PROVE  /\ ChannelTypes' /\ SubTypes' /\ RingInv'
           /\ \A k \in Slots : ConnInv(k)'
<1>1. CASE ~Fresh(s)
  <2>1. UNCHANGED <<history, lastSeq, accepted, queue, gap>>
    BY <1>1 DEF Accept
  <2>2. ChannelTypes' /\ SubTypes' /\ RingInv'
    BY <2>1 DEF HubInv, ChannelTypes, SubTypes, RingInv, Ascends
  <2>3. QED
    BY <2>1, <2>2, ConnAside DEF HubInv
<1>2. CASE Fresh(s)
  <2>1. /\ s > lastSeq /\ history' = Ring(history, s) /\ lastSeq' = s /\ accepted' = accepted \cup {s}
        /\ queue' = [k \in Slots |-> IF k \in Subscribers THEN Offered(k, s) ELSE queue[k]]
        /\ gap' = [k \in Slots |-> IF k \in Subscribers THEN GapAfterOffer(k, s) ELSE gap[k]]
    BY <1>2 DEF Accept, Fresh
  <2>2. ChannelTypes' /\ RingInv'
    BY <2>1, RingIs DEF HubInv, ChannelTypes
  <2>3. ASSUME NEW k \in Slots, k \in Subscribers
        PROVE  /\ queue'[k] \in Seq(Seqs) /\ gap'[k] \in Gaps /\ Len(queue'[k]) <= QueueEvents
               /\ InLine(replay[k], held[k], queue'[k], gap'[k], last[k], s)
               /\ Sent(replay[k], held[k], queue'[k], gap'[k], last[k], rendered[k], named[k], s)
               /\ Elements(queue[k]) \cup Span(gap[k]) \cup {s} \subseteq Elements(queue'[k]) \cup Span(gap'[k])
    <3>1. queue'[k] = MailTaken(queue[k], s) /\ gap'[k] = GapTaken(gap[k], queue[k])
      BY <2>1, <2>3 DEF Offered, GapAfterOffer, MailTaken, GapTaken
    <3>2. /\ replay[k] \in Seq(Seqs) /\ held[k] \in Seqs \cup {-1} /\ queue[k] \in Seq(Seqs)
          /\ gap[k] \in Gaps /\ last[k] \in Seqs \cup {-1} /\ rendered[k] \in SUBSET Seqs
          /\ named[k] \in SUBSET Seqs /\ lastSeq \in Seqs \cup {-1}
      BY DEF HubInv, SubTypes, ChannelTypes
    <3>3. /\ InLine(replay[k], held[k], queue[k], gap[k], last[k], lastSeq)
          /\ Sent(replay[k], held[k], queue[k], gap[k], last[k], rendered[k], named[k], lastSeq)
          /\ Len(queue[k]) <= QueueEvents
      BY DEF HubInv, ConnInv
    <3>4. s > lastSeq
      BY <2>1
    <3>5. /\ MailTaken(queue[k], s) \in Seq(Seqs) /\ GapTaken(gap[k], queue[k]) \in Gaps
          /\ Len(MailTaken(queue[k], s)) <= QueueEvents
          /\ InLine(replay[k], held[k], MailTaken(queue[k], s), GapTaken(gap[k], queue[k]), last[k], s)
          /\ Sent(replay[k], held[k], MailTaken(queue[k], s), GapTaken(gap[k], queue[k]), last[k],
                  rendered[k], named[k], s)
          /\ Elements(queue[k]) \cup Span(gap[k]) \cup {s}
               \subseteq Elements(MailTaken(queue[k], s)) \cup Span(GapTaken(gap[k], queue[k]))
      BY <3>2, <3>3, <3>4, OfferIs
    <3>6. QED
      BY <3>1, <3>5
  <2>4. ASSUME NEW k \in Slots, k \notin Subscribers
        PROVE  queue'[k] = queue[k] /\ gap'[k] = gap[k] /\ pc[k] = "free"
    BY <2>1, <2>4 DEF Subscribers
  <2>5. SubTypes'
    <3>1. \A k \in Slots : queue'[k] \in Seq(Seqs) /\ gap'[k] \in Gaps
      BY <2>3, <2>4 DEF HubInv, SubTypes
    <3>2. queue' = [k \in Slots |-> queue'[k]] /\ gap' = [k \in Slots |-> gap'[k]]
      BY <2>1
    <3>3. queue' \in [Slots -> Seq(Seqs)] /\ gap' \in [Slots -> Gaps]
      BY <3>1, <3>2
    <3>4. QED
      BY <3>3 DEF HubInv, SubTypes
  <2>6. ASSUME NEW k \in Slots PROVE ConnInv(k)'
    <3>1. CASE k \in Subscribers
      <4>1. Stage(k)'
        BY <3>1 DEF HubInv, ConnInv, Stage, Subscribers
      <4>2. Covered(k)'
        <5>1. Owed(k)' = Owed(k)
          BY DEF Owed
        <5>2. GapRange(k) \cup Pending(k) \cup {s} \subseteq GapRange(k)' \cup Pending(k)'
          <6>1. GapRange(k)' = Span(gap'[k]) /\ Pending(k)' = Waiting(replay[k], held[k], queue'[k])
            BY DEF GapRange, Span, Pending, Waiting
          <6>2. QED
            BY <2>3, <3>1, <6>1, Sets DEF Waiting
        <5>3. Covered(k) /\ pc[k] # "free"
          BY <3>1 DEF HubInv, ConnInv, Subscribers
        <5>4. QED
          BY <2>1, <5>1, <5>2, <5>3 DEF Covered
      <4>3. QED
        BY <2>1, <2>3, <3>1, <4>1, <4>2 DEF HubInv, ConnInv
    <3>2. CASE k \notin Subscribers
      <4>1. ConnInv(k)
        BY DEF HubInv
      <4>2. QED
        BY <2>1, <2>4, <3>2, <4>1, ConnGone DEF ConnInv, Stage
    <3>3. QED
      BY <3>1, <3>2
  <2>7. QED
    BY <2>2, <2>5, <2>6
<1>3. QED
  BY <1>1, <1>2

\* A step that leaves the hub and every connection as they are.
LEMMA Calm ==
    ASSUME HubInv, UNCHANGED <<channel, sub>>
    PROVE  ChannelTypes' /\ SubTypes' /\ RingInv' /\ \A k \in Slots : ConnInv(k)'
<1>1. UNCHANGED <<history, lastSeq, accepted>>
  BY DEF channel
<1>2. UNCHANGED <<pc, after, floor, replay, queue, gap, held, last, rendered, named>>
  BY DEF sub
<1>3. ChannelTypes' /\ RingInv'
  BY <1>1 DEF HubInv, ChannelTypes, RingInv, Ascends
<1>4. SubTypes'
  BY <1>2 DEF HubInv, SubTypes
<1>5. \A k \in Slots : ConnInv(k)'
  BY <1>1, <1>2, ConnAside DEF HubInv
<1>6. QED
  BY <1>3, <1>4, <1>5

LEMMA ArriveKeeps ==
    ASSUME HubInv, NEW s \in Seqs, Arrive(s), next' \in 0 .. Last + 1
    PROVE  HubInv'
<1>1. /\ UNCHANGED <<pump, pc, after, floor, replay, held, last, rendered, named, browser>>
      /\ Accept(s) \/ UNCHANGED <<history, lastSeq, accepted, queue, gap>>
  BY DEF Arrive
<1>2. RunTypes' /\ BrowserTypes'
  BY <1>1 DEF HubInv, RunTypes, BrowserTypes, pump, browser
<1>3. ChannelTypes' /\ SubTypes' /\ RingInv' /\ \A k \in Slots : ConnInv(k)'
  <2>1. CASE Accept(s)
    BY <1>1, <2>1, AcceptKeeps
  <2>2. CASE UNCHANGED <<history, lastSeq, accepted, queue, gap>>
    BY <1>1, <2>2, Calm DEF channel, sub
  <2>3. QED
    BY <1>1, <2>1, <2>2
<1>4. QED
  BY <1>2, <1>3 DEF HubInv

LEMMA ProducerKeeps == ASSUME HubInv, Emit \/ Redeliver PROVE HubInv'
<1>1. CASE Emit
  <2>1. next \in Seqs /\ Arrive(next) /\ next' \in 0 .. Last + 1
    BY <1>1, SeqsAre DEF Emit, HubInv, RunTypes, Seqs
  <2>2. QED
    BY <2>1, ArriveKeeps
<1>2. CASE Redeliver
  BY <1>2, ArriveKeeps DEF Redeliver, HubInv, RunTypes
<1>3. QED
  BY <1>1, <1>2

LEMMA RelayKeeps == ASSUME HubInv, Follow \/ Unfollow \/ PumpFails PROVE HubInv'
<1>1. UNCHANGED <<next, channel, sub, browser>>
  BY DEF Follow, Unfollow, PumpFails, producer
<1>2. RunTypes'
  BY <1>1 DEF HubInv, RunTypes, Follow, Unfollow, PumpFails
<1>3. BrowserTypes'
  BY <1>1 DEF HubInv, BrowserTypes, browser
<1>4. QED
  BY <1>1, <1>2, <1>3, Calm DEF HubInv

LEMMA RetryIs == ASSUME BrowserTypes, Retry PROVE BrowserTypes'
BY HubAssumption DEF Retry, BrowserTypes

LEMMA EmptyRing == ASSUME EmptyChannel PROVE ChannelTypes' /\ RingInv'
<1>1. history' = <<>> /\ lastSeq' = -1 /\ accepted' = {} /\ <<>> \in Seq(Seqs) /\ Len(<<>>) = 0
  BY EmptyLine DEF EmptyChannel
<1>2. Len(history') <= ReplayEvents
  BY <1>1, HubAssumption
<1>3. QED
  BY <1>1, <1>2 DEF ChannelTypes, RingInv, Ascends

LEMMA ForgetKeeps == ASSUME HubInv, Prune \/ Restart PROVE HubInv'
<1>1. EmptyChannel /\ next' = next /\ lastSeq' = -1
  BY DEF Prune, Restart, EmptyChannel, producer
<1>2. ChannelTypes' /\ RingInv'
  BY <1>1, EmptyRing
<1>3. CASE Prune
  <2>1. UNCHANGED <<pump, sub, browser>> /\ Subscribers = {}
    BY <1>3 DEF Prune
  <2>2. RunTypes' /\ BrowserTypes'
    BY <1>1, <2>1 DEF HubInv, RunTypes, BrowserTypes, pump, browser
  <2>3. SubTypes'
    BY <2>1 DEF HubInv, SubTypes, sub
  <2>4. ASSUME NEW k \in Slots PROVE ConnInv(k)'
    <3>1. pc[k] = "free" /\ Stage(k)
      BY <2>1 DEF Subscribers, HubInv, ConnInv
    <3>2. QED
      BY <1>1, <2>1, <3>1, ConnGone DEF Stage, sub
  <2>5. QED
    BY <1>2, <2>2, <2>3, <2>4 DEF HubInv
<1>4. CASE Restart
  <2>1. /\ Closed(Slots) /\ relay' = "none" /\ asked' = FALSE
        /\ Retry \/ UNCHANGED browser
    BY <1>4 DEF Restart
  <2>2. RunTypes'
    BY <1>1, <2>1 DEF HubInv, RunTypes
  <2>3. BrowserTypes'
    BY <2>1, RetryIs DEF HubInv, BrowserTypes, browser
  <2>4. SubTypes
    BY DEF HubInv
  <2>5. /\ SubTypes'
        /\ \A k \in Slots : /\ pc'[k] = "free" /\ replay'[k] = <<>> /\ queue'[k] = <<>> /\ gap'[k] = <<>>
                           /\ held'[k] = -1 /\ last'[k] = -1 /\ rendered'[k] = {} /\ named'[k] = {}
    BY <2>1, <2>4, ClosedIs
  <2>6. \A k \in Slots : ConnInv(k)'
    BY <1>1, <2>5, ConnGone
  <2>7. QED
    BY <1>2, <2>2, <2>3, <2>5, <2>6 DEF HubInv
<1>5. QED
  BY <1>3, <1>4

LEMMA ClientKeeps == ASSUME HubInv, Refused \/ ConnectFails \/ Drop PROVE HubInv'
<1>1. UNCHANGED <<next, relay, asked, channel, sub>>
  BY DEF Refused, ConnectFails, Drop, producer, pump
<1>2. BrowserTypes'
  <2>1. CASE Refused
    BY <2>1 DEF Refused, HubInv, BrowserTypes
  <2>2. CASE ConnectFails \/ Drop
    BY <2>2, RetryIs DEF ConnectFails, Drop, HubInv
  <2>3. QED
    BY <2>1, <2>2
<1>3. RunTypes'
  BY <1>1 DEF HubInv, RunTypes
<1>4. QED
  BY <1>1, <1>2, <1>3, Calm DEF HubInv

\* A connection that closes, while the hub and the others go on.
LEMMA CloseKeeps ==
    ASSUME HubInv, NEW k \in Slots, Closed({k}), UNCHANGED channel
    PROVE  ChannelTypes' /\ SubTypes' /\ RingInv' /\ \A j \in Slots : ConnInv(j)'
<1>1. UNCHANGED <<history, lastSeq, accepted>> /\ SubTypes
  BY DEF channel, HubInv
<1>2. ChannelTypes' /\ RingInv'
  BY <1>1 DEF HubInv, ChannelTypes, RingInv, Ascends
<1>3. /\ SubTypes'
      /\ pc'[k] = "free" /\ replay'[k] = <<>> /\ queue'[k] = <<>> /\ gap'[k] = <<>>
      /\ held'[k] = -1 /\ last'[k] = -1 /\ rendered'[k] = {} /\ named'[k] = {}
      /\ \A j \in Slots \ {k} :
           /\ pc'[j] = pc[j] /\ after'[j] = after[j] /\ floor'[j] = floor[j]
           /\ replay'[j] = replay[j] /\ queue'[j] = queue[j] /\ gap'[j] = gap[j]
           /\ held'[j] = held[j] /\ last'[j] = last[j]
           /\ rendered'[j] = rendered[j] /\ named'[j] = named[j]
  BY <1>1, ClosedIs
<1>4. ConnInv(k)'
  BY <1>2, <1>3, ConnGone DEF ChannelTypes
<1>5. \A j \in Slots \ {k} : ConnInv(j)'
  BY <1>1, <1>3, ConnAside DEF HubInv
<1>6. QED
  BY <1>2, <1>3, <1>4, <1>5

LEMMA ReapKeeps == ASSUME HubInv, NEW k \in Slots, Reap(k) PROVE HubInv'
<1>1. Closed({k}) /\ UNCHANGED <<next, relay, asked, channel, browser>>
  BY DEF Reap, producer, pump
<1>2. RunTypes' /\ BrowserTypes'
  BY <1>1 DEF HubInv, RunTypes, BrowserTypes, browser
<1>3. QED
  BY <1>1, <1>2, CloseKeeps DEF HubInv

LEMMA ReadsIs == ASSUME BrowserTypes, NEW k \in Slots, NEW s \in Seqs, ClientReads(k, s) PROVE BrowserTypes'
BY DEF ClientReads, BrowserTypes, browser

LEMMA EndKeeps == ASSUME HubInv, NEW k \in Slots, End(k) PROVE HubInv'
<1>1. Closed({k}) /\ UNCHANGED <<next, relay, asked, channel>> /\ ClientReads(k, Last)
  BY DEF End, producer, pump
<1>2. Last \in Seqs
  BY HubAssumption DEF Seqs
<1>3. RunTypes' /\ BrowserTypes'
  BY <1>1, <1>2, ReadsIs DEF HubInv, RunTypes
<1>4. QED
  BY <1>1, <1>3, CloseKeeps DEF HubInv

LEMMA SetOne ==
    ASSUME NEW S, NEW f \in [Slots -> S], NEW k \in Slots, NEW x \in S, NEW h, h = [f EXCEPT ![k] = x]
    PROVE  h \in [Slots -> S] /\ h[k] = x /\ \A j \in Slots \ {k} : h[j] = f[j]
OBVIOUS

\* subscribe: what the hub has accepted above the resume point is in the
\* snapshot, or below its first event and owed as a gap.
LEMMA OpenKeeps == ASSUME HubInv, NEW k \in Slots, Open(k) PROVE HubInv'
<1>1. /\ pc[k] = "free"
      /\ after' = [after EXCEPT ![k] = clientSeq]
      /\ floor' = [floor EXCEPT ![k] =
                      IF clientSeq = -1 /\ history # <<>> THEN Head(history) - 1 ELSE clientSeq]
      /\ replay' = [replay EXCEPT ![k] = Snapshot]
      /\ pc' = [pc EXCEPT ![k] = IF clientSeq # -1 /\ Evicted THEN "resume" ELSE "stream"]
      /\ client' = "live" /\ conn' = k /\ attempt' = 0
      /\ UNCHANGED <<next, channel, relay, asked, queue, gap, held, last, rendered, named, clientSeq>>
  BY DEF Open, producer, pump
<1>2. UNCHANGED <<history, lastSeq, accepted>>
  BY <1>1 DEF channel
<1>3. /\ history \in Seq(Seqs) /\ Ascends(history) /\ clientSeq \in Seqs \cup {-1}
      /\ lastSeq \in Seqs \cup {-1} /\ accepted \subseteq Seqs /\ Len(history) <= ReplayEvents
      /\ Len(history) \in Nat
  BY DEF HubInv, ChannelTypes, BrowserTypes, RingInv
<1>4. RunTypes' /\ BrowserTypes' /\ ChannelTypes' /\ RingInv'
  <2>1. RunTypes' /\ ChannelTypes' /\ RingInv'
    BY <1>1, <1>2 DEF HubInv, RunTypes, ChannelTypes, RingInv, Ascends
  <2>2. BrowserTypes'
    BY <1>1, HubAssumption DEF HubInv, BrowserTypes
  <2>3. QED
    BY <2>1, <2>2
<1>5. PICK snap : snap = Snapshot
  OBVIOUS
<1>6. /\ snap \in Seq(Seqs) /\ Len(snap) <= Len(history) /\ Ascends(snap)
      /\ Elements(snap) = {x \in Elements(history) : x > clientSeq}
      /\ history # <<>> /\ clientSeq < Head(history) => snap # <<>> /\ Head(snap) = Head(history)
  BY <1>3, <1>5, AboveIs DEF Snapshot
<1>7. PICK fl : fl = IF clientSeq = -1 /\ history # <<>> THEN Head(history) - 1 ELSE clientSeq
  OBVIOUS
<1>8. PICK at : at = IF clientSeq # -1 /\ Evicted THEN "resume" ELSE "stream"
  OBVIOUS
<1>9. /\ clientSeq \in Int /\ clientSeq >= -1
      /\ history # <<>> => Head(history) \in Seqs /\ Head(history) \in Int /\ Head(history) >= 0
  <2>1. history # <<>> => Head(history) \in Seqs
    BY <1>3, TailIs
  <2>2. clientSeq = -1 \/ (clientSeq \in Nat /\ clientSeq > -1)
    BY <1>3, SeqsAre
  <2>3. Head(history) \in Seqs => Head(history) \in Nat
    BY SeqsAre
  <2>4. QED
    BY <2>1, <2>2, <2>3
<1>10. fl \in Seqs \cup {-1}
  <2>1. CASE clientSeq = -1 /\ history # <<>>
    BY <1>7, <1>9, <2>1, HubAssumption DEF Seqs
  <2>2. CASE ~(clientSeq = -1 /\ history # <<>>)
    BY <1>3, <1>7, <2>2
  <2>3. QED
    BY <2>1, <2>2
<1>11. at \in {"free", "resume", "stream", "held"}
  BY <1>8
<1>12. SubTypes
  BY DEF HubInv
<1>13. /\ after' \in [Slots -> Seqs \cup {-1}] /\ after'[k] = clientSeq
       /\ \A j \in Slots \ {k} : after'[j] = after[j]
  BY <1>1, <1>3, <1>12, SetOne DEF SubTypes
<1>14. /\ floor' \in [Slots -> Seqs \cup {-1}] /\ floor'[k] = fl
       /\ \A j \in Slots \ {k} : floor'[j] = floor[j]
  BY <1>1, <1>7, <1>10, <1>12, SetOne DEF SubTypes
<1>15. /\ replay' \in [Slots -> Seq(Seqs)] /\ replay'[k] = snap
       /\ \A j \in Slots \ {k} : replay'[j] = replay[j]
  BY <1>1, <1>5, <1>6, <1>12, SetOne DEF SubTypes
<1>16. /\ pc' \in [Slots -> {"free", "resume", "stream", "held"}] /\ pc'[k] = at
       /\ \A j \in Slots \ {k} : pc'[j] = pc[j]
  BY <1>1, <1>8, <1>11, <1>12, SetOne DEF SubTypes
<1>17. SubTypes'
  BY <1>1, <1>12, <1>13, <1>14, <1>15, <1>16 DEF SubTypes
<1>18. /\ queue'[k] = <<>> /\ gap'[k] = <<>> /\ held'[k] = -1 /\ last'[k] = -1
       /\ rendered'[k] = {} /\ named'[k] = {}
  BY <1>1 DEF HubInv, ConnInv, Stage
<1>19. \A x \in Elements(history) : x \in Int /\ x <= lastSeq
  <2>1. ASSUME NEW i \in 1 .. Len(history) PROVE history[i] \in Int /\ history[i] <= lastSeq
    <3>1. history # <<>> /\ Len(history) \in 1 .. Len(history) /\ (i = Len(history) \/ i < Len(history))
      BY <1>3, <2>1
    <3>2. history[Len(history)] = lastSeq /\ (i < Len(history) => history[i] < history[Len(history)])
      BY <3>1 DEF HubInv, RingInv, Ascends
    <3>3. history[i] \in Seqs
      BY <1>3
    <3>4. history[i] \in Int /\ lastSeq \in Int
      BY <1>3, <3>3, SeqsAre
    <3>5. QED
      BY <3>1, <3>2, <3>4
  <2>2. QED
    BY <2>1 DEF Elements
<1>20. InLine(snap, -1, <<>>, <<>>, -1, lastSeq) /\ Sent(snap, -1, <<>>, <<>>, -1, {}, {}, lastSeq)
  <2>1. Elements(<<>>) = {} /\ Span(<<>>) = {} /\ -1 <= lastSeq /\ Ascends(<<>>)
    <3>1. Elements(<<>>) = {} /\ Span(<<>>) = {}
      BY <1>3, ElementsAre DEF Span
    <3>2. InLine(<<>>, -1, <<>>, <<>>, -1, lastSeq)
      BY <1>3, EmptyLine
    <3>3. QED
      BY <3>1, <3>2 DEF InLine
  <2>2. \A x \in Elements(snap) : -1 < x /\ x <= lastSeq
    BY <1>6, <1>9, <1>19
  <2>3. QED
    BY <1>6, <2>1, <2>2 DEF InLine, Sent
<1>21. Len(snap) <= ReplayEvents /\ Len(<<>>) <= QueueEvents
  BY <1>3, <1>6, HubAssumption
<1>22. at = "resume" => history # <<>> /\ clientSeq + 1 < Head(history)
  BY <1>8 DEF Evicted
<1>23. at = "resume" => snap # <<>> /\ Head(snap) = Head(history)
  BY <1>6, <1>9, <1>22
<1>24. Stage(k)'
  <2>1. at # "held" /\ at # "free"
    BY <1>8
  <2>2. QED
    BY <1>15, <1>16, <1>18, <1>23, <2>1 DEF Stage
<1>25. Covered(k)'
  <2>1. SUFFICES ASSUME NEW s \in accepted, s > fl
                 PROVE  s \in Owed(k)' \cup Pending(k)'
    BY <1>2, <1>14 DEF Covered
  <2>2. Pending(k)' = Elements(snap)
    <3>1. Pending(k)' = Elements(snap) \cup Elements(<<>>) \cup ({-1} \ {-1})
      BY <1>15, <1>18 DEF Pending
    <3>2. Elements(<<>>) = {}
      BY <1>6, ElementsAre
    <3>3. QED
      BY <3>1, <3>2
  <2>3. Owed(k)' = IF at = "resume" THEN clientSeq + 1 .. Head(snap) - 1 ELSE {}
    BY <1>13, <1>15, <1>16 DEF Owed
  <2>4. history # <<>> /\ (s >= Head(history) => s \in Elements(history)) /\ s \in Int
    BY <1>3, SeqsAre DEF HubInv, RingInv
  <2>5. s > clientSeq
    BY <1>7, <1>9, <2>1, <2>4
  <2>6. CASE s >= Head(history)
    BY <1>6, <2>2, <2>4, <2>5, <2>6
  <2>7. CASE ~(s >= Head(history))
    <3>1. s < Head(history) /\ clientSeq + 1 < Head(history) /\ clientSeq < Head(history)
      BY <1>9, <2>4, <2>5, <2>7
    <3>2. clientSeq # -1
      BY <1>7, <1>9, <2>1, <2>4, <3>1
    <3>3. at = "resume"
      BY <1>8, <2>4, <3>1, <3>2 DEF Evicted
    <3>4. Head(snap) = Head(history)
      BY <1>23, <3>3
    <3>5. s \in clientSeq + 1 .. Head(snap) - 1
      BY <1>9, <2>4, <2>5, <3>1, <3>4
    <3>6. QED
      BY <2>3, <3>3, <3>5
  <2>8. QED
    BY <2>6, <2>7
<1>26. ConnInv(k)'
  BY <1>2, <1>15, <1>18, <1>20, <1>21, <1>24, <1>25 DEF ConnInv
<1>27. ASSUME NEW j \in Slots \ {k} PROVE ConnInv(j)'
  BY <1>1, <1>2, <1>13, <1>14, <1>15, <1>16, ConnAside DEF HubInv
<1>28. QED
  BY <1>4, <1>17, <1>26, <1>27 DEF HubInv

-----------------------------------------------------------------------------
(* The generator's steps.                                                     *)

\* A step of one generator: what waits is what waited, but for what is sent.
LEMMA GeneratorStep ==
    ASSUME HubInv, NEW k \in Slots, UNCHANGED <<next, relay, asked, channel, after, floor>>,
           SubTypes', BrowserTypes',
           \A j \in Slots \ {k} :
              /\ pc'[j] = pc[j] /\ replay'[j] = replay[j] /\ queue'[j] = queue[j] /\ gap'[j] = gap[j]
              /\ held'[j] = held[j] /\ last'[j] = last[j]
              /\ rendered'[j] = rendered[j] /\ named'[j] = named[j],
           pc[k] # "free",
           InLine(replay'[k], held'[k], queue'[k], gap'[k], last'[k], lastSeq),
           Sent(replay'[k], held'[k], queue'[k], gap'[k], last'[k], rendered'[k], named'[k], lastSeq),
           Len(replay'[k]) <= ReplayEvents, Len(queue'[k]) <= QueueEvents, Stage(k)',
           rendered[k] \cup named[k] \cup GapRange(k) \cup Owed(k) \cup Pending(k)
             \subseteq rendered'[k] \cup named'[k] \cup Span(gap'[k])
                         \cup Waiting(replay'[k], held'[k], queue'[k])
    PROVE  HubInv'
<1>1. UNCHANGED <<history, lastSeq, accepted>>
  BY DEF channel
<1>2. RunTypes' /\ ChannelTypes' /\ RingInv'
  BY <1>1 DEF HubInv, RunTypes, ChannelTypes, RingInv, Ascends
<1>3. GapRange(k)' = Span(gap'[k]) /\ Pending(k)' = Waiting(replay'[k], held'[k], queue'[k])
  BY DEF GapRange, Span, Pending, Waiting
<1>4. Covered(k)'
  BY <1>1, <1>3 DEF HubInv, ConnInv, Covered
<1>5. ConnInv(k)'
  BY <1>1, <1>4 DEF ConnInv
<1>6. ASSUME NEW j \in Slots \ {k} PROVE ConnInv(j)'
  BY <1>1, ConnAside DEF HubInv
<1>7. QED
  BY <1>2, <1>5, <1>6 DEF HubInv

LEMMA ConnIs ==
    ASSUME HubInv, NEW k \in Slots
    PROVE  /\ replay[k] \in Seq(Seqs) /\ held[k] \in Seqs \cup {-1} /\ queue[k] \in Seq(Seqs)
           /\ gap[k] \in Gaps /\ last[k] \in Seqs \cup {-1} /\ rendered[k] \in SUBSET Seqs
           /\ named[k] \in SUBSET Seqs /\ lastSeq \in Seqs \cup {-1} /\ after[k] \in Seqs \cup {-1}
           /\ InLine(replay[k], held[k], queue[k], gap[k], last[k], lastSeq)
           /\ Sent(replay[k], held[k], queue[k], gap[k], last[k], rendered[k], named[k], lastSeq)
           /\ Len(replay[k]) <= ReplayEvents /\ Len(queue[k]) <= QueueEvents /\ Stage(k)
           /\ GapRange(k) = Span(gap[k]) /\ Pending(k) = Waiting(replay[k], held[k], queue[k])
BY Sets DEF HubInv, SubTypes, ChannelTypes, ConnInv

LEMMA EncodeIs ==
    ASSUME HubInv, NEW k \in Slots, Encode(k), NEW s \in Seqs, s = Due(k), replay[k] = <<>> => s > last[k]
    PROVE  /\ UNCHANGED <<next, relay, asked, channel, after, floor, gap>> /\ BrowserTypes'
           /\ last' \in [Slots -> Seqs \cup {-1}] /\ last'[k] = s
           /\ rendered' \in [Slots -> SUBSET Seqs] /\ named' \in [Slots -> SUBSET Seqs]
           /\ \/ rendered'[k] = rendered[k] \cup {s} /\ named'[k] = named[k]
              \/ rendered'[k] = rendered[k] /\ named'[k] = named[k] \cup {s}
           /\ \A j \in Slots \ {k} :
                 last'[j] = last[j] /\ rendered'[j] = rendered[j] /\ named'[j] = named[j]
<1>1. SubTypes /\ BrowserTypes /\ last[k] \in Seqs \cup {-1}
  BY DEF HubInv, SubTypes
<1>2. ~(replay[k] = <<>> /\ s <= last[k])
  <2>1. s \in Int /\ last[k] \in Int
    BY <1>1, SeqsAre
  <2>2. QED
    BY <2>1
<1>3. /\ UNCHANGED <<next, relay, asked, channel, after, floor, gap>>
      /\ last' = [last EXCEPT ![k] = s]
      /\ IF AsGap(s) THEN named' = [named EXCEPT ![k] = named[k] \cup {s}] /\ UNCHANGED <<rendered, browser>>
         ELSE named' = named /\ rendered' = [rendered EXCEPT ![k] = rendered[k] \cup {s}] /\ ClientReads(k, s)
  BY <1>2 DEF Encode, producer, pump
<1>4. last' \in [Slots -> Seqs \cup {-1}] /\ last'[k] = s /\ \A j \in Slots \ {k} : last'[j] = last[j]
  BY <1>1, <1>3, SetOne DEF SubTypes
<1>5. rendered[k] \cup {s} \in SUBSET Seqs /\ named[k] \cup {s} \in SUBSET Seqs
  BY <1>1 DEF SubTypes
<1>6. CASE AsGap(s)
  <2>1. /\ named' \in [Slots -> SUBSET Seqs] /\ named'[k] = named[k] \cup {s}
        /\ \A j \in Slots \ {k} : named'[j] = named[j]
    <3>1. named \in [Slots -> SUBSET Seqs] /\ named' = [named EXCEPT ![k] = named[k] \cup {s}]
      BY <1>1, <1>3, <1>6 DEF SubTypes
    <3>2. QED
      BY <1>5, <3>1, SetOne
  <2>2. rendered' = rendered /\ BrowserTypes'
    BY <1>1, <1>3, <1>6 DEF browser, BrowserTypes
  <2>3. QED
    BY <1>1, <1>3, <1>4, <2>1, <2>2 DEF SubTypes
<1>7. CASE ~AsGap(s)
  <2>1. /\ rendered' \in [Slots -> SUBSET Seqs] /\ rendered'[k] = rendered[k] \cup {s}
        /\ \A j \in Slots \ {k} : rendered'[j] = rendered[j]
    <3>1. rendered \in [Slots -> SUBSET Seqs] /\ rendered' = [rendered EXCEPT ![k] = rendered[k] \cup {s}]
      BY <1>1, <1>3, <1>7 DEF SubTypes
    <3>2. QED
      BY <1>5, <3>1, SetOne
  <2>2. named' = named /\ BrowserTypes'
    BY <1>1, <1>3, <1>7, ReadsIs
  <2>3. QED
    BY <1>1, <1>3, <1>4, <2>1, <2>2 DEF SubTypes
<1>8. QED
  BY <1>6, <1>7

LEMMA SendReplayKeeps == ASSUME HubInv, NEW k \in Slots, SendReplay(k) PROVE HubInv'
<1>1. /\ pc[k] = "stream" /\ replay[k] # <<>> /\ Encode(k)
      /\ replay' = [replay EXCEPT ![k] = Tail(replay[k])]
      /\ UNCHANGED <<pc, queue, held>>
  BY DEF SendReplay
<1>2. /\ replay[k] \in Seq(Seqs) /\ held[k] \in Seqs \cup {-1} /\ queue[k] \in Seq(Seqs)
      /\ gap[k] \in Gaps /\ last[k] \in Seqs \cup {-1} /\ rendered[k] \in SUBSET Seqs
      /\ named[k] \in SUBSET Seqs /\ lastSeq \in Seqs \cup {-1}
      /\ InLine(replay[k], held[k], queue[k], gap[k], last[k], lastSeq)
      /\ Sent(replay[k], held[k], queue[k], gap[k], last[k], rendered[k], named[k], lastSeq)
      /\ Len(replay[k]) <= ReplayEvents /\ Len(queue[k]) <= QueueEvents /\ Stage(k)
      /\ GapRange(k) = Span(gap[k]) /\ Pending(k) = Waiting(replay[k], held[k], queue[k])
  BY ConnIs
<1>3. /\ Tail(replay[k]) \in Seq(Seqs) /\ Head(replay[k]) \in Seqs
      /\ Len(Tail(replay[k])) <= ReplayEvents
  BY <1>1, <1>2, TailIs, HubAssumption
<1>4. PICK s \in Seqs : s = Head(replay[k]) /\ s = Due(k)
  BY <1>1, <1>3 DEF Due
<1>5. /\ UNCHANGED <<next, relay, asked, channel, after, floor, gap>> /\ BrowserTypes'
      /\ last' \in [Slots -> Seqs \cup {-1}] /\ last'[k] = s
      /\ rendered' \in [Slots -> SUBSET Seqs] /\ named' \in [Slots -> SUBSET Seqs]
      /\ \/ rendered'[k] = rendered[k] \cup {s} /\ named'[k] = named[k]
         \/ rendered'[k] = rendered[k] /\ named'[k] = named[k] \cup {s}
      /\ \A j \in Slots \ {k} :
            last'[j] = last[j] /\ rendered'[j] = rendered[j] /\ named'[j] = named[j]
  BY <1>1, <1>4, EncodeIs
<1>6. SubTypes
  BY DEF HubInv
<1>7. /\ replay' \in [Slots -> Seq(Seqs)] /\ replay'[k] = Tail(replay[k])
      /\ \A j \in Slots \ {k} : replay'[j] = replay[j]
  BY <1>1, <1>3, <1>6, SetOne DEF SubTypes
<1>8. SubTypes'
  BY <1>1, <1>5, <1>6, <1>7 DEF SubTypes
<1>9. /\ InLine(Tail(replay[k]), held[k], queue[k], gap[k], s, lastSeq)
      /\ Sent(Tail(replay[k]), held[k], queue[k], gap[k], s, rendered'[k], named'[k], lastSeq)
      /\ Waiting(replay[k], held[k], queue[k]) = Waiting(Tail(replay[k]), held[k], queue[k]) \cup {s}
  <2>1. PICK rn2, na2 : rn2 = rendered'[k] /\ na2 = named'[k]
    OBVIOUS
  <2>2. \/ rn2 = rendered[k] \cup {Head(replay[k])} /\ na2 = named[k]
        \/ rn2 = rendered[k] /\ na2 = named[k] \cup {Head(replay[k])}
    BY <1>4, <1>5, <2>1
  <2>3. /\ InLine(Tail(replay[k]), held[k], queue[k], gap[k], Head(replay[k]), lastSeq)
        /\ Sent(Tail(replay[k]), held[k], queue[k], gap[k], Head(replay[k]), rn2, na2, lastSeq)
        /\ Waiting(replay[k], held[k], queue[k]) = Waiting(Tail(replay[k]), held[k], queue[k]) \cup {Head(replay[k])}
    BY <1>1, <1>2, <2>2, ReplaySent
  <2>4. QED
    BY <1>4, <1>5, <2>1, <2>3
<1>10. Stage(k)' /\ Owed(k) = {}
  BY <1>1, <1>2 DEF Stage, Owed
<1>11. rendered[k] \cup named[k] \cup GapRange(k) \cup Owed(k) \cup Pending(k)
         \subseteq rendered'[k] \cup named'[k] \cup Span(gap'[k])
                     \cup Waiting(replay'[k], held'[k], queue'[k])
  <2>1. rendered[k] \cup named[k] \cup {s} = rendered'[k] \cup named'[k]
    BY <1>5
  <2>2. gap'[k] = gap[k]
    BY <1>5
  <2>3. GapRange(k) = Span(gap[k]) /\ Pending(k) = Waiting(replay[k], held[k], queue[k])
    BY <1>2
  <2>4. Waiting(replay[k], held[k], queue[k])
          = Waiting(replay'[k], held'[k], queue'[k]) \cup {s}
    BY <1>1, <1>7, <1>9
  <2>5. QED
    BY <2>1, <2>2, <2>3, <2>4, <1>10
<1>12. /\ InLine(replay'[k], held'[k], queue'[k], gap'[k], last'[k], lastSeq)
       /\ Sent(replay'[k], held'[k], queue'[k], gap'[k], last'[k], rendered'[k], named'[k], lastSeq)
       /\ Len(replay'[k]) <= ReplayEvents /\ Len(queue'[k]) <= QueueEvents /\ pc[k] # "free"
  BY <1>1, <1>2, <1>3, <1>5, <1>7, <1>9
<1>13. \A j \in Slots \ {k} :
          /\ pc'[j] = pc[j] /\ replay'[j] = replay[j] /\ queue'[j] = queue[j] /\ gap'[j] = gap[j]
          /\ held'[j] = held[j] /\ last'[j] = last[j]
          /\ rendered'[j] = rendered[j] /\ named'[j] = named[j]
  BY <1>1, <1>5, <1>7
<1>14. QED
  BY <1>5, <1>8, <1>10, <1>11, <1>12, <1>13, GeneratorStep

LEMMA TakeKeeps == ASSUME HubInv, NEW k \in Slots, Take(k) PROVE HubInv'
<1>1. /\ pc[k] = "stream" /\ replay[k] = <<>> /\ queue[k] # <<>> /\ gap[k] = <<>> /\ Encode(k)
      /\ queue' = [queue EXCEPT ![k] = Tail(queue[k])]
      /\ UNCHANGED <<pc, replay, held>>
  BY DEF Take
<1>2. /\ replay[k] \in Seq(Seqs) /\ held[k] \in Seqs \cup {-1} /\ queue[k] \in Seq(Seqs)
      /\ gap[k] \in Gaps /\ last[k] \in Seqs \cup {-1} /\ rendered[k] \in SUBSET Seqs
      /\ named[k] \in SUBSET Seqs /\ lastSeq \in Seqs \cup {-1}
      /\ InLine(replay[k], held[k], queue[k], gap[k], last[k], lastSeq)
      /\ Sent(replay[k], held[k], queue[k], gap[k], last[k], rendered[k], named[k], lastSeq)
      /\ Len(replay[k]) <= ReplayEvents /\ Len(queue[k]) <= QueueEvents /\ Stage(k)
      /\ GapRange(k) = Span(gap[k]) /\ Pending(k) = Waiting(replay[k], held[k], queue[k])
  BY ConnIs
<1>3. held[k] = -1
  BY <1>1, <1>2 DEF Stage
<1>4. /\ Tail(queue[k]) \in Seq(Seqs) /\ Head(queue[k]) \in Seqs /\ Head(queue[k]) \in Elements(queue[k])
      /\ Len(Tail(queue[k])) <= QueueEvents
  BY <1>1, <1>2, TailIs, HubAssumption
<1>5. PICK s \in Seqs : s = Head(queue[k]) /\ s = Due(k)
  BY <1>1, <1>4 DEF Due
<1>6. s > last[k]
  <2>1. last[k] < s
    BY <1>2, <1>4, <1>5 DEF InLine
  <2>2. s \in Int /\ last[k] \in Int
    BY <1>2, SeqsAre
  <2>3. QED
    BY <2>1, <2>2
<1>7. /\ UNCHANGED <<next, relay, asked, channel, after, floor, gap>> /\ BrowserTypes'
      /\ last' \in [Slots -> Seqs \cup {-1}] /\ last'[k] = s
      /\ rendered' \in [Slots -> SUBSET Seqs] /\ named' \in [Slots -> SUBSET Seqs]
      /\ \/ rendered'[k] = rendered[k] \cup {s} /\ named'[k] = named[k]
         \/ rendered'[k] = rendered[k] /\ named'[k] = named[k] \cup {s}
      /\ \A j \in Slots \ {k} :
            last'[j] = last[j] /\ rendered'[j] = rendered[j] /\ named'[j] = named[j]
  BY <1>1, <1>5, <1>6, EncodeIs
<1>8. SubTypes
  BY DEF HubInv
<1>9. /\ queue' \in [Slots -> Seq(Seqs)] /\ queue'[k] = Tail(queue[k])
      /\ \A j \in Slots \ {k} : queue'[j] = queue[j]
  BY <1>1, <1>4, <1>8, SetOne DEF SubTypes
<1>10. SubTypes'
  BY <1>1, <1>7, <1>8, <1>9 DEF SubTypes
<1>11. /\ InLine(replay[k], held[k], Tail(queue[k]), gap[k], s, lastSeq)
       /\ Sent(replay[k], held[k], Tail(queue[k]), gap[k], s, rendered'[k], named'[k], lastSeq)
       /\ Waiting(replay[k], held[k], queue[k]) = Waiting(replay[k], held[k], Tail(queue[k])) \cup {s}
  <2>1. PICK rn2, na2 : rn2 = rendered'[k] /\ na2 = named'[k]
    OBVIOUS
  <2>2. \/ rn2 = rendered[k] \cup {Head(queue[k])} /\ na2 = named[k]
        \/ rn2 = rendered[k] /\ na2 = named[k] \cup {Head(queue[k])}
    BY <1>5, <1>7, <2>1
  <2>3. /\ InLine(replay[k], held[k], Tail(queue[k]), gap[k], Head(queue[k]), lastSeq)
        /\ Sent(replay[k], held[k], Tail(queue[k]), gap[k], Head(queue[k]), rn2, na2, lastSeq)
        /\ Waiting(replay[k], held[k], queue[k]) = Waiting(replay[k], held[k], Tail(queue[k])) \cup {Head(queue[k])}
    BY <1>1, <1>2, <1>3, <2>2, QueueSent
  <2>4. QED
    BY <1>5, <1>7, <2>1, <2>3
<1>12. Stage(k)' /\ Owed(k) = {}
  BY <1>1, <1>2 DEF Stage, Owed
<1>13. rendered[k] \cup named[k] \cup GapRange(k) \cup Owed(k) \cup Pending(k)
         \subseteq rendered'[k] \cup named'[k] \cup Span(gap'[k])
                     \cup Waiting(replay'[k], held'[k], queue'[k])
  <2>1. rendered[k] \cup named[k] \cup {s} = rendered'[k] \cup named'[k]
    BY <1>7
  <2>2. gap'[k] = gap[k]
    BY <1>7
  <2>3. GapRange(k) = Span(gap[k]) /\ Pending(k) = Waiting(replay[k], held[k], queue[k])
    BY <1>2
  <2>4. Waiting(replay[k], held[k], queue[k])
          = Waiting(replay'[k], held'[k], queue'[k]) \cup {s}
    BY <1>1, <1>9, <1>11
  <2>5. QED
    BY <2>1, <2>2, <2>3, <2>4, <1>12
<1>14. /\ InLine(replay'[k], held'[k], queue'[k], gap'[k], last'[k], lastSeq)
       /\ Sent(replay'[k], held'[k], queue'[k], gap'[k], last'[k], rendered'[k], named'[k], lastSeq)
       /\ Len(replay'[k]) <= ReplayEvents /\ Len(queue'[k]) <= QueueEvents /\ pc[k] # "free"
  BY <1>1, <1>2, <1>4, <1>7, <1>9, <1>11
<1>15. \A j \in Slots \ {k} :
          /\ pc'[j] = pc[j] /\ replay'[j] = replay[j] /\ queue'[j] = queue[j] /\ gap'[j] = gap[j]
          /\ held'[j] = held[j] /\ last'[j] = last[j]
          /\ rendered'[j] = rendered[j] /\ named'[j] = named[j]
  BY <1>1, <1>7, <1>9
<1>16. QED
  BY <1>7, <1>10, <1>12, <1>13, <1>14, <1>15, GeneratorStep

LEMMA SendHeldKeeps == ASSUME HubInv, NEW k \in Slots, SendHeld(k) PROVE HubInv'
<1>1. /\ pc[k] = "held" /\ Encode(k) /\ Due(k) # -1
      /\ pc' = [pc EXCEPT ![k] = "stream"] /\ held' = [held EXCEPT ![k] = -1]
      /\ UNCHANGED <<replay, queue>>
  BY DEF SendHeld, Encode
<1>2. /\ replay[k] \in Seq(Seqs) /\ held[k] \in Seqs \cup {-1} /\ queue[k] \in Seq(Seqs)
      /\ gap[k] \in Gaps /\ last[k] \in Seqs \cup {-1} /\ rendered[k] \in SUBSET Seqs
      /\ named[k] \in SUBSET Seqs /\ lastSeq \in Seqs \cup {-1}
      /\ InLine(replay[k], held[k], queue[k], gap[k], last[k], lastSeq)
      /\ Sent(replay[k], held[k], queue[k], gap[k], last[k], rendered[k], named[k], lastSeq)
      /\ Len(replay[k]) <= ReplayEvents /\ Len(queue[k]) <= QueueEvents /\ Stage(k)
      /\ GapRange(k) = Span(gap[k]) /\ Pending(k) = Waiting(replay[k], held[k], queue[k])
  BY ConnIs
<1>3. PICK s \in Seqs : s = held[k] /\ s = Due(k)
  BY <1>1, <1>2 DEF Due
<1>4. s > last[k]
  <2>1. last[k] < s
    BY <1>2, <1>3, SeqsAre DEF InLine
  <2>2. s \in Int /\ last[k] \in Int
    BY <1>2, SeqsAre
  <2>3. QED
    BY <2>1, <2>2
<1>5. /\ UNCHANGED <<next, relay, asked, channel, after, floor, gap>> /\ BrowserTypes'
      /\ last' \in [Slots -> Seqs \cup {-1}] /\ last'[k] = s
      /\ rendered' \in [Slots -> SUBSET Seqs] /\ named' \in [Slots -> SUBSET Seqs]
      /\ \/ rendered'[k] = rendered[k] \cup {s} /\ named'[k] = named[k]
         \/ rendered'[k] = rendered[k] /\ named'[k] = named[k] \cup {s}
      /\ \A j \in Slots \ {k} :
            last'[j] = last[j] /\ rendered'[j] = rendered[j] /\ named'[j] = named[j]
  BY <1>1, <1>3, <1>4, EncodeIs
<1>6. SubTypes
  BY DEF HubInv
<1>7. /\ held' \in [Slots -> Seqs \cup {-1}] /\ held'[k] = -1
      /\ \A j \in Slots \ {k} : held'[j] = held[j]
  BY <1>1, <1>6, SetOne DEF SubTypes
<1>8. /\ pc' \in [Slots -> {"free", "resume", "stream", "held"}] /\ pc'[k] = "stream"
      /\ \A j \in Slots \ {k} : pc'[j] = pc[j]
  BY <1>1, <1>6, SetOne DEF SubTypes
<1>9. SubTypes'
  BY <1>1, <1>5, <1>6, <1>7, <1>8 DEF SubTypes
<1>10. /\ InLine(replay[k], -1, queue[k], gap[k], s, lastSeq)
       /\ Sent(replay[k], -1, queue[k], gap[k], s, rendered'[k], named'[k], lastSeq)
       /\ Waiting(replay[k], held[k], queue[k]) = Waiting(replay[k], -1, queue[k]) \cup {s}
  <2>1. PICK rn2, na2 : rn2 = rendered'[k] /\ na2 = named'[k]
    OBVIOUS
  <2>2. \/ rn2 = rendered[k] \cup {held[k]} /\ na2 = named[k]
        \/ rn2 = rendered[k] /\ na2 = named[k] \cup {held[k]}
    BY <1>3, <1>5, <2>1
  <2>3. /\ InLine(replay[k], -1, queue[k], gap[k], held[k], lastSeq)
        /\ Sent(replay[k], -1, queue[k], gap[k], held[k], rn2, na2, lastSeq)
        /\ Waiting(replay[k], held[k], queue[k]) = Waiting(replay[k], -1, queue[k]) \cup {held[k]}
    <3>1. PICK re, he, qu, ga, la, rn, na, top :
            /\ re = replay[k] /\ he = held[k] /\ qu = queue[k] /\ ga = gap[k]
            /\ la = last[k] /\ rn = rendered[k] /\ na = named[k] /\ top = lastSeq
      OBVIOUS
    <3>2. /\ re \in Seq(Seqs) /\ he \in Seqs /\ qu \in Seq(Seqs) /\ ga \in Gaps
          /\ la \in Seqs \cup {-1} /\ rn \in SUBSET Seqs /\ na \in SUBSET Seqs
          /\ top \in Seqs \cup {-1}
          /\ InLine(re, he, qu, ga, la, top) /\ Sent(re, he, qu, ga, la, rn, na, top)
          /\ \/ rn2 = rn \cup {he} /\ na2 = na
             \/ rn2 = rn /\ na2 = na \cup {he}
      BY <1>2, <1>3, <2>2, <3>1
    <3>3. /\ InLine(re, -1, qu, ga, he, top) /\ Sent(re, -1, qu, ga, he, rn2, na2, top)
          /\ Waiting(re, he, qu) = Waiting(re, -1, qu) \cup {he}
      BY <3>2, HeldSent
    <3>4. QED
      BY <3>1, <3>3
  <2>4. QED
    BY <1>3, <1>5, <2>1, <2>3
<1>11. Stage(k)' /\ Owed(k) = {}
  BY <1>1, <1>7, <1>8 DEF Stage, Owed
<1>12. rendered[k] \cup named[k] \cup GapRange(k) \cup Owed(k) \cup Pending(k)
         \subseteq rendered'[k] \cup named'[k] \cup Span(gap'[k])
                     \cup Waiting(replay'[k], held'[k], queue'[k])
  <2>1. rendered[k] \cup named[k] \cup {s} = rendered'[k] \cup named'[k]
    BY <1>5
  <2>2. gap'[k] = gap[k]
    BY <1>5
  <2>3. GapRange(k) = Span(gap[k]) /\ Pending(k) = Waiting(replay[k], held[k], queue[k])
    BY <1>2
  <2>4. Waiting(replay[k], held[k], queue[k])
          = Waiting(replay'[k], held'[k], queue'[k]) \cup {s}
    BY <1>1, <1>7, <1>10
  <2>5. QED
    BY <2>1, <2>2, <2>3, <2>4, <1>11
<1>13. /\ InLine(replay'[k], held'[k], queue'[k], gap'[k], last'[k], lastSeq)
       /\ Sent(replay'[k], held'[k], queue'[k], gap'[k], last'[k], rendered'[k], named'[k], lastSeq)
       /\ Len(replay'[k]) <= ReplayEvents /\ Len(queue'[k]) <= QueueEvents /\ pc[k] # "free"
  BY <1>1, <1>2, <1>5, <1>7, <1>10
<1>14. \A j \in Slots \ {k} :
          /\ pc'[j] = pc[j] /\ replay'[j] = replay[j] /\ queue'[j] = queue[j] /\ gap'[j] = gap[j]
          /\ held'[j] = held[j] /\ last'[j] = last[j]
          /\ rendered'[j] = rendered[j] /\ named'[j] = named[j]
  BY <1>1, <1>5, <1>7, <1>8
<1>15. QED
  BY <1>5, <1>9, <1>11, <1>12, <1>13, <1>14, GeneratorStep

LEMMA TakeGapKeeps == ASSUME HubInv, NEW k \in Slots, TakeGap(k) PROVE HubInv'
<1>1. /\ pc[k] = "stream" /\ replay[k] = <<>> /\ queue[k] # <<>> /\ gap[k] # <<>>
      /\ named' = [named EXCEPT ![k] = named[k] \cup Span(gap[k])]
      /\ gap' = [gap EXCEPT ![k] = <<>>] /\ held' = [held EXCEPT ![k] = Head(queue[k])]
      /\ queue' = [queue EXCEPT ![k] = Tail(queue[k])] /\ pc' = [pc EXCEPT ![k] = "held"]
      /\ UNCHANGED <<next, relay, asked, channel, after, floor, replay, last, rendered, browser>>
  BY DEF TakeGap, Span, producer, pump
<1>2. /\ replay[k] \in Seq(Seqs) /\ held[k] \in Seqs \cup {-1} /\ queue[k] \in Seq(Seqs)
      /\ gap[k] \in Gaps /\ last[k] \in Seqs \cup {-1} /\ rendered[k] \in SUBSET Seqs
      /\ named[k] \in SUBSET Seqs /\ lastSeq \in Seqs \cup {-1}
      /\ InLine(replay[k], held[k], queue[k], gap[k], last[k], lastSeq)
      /\ Sent(replay[k], held[k], queue[k], gap[k], last[k], rendered[k], named[k], lastSeq)
      /\ Len(replay[k]) <= ReplayEvents /\ Len(queue[k]) <= QueueEvents /\ Stage(k)
      /\ GapRange(k) = Span(gap[k]) /\ Pending(k) = Waiting(replay[k], held[k], queue[k])
  BY ConnIs
<1>3. held[k] = -1
  BY <1>1, <1>2 DEF Stage
<1>4. /\ Tail(queue[k]) \in Seq(Seqs) /\ Head(queue[k]) \in Seqs
      /\ Len(Tail(queue[k])) <= QueueEvents
  BY <1>1, <1>2, TailIs, HubAssumption
<1>5. named[k] \cup Span(gap[k]) \in SUBSET Seqs /\ <<>> \in Gaps
  BY <1>2, SpanIs DEF Gaps
<1>6. SubTypes /\ BrowserTypes
  BY DEF HubInv
<1>7. /\ named' \in [Slots -> SUBSET Seqs] /\ named'[k] = named[k] \cup Span(gap[k])
      /\ \A j \in Slots \ {k} : named'[j] = named[j]
  <2>1. named \in [Slots -> SUBSET Seqs]
    BY <1>6 DEF SubTypes
  <2>2. QED
    BY <1>1, <1>5, <2>1, SetOne
<1>8. gap' \in [Slots -> Gaps] /\ gap'[k] = <<>> /\ \A j \in Slots \ {k} : gap'[j] = gap[j]
  BY <1>1, <1>5, <1>6, SetOne DEF SubTypes
<1>9. /\ held' \in [Slots -> Seqs \cup {-1}] /\ held'[k] = Head(queue[k])
      /\ \A j \in Slots \ {k} : held'[j] = held[j]
  BY <1>1, <1>4, <1>6, SetOne DEF SubTypes
<1>10. /\ queue' \in [Slots -> Seq(Seqs)] /\ queue'[k] = Tail(queue[k])
       /\ \A j \in Slots \ {k} : queue'[j] = queue[j]
  BY <1>1, <1>4, <1>6, SetOne DEF SubTypes
<1>11. /\ pc' \in [Slots -> {"free", "resume", "stream", "held"}] /\ pc'[k] = "held"
       /\ \A j \in Slots \ {k} : pc'[j] = pc[j]
  BY <1>1, <1>6, SetOne DEF SubTypes
<1>12. SubTypes' /\ BrowserTypes'
  <2>1. SubTypes'
    BY <1>1, <1>6, <1>7, <1>8, <1>9, <1>10, <1>11 DEF SubTypes
  <2>2. BrowserTypes'
    BY <1>1, <1>6 DEF BrowserTypes, browser
  <2>3. QED
    BY <2>1, <2>2
<1>13. /\ InLine(replay[k], Head(queue[k]), Tail(queue[k]), <<>>, last[k], lastSeq)
       /\ Sent(replay[k], Head(queue[k]), Tail(queue[k]), <<>>, last[k], rendered[k],
               named[k] \cup Span(gap[k]), lastSeq)
       /\ Waiting(replay[k], held[k], queue[k]) = Waiting(replay[k], Head(queue[k]), Tail(queue[k]))
  BY <1>1, <1>2, <1>3, GapTold
<1>14. Stage(k)' /\ Owed(k) = {}
  BY <1>1, <1>11 DEF Stage, Owed
<1>15. rendered[k] \cup named[k] \cup GapRange(k) \cup Owed(k) \cup Pending(k)
         \subseteq rendered'[k] \cup named'[k] \cup Span(gap'[k])
                     \cup Waiting(replay'[k], held'[k], queue'[k])
  BY <1>1, <1>2, <1>7, <1>9, <1>10, <1>13, <1>14
<1>16. /\ InLine(replay'[k], held'[k], queue'[k], gap'[k], last'[k], lastSeq)
       /\ Sent(replay'[k], held'[k], queue'[k], gap'[k], last'[k], rendered'[k], named'[k], lastSeq)
       /\ Len(replay'[k]) <= ReplayEvents /\ Len(queue'[k]) <= QueueEvents /\ pc[k] # "free"
  BY <1>1, <1>2, <1>4, <1>7, <1>8, <1>9, <1>10, <1>13
<1>17. \A j \in Slots \ {k} :
          /\ pc'[j] = pc[j] /\ replay'[j] = replay[j] /\ queue'[j] = queue[j] /\ gap'[j] = gap[j]
          /\ held'[j] = held[j] /\ last'[j] = last[j]
          /\ rendered'[j] = rendered[j] /\ named'[j] = named[j]
  BY <1>1, <1>7, <1>8, <1>9, <1>10, <1>11
<1>18. QED
  BY <1>1, <1>12, <1>14, <1>15, <1>16, <1>17, GeneratorStep

LEMMA ResumeGapKeeps == ASSUME HubInv, NEW k \in Slots, SendResumeGap(k) PROVE HubInv'
<1>1. /\ pc[k] = "resume"
      /\ named' = [named EXCEPT ![k] = named[k] \cup (after[k] + 1 .. Head(replay[k]) - 1)]
      /\ pc' = [pc EXCEPT ![k] = "stream"]
      /\ UNCHANGED <<next, relay, asked, channel, after, floor, replay, queue, gap, held, last, rendered,
                     browser>>
  BY DEF SendResumeGap, producer, pump
<1>2. /\ replay[k] \in Seq(Seqs) /\ held[k] \in Seqs \cup {-1} /\ queue[k] \in Seq(Seqs)
      /\ gap[k] \in Gaps /\ last[k] \in Seqs \cup {-1} /\ after[k] \in Seqs \cup {-1}
      /\ lastSeq \in Seqs \cup {-1}
      /\ InLine(replay[k], held[k], queue[k], gap[k], last[k], lastSeq)
      /\ Len(replay[k]) <= ReplayEvents /\ Len(queue[k]) <= QueueEvents /\ Stage(k)
      /\ GapRange(k) = Span(gap[k]) /\ Pending(k) = Waiting(replay[k], held[k], queue[k])
  BY ConnIs
<1>3. replay[k] # <<>> /\ rendered[k] = {} /\ named[k] = {} /\ held[k] = -1
  BY <1>1, <1>2 DEF Stage
<1>4. PICK told : told = after[k] + 1 .. Head(replay[k]) - 1
  OBVIOUS
<1>5. told \in SUBSET Seqs /\ Sent(replay[k], held[k], queue[k], gap[k], last[k], {}, told, lastSeq)
  BY <1>2, <1>3, <1>4, ResumeTold
<1>6. SubTypes /\ BrowserTypes
  BY DEF HubInv
<1>7. /\ named' \in [Slots -> SUBSET Seqs] /\ named'[k] = told
      /\ \A j \in Slots \ {k} : named'[j] = named[j]
  <2>1. named \in [Slots -> SUBSET Seqs] /\ named' = [named EXCEPT ![k] = told]
    BY <1>1, <1>3, <1>4, <1>6 DEF SubTypes
  <2>2. QED
    BY <1>5, <2>1, SetOne
<1>8. /\ pc' \in [Slots -> {"free", "resume", "stream", "held"}] /\ pc'[k] = "stream"
      /\ \A j \in Slots \ {k} : pc'[j] = pc[j]
  BY <1>1, <1>6, SetOne DEF SubTypes
<1>9. SubTypes' /\ BrowserTypes'
  <2>1. SubTypes'
    BY <1>1, <1>6, <1>7, <1>8 DEF SubTypes
  <2>2. BrowserTypes'
    BY <1>1, <1>6 DEF BrowserTypes, browser
  <2>3. QED
    BY <2>1, <2>2
<1>10. Stage(k)' /\ Owed(k) = told
  BY <1>1, <1>3, <1>4, <1>8 DEF Stage, Owed
<1>11. rendered[k] \cup named[k] \cup GapRange(k) \cup Owed(k) \cup Pending(k)
         \subseteq rendered'[k] \cup named'[k] \cup Span(gap'[k])
                     \cup Waiting(replay'[k], held'[k], queue'[k])
  BY <1>1, <1>2, <1>3, <1>7, <1>10
<1>12. /\ InLine(replay'[k], held'[k], queue'[k], gap'[k], last'[k], lastSeq)
       /\ Sent(replay'[k], held'[k], queue'[k], gap'[k], last'[k], rendered'[k], named'[k], lastSeq)
       /\ Len(replay'[k]) <= ReplayEvents /\ Len(queue'[k]) <= QueueEvents /\ pc[k] # "free"
  BY <1>1, <1>2, <1>3, <1>5, <1>7
<1>13. \A j \in Slots \ {k} :
          /\ pc'[j] = pc[j] /\ replay'[j] = replay[j] /\ queue'[j] = queue[j] /\ gap'[j] = gap[j]
          /\ held'[j] = held[j] /\ last'[j] = last[j]
          /\ rendered'[j] = rendered[j] /\ named'[j] = named[j]
  BY <1>1, <1>7, <1>8
<1>14. QED
  BY <1>1, <1>9, <1>10, <1>11, <1>12, <1>13, GeneratorStep

LEMMA HubStep == HubInv /\ [Next]_vars => HubInv'
<1> SUFFICES ASSUME HubInv, [Next]_vars PROVE HubInv'
  OBVIOUS
<1>1. CASE Emit \/ Redeliver
  BY <1>1, ProducerKeeps
<1>2. CASE Follow \/ Unfollow \/ PumpFails
  BY <1>2, RelayKeeps
<1>3. CASE Prune \/ Restart
  BY <1>3, ForgetKeeps
<1>4. CASE Refused \/ ConnectFails \/ Drop
  BY <1>4, ClientKeeps
<1>5. ASSUME NEW k \in Slots, Open(k) \/ Reap(k) \/ Generator(k) PROVE HubInv'
  BY <1>5, OpenKeeps, ReapKeeps, ResumeGapKeeps, SendReplayKeeps, TakeKeeps, TakeGapKeeps,
     SendHeldKeeps, EndKeeps DEF Generator
<1>6. CASE UNCHANGED vars
  <2>1. UNCHANGED <<next, relay, asked, channel, sub, browser>>
    BY <1>6 DEF vars, channel, sub, browser
  <2>2. RunTypes' /\ BrowserTypes'
    BY <2>1 DEF HubInv, RunTypes, BrowserTypes, browser
  <2>3. QED
    BY <2>1, <2>2, Calm DEF HubInv
<1>7. QED
  BY <1>1, <1>2, <1>3, <1>4, <1>5, <1>6 DEF Next, Stopped
-----------------------------------------------------------------------------
(* What the invariant says of a connection.                                   *)

LEMMA JoinIs ==
    ASSUME NEW p \in Seq(Seqs), NEW q \in Seq(Seqs), Ascends(p), Ascends(q),
           \A x \in Elements(p), y \in Elements(q) : x < y
    PROVE  /\ p \o q \in Seq(Seqs) /\ Ascends(p \o q)
           /\ Elements(p \o q) = Elements(p) \cup Elements(q)
<1>1. PICK m \in Nat, n \in Nat : m = Len(p) /\ n = Len(q)
  OBVIOUS
<1>2. PICK r \in Seq(Seqs) : r = p \o q
  BY ConcatProperties
<1>3. /\ Len(r) = m + n
      /\ \A i \in 1 .. m + n : r[i] = IF i <= m THEN p[i] ELSE q[i - m]
  BY <1>1, <1>2, ConcatProperties
<1>4. \A i \in 1 .. m + n : \/ i \in 1 .. m /\ r[i] = p[i] /\ p[i] \in Elements(p)
                            \/ i > m /\ i - m \in 1 .. n /\ r[i] = q[i - m] /\ q[i - m] \in Elements(q)
  BY <1>1, <1>3 DEF Elements
<1>5. Ascends(r)
  <2>1. ASSUME NEW i \in 1 .. m + n, NEW j \in 1 .. m + n, i < j PROVE r[i] < r[j]
    <3>1. CASE i \in 1 .. m /\ j \in 1 .. m
      BY <1>1, <1>3, <2>1, <3>1 DEF Ascends
    <3>2. CASE i > m /\ i - m \in 1 .. n /\ j > m /\ j - m \in 1 .. n
      <4>1. i - m < j - m
        BY <2>1
      <4>2. q[i - m] < q[j - m]
        BY <1>1, <3>2, <4>1 DEF Ascends
      <4>3. QED
        BY <1>4, <3>2, <4>2
    <3>3. CASE i \in 1 .. m /\ j > m
      BY <1>4, <3>3
    <3>4. QED
      BY <1>4, <2>1, <3>1, <3>2, <3>3
  <2>2. QED
    BY <1>3, <2>1 DEF Ascends
<1>6. Elements(r) = Elements(p) \cup Elements(q)
  <2>1. ASSUME NEW x \in Elements(r) PROVE x \in Elements(p) \cup Elements(q)
    BY <1>3, <1>4 DEF Elements
  <2>2. ASSUME NEW i \in 1 .. m PROVE p[i] \in Elements(r)
    <3>1. i \in 1 .. m + n /\ i <= m
      OBVIOUS
    <3>2. r[i] = p[i]
      BY <1>3, <3>1
    <3>3. QED
      BY <1>3, <3>1, <3>2 DEF Elements
  <2>3. ASSUME NEW i \in 1 .. n PROVE q[i] \in Elements(r)
    <3>1. i + m \in 1 .. m + n /\ ~(i + m <= m) /\ (i + m) - m = i
      OBVIOUS
    <3>2. r[i + m] = q[i]
      BY <1>3, <3>1
    <3>3. QED
      BY <1>3, <3>1, <3>2 DEF Elements
  <2>4. QED
    BY <1>1, <2>1, <2>2, <2>3 DEF Elements
<1>7. QED
  BY <1>2, <1>5, <1>6

LEMMA LineAscends ==
    ASSUME NEW re \in Seq(Seqs), NEW he \in Seqs \cup {-1}, NEW qu \in Seq(Seqs), NEW ga, NEW la, NEW top,
           InLine(re, he, qu, ga, la, top)
    PROVE  LET rest == re \o (IF he = -1 THEN <<>> ELSE <<he>>) \o qu IN
             /\ rest \in Seq(Seqs) /\ Ascends(rest)
             /\ Elements(rest) = Waiting(re, he, qu)
<1>1. PICK mid : mid = IF he = -1 THEN <<>> ELSE <<he>>
  OBVIOUS
<1>2. mid \in Seq(Seqs) /\ Ascends(mid) /\ Elements(mid) = {he} \ {-1}
  <2>1. CASE he = -1
    BY <1>1, <2>1 DEF Ascends, Elements
  <2>2. CASE he \in Seqs
    <3>1. mid = <<he>> /\ he # -1
      BY <1>1, <2>2, SeqsAre
    <3>2. Len(mid) = 1 /\ mid[1] = he /\ mid \in Seq(Seqs)
      BY <2>2, <3>1
    <3>3. QED
      BY <3>1, <3>2 DEF Ascends, Elements
  <2>3. QED
    BY <2>1, <2>2
<1>3. /\ Ascends(re) /\ Ascends(qu)
      /\ \A x \in Elements(re) : \A y \in Elements(qu) : x < y
      /\ \A x \in Elements(re), y \in Elements(mid) : x < y
      /\ \A x \in Elements(mid), y \in Elements(qu) : x < y
  BY <1>2, ElementsAre DEF InLine
<1>4. PICK p \in Seq(Seqs) : /\ p = re \o mid /\ Ascends(p)
                             /\ Elements(p) = Elements(re) \cup Elements(mid)
  BY <1>2, <1>3, JoinIs
<1>5. p \o qu \in Seq(Seqs) /\ Ascends(p \o qu) /\ Elements(p \o qu) = Elements(p) \cup Elements(qu)
  BY <1>3, <1>4, JoinIs
<1>6. QED
  BY <1>1, <1>2, <1>4, <1>5 DEF Waiting

LEMMA Line ==
    ASSUME HubInv, NEW k \in Slots
    PROVE  LET rest == replay[k] \o (IF held[k] = -1 THEN <<>> ELSE <<held[k]>>) \o queue[k] IN
             /\ \A i, j \in 1 .. Len(rest) : i < j => rest[i] < rest[j]
             /\ \A i \in 1 .. Len(rest) : rest[i] > last[k]
<1>1. PICK rest : rest = replay[k] \o (IF held[k] = -1 THEN <<>> ELSE <<held[k]>>) \o queue[k]
  OBVIOUS
<1>2. /\ rest \in Seq(Seqs) /\ Ascends(rest)
      /\ Elements(rest) = Waiting(replay[k], held[k], queue[k])
  BY <1>1, ConnIs, LineAscends
<1>3. \A x \in Waiting(replay[k], held[k], queue[k]) : last[k] < x
  BY ConnIs DEF InLine, Waiting
<1>4. ASSUME NEW i \in 1 .. Len(rest) PROVE rest[i] > last[k]
  <2>1. rest[i] \in Elements(rest) /\ rest[i] \in Seqs
    BY <1>2 DEF Elements
  <2>2. last[k] \in Int /\ rest[i] \in Int
    BY <2>1, ConnIs, SeqsAre
  <2>3. last[k] < rest[i]
    BY <1>2, <1>3, <2>1
  <2>4. QED
    BY <2>2, <2>3
<1>5. QED
  BY <1>1, <1>2, <1>4 DEF Ascends

LEMMA InvIsOrderKept == HubInv => OrderKept
<1> SUFFICES ASSUME HubInv, NEW k \in Subscribers
             PROVE  LET rest == replay[k] \o (IF held[k] = -1 THEN <<>> ELSE <<held[k]>>) \o queue[k] IN
                      /\ \A i, j \in 1 .. Len(rest) : i < j => rest[i] < rest[j]
                      /\ \A i \in 1 .. Len(rest) : rest[i] > last[k]
                      /\ \A g \in GapRange(k), s \in Elements(queue[k]) : g < s
                      /\ \A g \in GapRange(k), s \in Elements(replay[k]) : g > s
  BY DEF OrderKept
<1>1. k \in Slots
  BY DEF Subscribers
<1>2. ASSUME NEW g \in GapRange(k) PROVE \A s \in Elements(queue[k]) : g < s
  BY <1>1, <1>2, ConnIs DEF InLine
<1>3. ASSUME NEW g \in GapRange(k), NEW s \in Elements(replay[k]) PROVE g > s
  <2>1. s < g
    BY <1>1, <1>3, ConnIs DEF InLine
  <2>2. s \in Seqs /\ g \in Seqs
    BY <1>1, <1>3, ConnIs, ElementsAre, SpanIs
  <2>3. QED
    BY <2>1, <2>2, SeqsAre
<1>4. QED
  BY <1>1, <1>2, <1>3, Line

LEMMA InvIsGapsAreGaps == HubInv => GapsAreGaps
<1> SUFFICES ASSUME HubInv, NEW k \in Subscribers
             PROVE  /\ named[k] \cap (rendered[k] \cup (Pending(k) \ Unencodable)) = {}
                    /\ GapRange(k) \cap (rendered[k] \cup Pending(k)) = {}
  BY DEF GapsAreGaps
<1>1. k \in Slots
  BY DEF Subscribers
<1>2. PICK wait, told : wait = Waiting(replay[k], held[k], queue[k]) /\ told = Span(gap[k])
  OBVIOUS
<1>3. /\ Pending(k) = wait /\ GapRange(k) = told
      /\ \A n \in named[k] : \A p \in wait : n < p
      /\ \A r \in rendered[k] : r <= last[k]
      /\ named[k] \cap rendered[k] = {}
  BY <1>1, <1>2, ConnIs DEF Sent
<1>4. \A g \in told : last[k] < g
  BY <1>1, <1>2, ConnIs DEF InLine
<1>5. /\ named[k] \subseteq Int /\ rendered[k] \subseteq Int /\ last[k] \in Int
      /\ told \subseteq Int
  <2>1. /\ named[k] \in SUBSET Seqs /\ rendered[k] \in SUBSET Seqs /\ last[k] \in Seqs \cup {-1}
        /\ gap[k] \in Gaps
    BY <1>1, ConnIs
  <2>2. told \subseteq Seqs
    BY <1>2, <2>1, SpanIs
  <2>3. QED
    BY <2>1, <2>2, SeqsAre
<1>6. named[k] \cap wait = {}
  BY <1>3, <1>5
<1>7. told \cap rendered[k] = {}
  BY <1>3, <1>4, <1>5
<1>8. told \cap wait = {}
  <2>1. ASSUME NEW x \in wait, x \in told PROVE FALSE
    <3>1. x \in Int
      BY <1>5, <2>1
    <3>2. CASE x \in Elements(replay[k])
      <4>1. x < x
        BY <1>1, <1>2, <2>1, <3>2, ConnIs DEF InLine
      <4>2. QED
        BY <3>1, <4>1
    <3>3. CASE x \in Elements(queue[k])
      <4>1. x < x
        BY <1>1, <1>2, <2>1, <3>3, ConnIs DEF InLine
      <4>2. QED
        BY <3>1, <4>1
    <3>4. CASE x = held[k] /\ held[k] # -1
      <4>1. x < x
        BY <1>1, <1>2, <2>1, <3>4, ConnIs DEF InLine
      <4>2. QED
        BY <3>1, <4>1
    <3>5. QED
      BY <1>2, <2>1, <3>2, <3>3, <3>4 DEF Waiting
  <2>2. QED
    BY <2>1
<1>9. QED
  BY <1>3, <1>6, <1>7, <1>8

LEMMA InvIsTypeOK == HubInv => TypeOK
<1> SUFFICES ASSUME HubInv PROVE TypeOK
  OBVIOUS
<1>1. ChannelTypes /\ RunTypes /\ SubTypes /\ BrowserTypes
  BY DEF HubInv
<1>2. history \in UNION {[1 .. n -> Seqs] : n \in 0 .. ReplayEvents}
  <2>1. PICK n \in 0 .. ReplayEvents : n = Len(history)
    BY <1>1, HubAssumption DEF ChannelTypes
  <2>2. history \in [1 .. n -> Seqs]
    BY <1>1, <2>1 DEF ChannelTypes
  <2>3. QED
    BY <2>2
<1>3. ASSUME NEW k \in Slots
      PROVE  /\ Len(replay[k]) <= ReplayEvents /\ Len(queue[k]) <= QueueEvents
             /\ gap[k] = <<>> \/ gap[k] \in Seqs \X Seqs
  BY ConnIs DEF Gaps
<1>4. QED
  BY <1>1, <1>2, <1>3 DEF TypeOK, ChannelTypes, RunTypes, SubTypes, BrowserTypes

LEMMA HubAlways == Spec => []HubInv
BY HubStarts, HubStep, PTL DEF Spec

\* The ring and the mailboxes never outgrow their bounds, and every variable of
\* the hub, the relay, the generators and the client keeps its type: offer and
\* the deque of _Channel evict whenever they are full.
THEOREM HubTypesHold == Spec => []TypeOK
BY HubAlways, InvIsTypeOK, PTL

\* Whatever the sizes of the ring and of the mailboxes, however often a
\* connection is lost, resumed or left half open and the channel is pruned or
\* restarted: every event publish accepted above the point a connection starts
\* from was sent to it, was named in a stream.gap frame, or is still to be.
THEOREM NothingSilentlyDroppedHolds == Spec => []NothingSilentlyDropped
<1>1. HubInv => NothingSilentlyDropped
  BY DEF HubInv, ConnInv, Covered, NothingSilentlyDropped, Subscribers
<1>2. QED
  BY <1>1, HubAlways, PTL

\* No stream.gap frame, told by take_gap, _resume_gap or _render, names an
\* event the connection was sent or will be sent.
THEOREM GapsAreGapsHold == Spec => []GapsAreGaps
BY HubAlways, InvIsGapsAreGaps, PTL

\* A connection's snapshot, event in hand and mailbox ascend, all of them after
\* what was sent, and an untold gap lies between the snapshot and the mailbox:
\* _timeline_frames sends the events of a run in the order it emitted them.
THEOREM OrderKeptHolds == Spec => []OrderKept
BY HubAlways, InvIsOrderKept, PTL
-----------------------------------------------------------------------------
(* The hub implements Feed.  What waits in a snapshot, in hand or in a mailbox *)
(* was accepted (RealInv); the event that is due comes before all that waits   *)
(* and after all that was sent, so by Covered nothing between is unknown.      *)

RealInv ==
  /\ Elements(history) \subseteq accepted
  /\ \A k \in Slots : /\ Waiting(replay[k], held[k], queue[k]) \subseteq accepted
                      /\ pc[k] = "resume" => floor[k] = after[k]

LEMMA PushedIs ==
    ASSUME NEW q \in Seq(Seqs), NEW s \in Seqs, NEW n \in Nat \ {0}
    PROVE  Elements(IF Len(q) < n THEN Append(q, s) ELSE Append(Tail(q), s)) \subseteq Elements(q) \cup {s}
<1>1. CASE Len(q) < n
  BY <1>1, AppendIs
<1>2. CASE ~(Len(q) < n)
  <2>1. q # <<>>
    BY <1>2
  <2>2. Tail(q) \in Seq(Seqs) /\ Elements(Tail(q)) \subseteq Elements(q)
    BY <2>1, TailIs
  <2>3. Elements(Append(Tail(q), s)) = Elements(Tail(q)) \cup {s}
    BY <2>2, AppendIs
  <2>4. QED
    BY <1>2, <2>2, <2>3
<1>3. QED
  BY <1>1, <1>2

LEMMA RealAside ==
    ASSUME RealInv, NEW k \in Slots, accepted \subseteq accepted',
           pc'[k] = pc[k], after'[k] = after[k], floor'[k] = floor[k],
           Waiting(replay'[k], held'[k], queue'[k]) \subseteq Waiting(replay[k], held[k], queue[k]) \cup accepted'
    PROVE  /\ Waiting(replay'[k], held'[k], queue'[k]) \subseteq accepted'
           /\ pc'[k] = "resume" => floor'[k] = after'[k]
BY DEF RealInv

LEMMA RealArrives == ASSUME HubInv, RealInv, NEW s \in Seqs, Arrive(s) PROVE RealInv'
<1>1. UNCHANGED <<pc, after, floor, replay, held>>
  BY DEF Arrive
<1>2. CASE UNCHANGED <<history, lastSeq, accepted, queue, gap>>
  BY <1>1, <1>2 DEF RealInv, Elements, Waiting
<1>3. CASE Accept(s) /\ Fresh(s)
  <2>1. /\ history' = Ring(history, s) /\ accepted' = accepted \cup {s}
        /\ queue' = [k \in Slots |-> IF k \in Subscribers THEN Offered(k, s) ELSE queue[k]]
    BY <1>3 DEF Accept
  <2>2. history \in Seq(Seqs) /\ ReplayEvents \in Nat \ {0} /\ QueueEvents \in Nat \ {0}
    BY HubAssumption DEF HubInv, ChannelTypes
  <2>3. Elements(history') \subseteq Elements(history) \cup {s}
    BY <2>1, <2>2, PushedIs DEF Ring
  <2>4. ASSUME NEW k \in Slots
        PROVE  Elements(queue'[k]) \subseteq Elements(queue[k]) \cup {s}
    <3>1. queue[k] \in Seq(Seqs)
      BY ConnIs
    <3>2. Elements(Offered(k, s)) \subseteq Elements(queue[k]) \cup {s}
      BY <2>2, <3>1, PushedIs DEF Offered
    <3>3. QED
      BY <2>1, <3>2
  <2>5. ASSUME NEW k \in Slots
        PROVE  Waiting(replay'[k], held'[k], queue'[k])
                 \subseteq Waiting(replay[k], held[k], queue[k]) \cup accepted'
    BY <1>1, <2>1, <2>4 DEF Waiting
  <2>6. ASSUME NEW k \in Slots
        PROVE  /\ Waiting(replay'[k], held'[k], queue'[k]) \subseteq accepted'
               /\ pc'[k] = "resume" => floor'[k] = after'[k]
    <3>1. accepted \subseteq accepted' /\ pc'[k] = pc[k] /\ after'[k] = after[k] /\ floor'[k] = floor[k]
      BY <1>1, <2>1
    <3>2. QED
      BY <2>5, <3>1, RealAside
  <2>7. Elements(history') \subseteq accepted'
    BY <2>1, <2>3 DEF RealInv
  <2>8. QED
    BY <2>6, <2>7 DEF RealInv, Elements, Waiting
<1>4. QED
  BY <1>2, <1>3 DEF Arrive, Accept

\* The generators take what waits, and nothing else.
LEMMA RealMoves ==
    ASSUME HubInv, RealInv, NEW k \in Slots, UNCHANGED <<channel, after, floor>>, pc'[k] \in {pc[k], "stream", "held"},
           Waiting(replay'[k], held'[k], queue'[k]) \subseteq Waiting(replay[k], held[k], queue[k]),
           \A j \in Slots \ {k} :
              pc'[j] = pc[j] /\ replay'[j] = replay[j] /\ queue'[j] = queue[j] /\ held'[j] = held[j]
    PROVE  RealInv'
<1>1. UNCHANGED <<history, accepted>>
  BY DEF channel
<1>2. /\ Waiting(replay'[k], held'[k], queue'[k]) \subseteq accepted'
      /\ pc'[k] = "resume" => floor'[k] = after'[k]
  BY <1>1 DEF RealInv
<1>3. ASSUME NEW j \in Slots \ {k}
      PROVE  /\ Waiting(replay'[j], held'[j], queue'[j]) \subseteq accepted'
             /\ pc'[j] = "resume" => floor'[j] = after'[j]
  BY <1>1 DEF RealInv
<1>4. Elements(history') \subseteq accepted'
  BY <1>1 DEF RealInv
<1>5. QED
  BY <1>2, <1>3, <1>4 DEF RealInv, Elements, Waiting

LEMMA RealOpens == ASSUME HubInv, RealInv, NEW k \in Slots, Open(k) PROVE RealInv'
<1>1. /\ pc[k] = "free"
      /\ after' = [after EXCEPT ![k] = clientSeq]
      /\ floor' = [floor EXCEPT ![k] =
                      IF clientSeq = -1 /\ history # <<>> THEN Head(history) - 1 ELSE clientSeq]
      /\ replay' = [replay EXCEPT ![k] = Above(history, clientSeq)]
      /\ pc' = [pc EXCEPT ![k] = IF clientSeq # -1 /\ Evicted THEN "resume" ELSE "stream"]
      /\ UNCHANGED <<channel, queue, held>>
  BY DEF Open, Snapshot
<1>2. UNCHANGED <<history, accepted>>
  BY <1>1 DEF channel
<1>3. /\ pc \in [Slots -> {"free", "resume", "stream", "held"}]
      /\ after \in [Slots -> Seqs \cup {-1}] /\ floor \in [Slots -> Seqs \cup {-1}]
      /\ replay \in [Slots -> Seq(Seqs)]
  BY DEF HubInv, SubTypes
<1>4. Elements(Above(history, clientSeq)) \subseteq accepted
  <2>1. history \in Seq(Seqs) /\ Ascends(history) /\ clientSeq \in Seqs \cup {-1}
    BY DEF HubInv, ChannelTypes, RingInv, BrowserTypes
  <2>2. Elements(Above(history, clientSeq)) \subseteq Elements(history)
    BY <2>1, AboveIs
  <2>3. QED
    BY <2>2 DEF RealInv
<1>5. Waiting(replay'[k], held'[k], queue'[k]) \subseteq accepted'
  <2>1. replay'[k] = Above(history, clientSeq) /\ held'[k] = -1 /\ queue'[k] = <<>>
    BY <1>1, <1>3, ConnIs DEF Stage
  <2>2. Elements(<<>>) = {}
    BY DEF Elements
  <2>3. QED
    BY <1>2, <1>4, <2>1, <2>2 DEF Waiting
<1>6. pc'[k] = "resume" => floor'[k] = after'[k]
  BY <1>1, <1>3
<1>7. ASSUME NEW j \in Slots \ {k}
      PROVE  /\ Waiting(replay'[j], held'[j], queue'[j]) \subseteq accepted'
             /\ pc'[j] = "resume" => floor'[j] = after'[j]
  <2>1. /\ pc'[j] = pc[j] /\ after'[j] = after[j] /\ floor'[j] = floor[j] /\ replay'[j] = replay[j]
        /\ queue'[j] = queue[j] /\ held'[j] = held[j]
    BY <1>1, <1>3
  <2>2. QED
    BY <1>2, <2>1 DEF RealInv
<1>8. Elements(history') \subseteq accepted'
  BY <1>2 DEF RealInv
<1>9. QED
  BY <1>5, <1>6, <1>7, <1>8 DEF RealInv, Elements, Waiting

LEMMA NothingWaits == Waiting(<<>>, -1, <<>>) = {}
BY DEF Waiting, Elements

LEMMA RealCloses ==
    ASSUME HubInv, RealInv, NEW ks \in SUBSET Slots, Closed(ks), Elements(history') \subseteq accepted',
           \A k \in Slots \ ks : accepted \subseteq accepted'
    PROVE  RealInv'
<1>1. SubTypes
  BY DEF HubInv
<1>2. ASSUME NEW k \in Slots
      PROVE  /\ Waiting(replay'[k], held'[k], queue'[k]) \subseteq accepted'
             /\ pc'[k] = "resume" => floor'[k] = after'[k]
  <2>1. CASE k \in ks
    <3>1. pc'[k] = "free" /\ replay'[k] = <<>> /\ queue'[k] = <<>> /\ held'[k] = -1
      BY <1>1, <2>1, ClosedIs
    <3>2. QED
      BY <3>1, NothingWaits
  <2>2. CASE k \in Slots \ ks
    <3>1. /\ pc'[k] = pc[k] /\ after'[k] = after[k] /\ floor'[k] = floor[k]
          /\ replay'[k] = replay[k] /\ queue'[k] = queue[k] /\ held'[k] = held[k]
      BY <1>1, <2>2, ClosedIs
    <3>2. QED
      BY <2>2, <3>1 DEF RealInv
  <2>3. QED
    BY <2>1, <2>2
<1>3. QED
  BY <1>2 DEF RealInv, Elements, Waiting

\* Between two subscribers the hub may be forgotten.
LEMMA RealForgets == ASSUME HubInv, RealInv, Prune \/ Restart PROVE RealInv'
<1>1. history' = <<>> /\ Elements(<<>>) = {}
  BY DEF Prune, Restart, EmptyChannel, Elements
<1>2. CASE Restart
  <2>1. Closed(Slots) /\ Elements(history') \subseteq accepted'
    BY <1>1, <1>2 DEF Restart
  <2>2. QED
    BY <2>1, RealCloses
<1>3. CASE Prune
  <2>1. Subscribers = {} /\ UNCHANGED <<pc, after, floor, replay, queue, held>>
    BY <1>3 DEF Prune, sub
  <2>2. ASSUME NEW k \in Slots
        PROVE  /\ Waiting(replay'[k], held'[k], queue'[k]) \subseteq accepted'
               /\ pc'[k] = "resume" => floor'[k] = after'[k]
    <3>1. pc[k] = "free"
      BY <2>1 DEF Subscribers
    <3>2. replay'[k] = <<>> /\ held'[k] = -1 /\ queue'[k] = <<>> /\ pc'[k] = "free"
      BY <2>1, <3>1, ConnIs DEF Stage
    <3>3. QED
      BY <3>2, NothingWaits
  <2>3. QED
    BY <1>1, <2>2 DEF RealInv, Elements, Waiting
<1>4. QED
  BY <1>2, <1>3

LEMMA RealGenerates == ASSUME HubInv, RealInv, NEW k \in Slots, Generator(k) PROVE RealInv'
<1>1. /\ replay \in [Slots -> Seq(Seqs)] /\ queue \in [Slots -> Seq(Seqs)]
      /\ pc \in [Slots -> {"free", "resume", "stream", "held"}] /\ held \in [Slots -> Seqs \cup {-1}]
      /\ replay[k] \in Seq(Seqs) /\ queue[k] \in Seq(Seqs)
  BY DEF HubInv, SubTypes
<1>2. /\ replay[k] # <<>> => Elements(Tail(replay[k])) \subseteq Elements(replay[k])
      /\ queue[k] # <<>> => /\ Elements(Tail(queue[k])) \subseteq Elements(queue[k])
                            /\ Head(queue[k]) \in Elements(queue[k])
  BY <1>1, TailIs
<1>3. CASE SendResumeGap(k)
  <2>1. pc' = [pc EXCEPT ![k] = "stream"] /\ UNCHANGED <<channel, after, floor, replay, queue, held>>
    BY <1>3 DEF SendResumeGap
  <2>2. /\ pc'[k] \in {pc[k], "stream", "held"}
        /\ \A j \in Slots \ {k} :
             pc'[j] = pc[j] /\ replay'[j] = replay[j] /\ queue'[j] = queue[j] /\ held'[j] = held[j]
    BY <1>1, <2>1
  <2>3. Waiting(replay'[k], held'[k], queue'[k]) \subseteq Waiting(replay[k], held[k], queue[k])
    BY <2>1
  <2>4. QED
    BY <2>1, <2>2, <2>3, RealMoves
<1>4. CASE SendReplay(k)
  <2>1. /\ replay[k] # <<>> /\ replay' = [replay EXCEPT ![k] = Tail(replay[k])]
        /\ UNCHANGED <<channel, after, floor, pc, queue, held>>
    BY <1>4 DEF SendReplay, Encode
  <2>2. /\ pc'[k] \in {pc[k], "stream", "held"}
        /\ \A j \in Slots \ {k} :
             pc'[j] = pc[j] /\ replay'[j] = replay[j] /\ queue'[j] = queue[j] /\ held'[j] = held[j]
    BY <1>1, <2>1
  <2>3. Waiting(replay'[k], held'[k], queue'[k]) \subseteq Waiting(replay[k], held[k], queue[k])
    BY <1>1, <1>2, <2>1 DEF Waiting
  <2>4. QED
    BY <2>1, <2>2, <2>3, RealMoves
<1>5. CASE Take(k)
  <2>1. /\ queue[k] # <<>> /\ queue' = [queue EXCEPT ![k] = Tail(queue[k])]
        /\ UNCHANGED <<channel, after, floor, pc, replay, held>>
    BY <1>5 DEF Take, Encode
  <2>2. /\ pc'[k] \in {pc[k], "stream", "held"}
        /\ \A j \in Slots \ {k} :
             pc'[j] = pc[j] /\ replay'[j] = replay[j] /\ queue'[j] = queue[j] /\ held'[j] = held[j]
    BY <1>1, <2>1
  <2>3. Waiting(replay'[k], held'[k], queue'[k]) \subseteq Waiting(replay[k], held[k], queue[k])
    BY <1>1, <1>2, <2>1 DEF Waiting
  <2>4. QED
    BY <2>1, <2>2, <2>3, RealMoves
<1>6. CASE TakeGap(k)
  <2>1. /\ queue[k] # <<>> /\ queue' = [queue EXCEPT ![k] = Tail(queue[k])]
        /\ held' = [held EXCEPT ![k] = Head(queue[k])] /\ pc' = [pc EXCEPT ![k] = "held"]
        /\ UNCHANGED <<channel, after, floor, replay>>
    BY <1>6 DEF TakeGap
  <2>2. /\ pc'[k] \in {pc[k], "stream", "held"}
        /\ \A j \in Slots \ {k} :
             pc'[j] = pc[j] /\ replay'[j] = replay[j] /\ queue'[j] = queue[j] /\ held'[j] = held[j]
    BY <1>1, <2>1
  <2>3. Waiting(replay'[k], held'[k], queue'[k]) \subseteq Waiting(replay[k], held[k], queue[k])
    BY <1>1, <1>2, <2>1 DEF Waiting
  <2>4. QED
    BY <2>1, <2>2, <2>3, RealMoves
<1>7. CASE SendHeld(k)
  <2>1. /\ held' = [held EXCEPT ![k] = -1] /\ pc' = [pc EXCEPT ![k] = "stream"]
        /\ UNCHANGED <<channel, after, floor, replay, queue>>
    BY <1>7 DEF SendHeld, Encode
  <2>2. /\ pc'[k] \in {pc[k], "stream", "held"}
        /\ \A j \in Slots \ {k} :
             pc'[j] = pc[j] /\ replay'[j] = replay[j] /\ queue'[j] = queue[j] /\ held'[j] = held[j]
    BY <1>1, <2>1
  <2>3. Waiting(replay'[k], held'[k], queue'[k]) \subseteq Waiting(replay[k], held[k], queue[k])
    BY <1>1, <2>1 DEF Waiting
  <2>4. QED
    BY <2>1, <2>2, <2>3, RealMoves
<1>8. CASE End(k)
  <2>1. Closed({k}) /\ UNCHANGED <<history, accepted>>
    BY <1>8 DEF End, channel
  <2>2. Elements(history') \subseteq accepted' /\ {k} \in SUBSET Slots
    BY <2>1 DEF RealInv
  <2>3. QED
    BY <2>1, <2>2, RealCloses
<1>9. QED
  BY <1>3, <1>4, <1>5, <1>6, <1>7, <1>8 DEF Generator

LEMMA RealStep == HubInv /\ RealInv /\ [Next]_vars => RealInv'
<1> SUFFICES ASSUME HubInv, RealInv, [Next]_vars PROVE RealInv'
  OBVIOUS
<1>1. CASE Emit \/ Redeliver
  <2>1. \E s \in Seqs : Arrive(s)
    <3>1. CASE Emit
      <4>1. next \in Seqs
        BY <3>1, HubAssumption DEF Emit, HubInv, RunTypes, Seqs
      <4>2. QED
        BY <3>1, <4>1 DEF Emit
    <3>2. CASE Redeliver
      BY <3>2 DEF Redeliver
    <3>3. QED
      BY <1>1, <3>1, <3>2
  <2>2. QED
    BY <2>1, RealArrives
<1>2. CASE UNCHANGED <<history, accepted, pc, after, floor, replay, queue, held>>
  BY <1>2 DEF RealInv, Elements, Waiting
<1>3. CASE Follow \/ Unfollow \/ PumpFails \/ Refused \/ ConnectFails \/ Drop \/ UNCHANGED vars
  <2>1. UNCHANGED <<history, accepted, pc, after, floor, replay, queue, held>>
    BY <1>3 DEF Follow, Unfollow, PumpFails, Refused, ConnectFails, Drop, channel, sub, vars
  <2>2. QED
    BY <1>2, <2>1
<1>4. CASE Prune \/ Restart
  BY <1>4, RealForgets
<1>5. ASSUME NEW k \in Slots, Open(k) \/ Reap(k) \/ Generator(k) PROVE RealInv'
  <2>1. CASE Reap(k)
    <3>1. Closed({k}) /\ UNCHANGED <<history, accepted>>
      BY <2>1 DEF Reap, channel
    <3>2. Elements(history') \subseteq accepted' /\ {k} \in SUBSET Slots
      BY <3>1 DEF RealInv
    <3>3. QED
      BY <3>1, <3>2, RealCloses
  <2>2. QED
    BY <1>5, <2>1, RealOpens, RealGenerates
<1>6. QED
  BY <1>1, <1>3, <1>4, <1>5 DEF Next, Stopped

LEMMA RealAlways == Spec => [](HubInv /\ RealInv)
<1>1. Init => RealInv
  <2>1. ASSUME Init PROVE RealInv
    <3>1. history = <<>> /\ Elements(<<>>) = {}
      BY <2>1 DEF Init, Elements
    <3>2. \A k \in Slots : replay[k] = <<>> /\ held[k] = -1 /\ queue[k] = <<>> /\ pc[k] = "free"
      BY <2>1 DEF Init
    <3>3. QED
      BY <3>1, <3>2, NothingWaits DEF RealInv
  <2>2. QED
    BY <2>1
<1>2. QED
  BY <1>1, HubStarts, HubStep, RealStep, PTL DEF Spec

-----------------------------------------------------------------------------
(* The steps of the hub as steps of Feed.                                     *)

LEMMA ReaderIs ==
    ASSUME NEW r, NEW st, NEW sh, NEW to, r = F!Reading(st, sh, to)
    PROVE  /\ r.open /\ r.start = st /\ r.shown = sh /\ r.told = to
           /\ \A s : s # Last => F!Having(r, s) = F!Reading(st, sh \cup {s}, to)
           /\ \A s : s = Last => F!Having(r, s) = F!Absent
           /\ \A f, g : F!Told(r, f, g) = F!Reading(st, sh, to \cup (f .. g))
<1>1. r = [open |-> TRUE, start |-> st, shown |-> sh, told |-> to]
  BY DEF F!Reading
<1>2. r.open
  BY <1>1
<1>3. r.start = st /\ r.shown = sh /\ r.told = to
  BY <1>1
<1>4. ASSUME NEW s, s # Last PROVE F!Having(r, s) = F!Reading(st, sh \cup {s}, to)
  BY <1>3, <1>4 DEF F!Having
<1>5. ASSUME NEW f, NEW g PROVE F!Told(r, f, g) = F!Reading(st, sh, to \cup (f .. g))
  BY <1>3 DEF F!Told
<1>6. \A s : s = Last => F!Having(r, s) = F!Absent
  BY DEF F!Having
<1>7. QED
  BY <1>2, <1>3, <1>4, <1>5, <1>6

LEMMA ReadingIs ==
  /\ \A k \in Slots : reading[k] = ReaderOf(k)
  /\ \A k \in Slots : pc[k] # "free" =>
        reading[k] = F!Reading(floor[k], rendered[k], named[k])
  /\ F!Events = Seqs
BY DEF reading, ReaderOf, F!Reading, F!Events, Seqs

\* A step of the one connection k.
LEMMA ReadingMoves ==
    ASSUME NEW k \in Slots, NEW r, ReaderOf(k)' = r,
           \A j \in Slots \ {k} :
              pc'[j] = pc[j] /\ floor'[j] = floor[j] /\ rendered'[j] = rendered[j] /\ named'[j] = named[j]
    PROVE  reading' = [reading EXCEPT ![k] = r]
<1>1. ASSUME NEW j \in Slots \ {k} PROVE ReaderOf(j)' = ReaderOf(j)
  BY DEF ReaderOf
<1>2. QED
  BY <1>1 DEF reading

LEMMA ReadingStays ==
    ASSUME \A j \in Slots : /\ (pc'[j] = "free") = (pc[j] = "free") /\ floor'[j] = floor[j]
                            /\ rendered'[j] = rendered[j] /\ named'[j] = named[j]
    PROVE  reading' = reading
<1>1. ASSUME NEW j \in Slots PROVE ReaderOf(j)' = ReaderOf(j)
  BY DEF ReaderOf
<1>2. QED
  BY <1>1 DEF reading

LEMMA FreeIsAbsent ==
  /\ \A k \in Slots : pc[k] = "free" /\ rendered[k] = {} /\ named[k] = {} => ReaderOf(k) = F!Absent
  /\ \A k \in Slots : pc'[k] = "free" /\ rendered'[k] = {} /\ named'[k] = {} => ReaderOf(k)' = F!Absent
BY DEF ReaderOf, F!Absent

\* What comes before all that waits follows on what was sent: the rest is known.
LEMMA InFront ==
    ASSUME HubInv, NEW k \in Slots, NEW s \in Seqs, pc[k] # "free", Owed(k) = {}, last[k] < s,
           \A n \in named[k] : n < s,
           \A p \in Waiting(replay[k], held[k], queue[k]) \cup Span(gap[k]) : s <= p
    PROVE  F!Follows(s, reading[k])
<1>1. /\ rendered[k] \in SUBSET Seqs /\ last[k] \in Seqs \cup {-1} /\ accepted \subseteq Seqs
      /\ replay[k] \in Seq(Seqs) /\ queue[k] \in Seq(Seqs) /\ held[k] \in Seqs \cup {-1} /\ gap[k] \in Gaps
      /\ GapRange(k) = Span(gap[k]) /\ Pending(k) = Waiting(replay[k], held[k], queue[k])
  BY ConnIs DEF HubInv, ChannelTypes
<1>2. s \in Int /\ last[k] \in Int /\ rendered[k] \subseteq Int /\ accepted \subseteq Int
  BY <1>1, SeqsAre
<1>3. ASSUME NEW x \in rendered[k] PROVE x < s
  <2>1. x <= last[k] /\ x \in Int
    BY <1>2, ConnIs DEF Sent
  <2>2. QED
    BY <1>2, <2>1
<1>4. ASSUME NEW a \in accepted, floor[k] < a, a < s PROVE a \in rendered[k] \cup named[k]
  <2>1. a \in rendered[k] \cup named[k] \cup GapRange(k) \cup Owed(k) \cup Pending(k)
    <3>1. floor[k] \in Int /\ a \in Int
      BY <1>2, SeqsAre DEF HubInv, SubTypes
    <3>2. a > floor[k]
      BY <1>4, <3>1
    <3>3. QED
      BY <3>2 DEF HubInv, ConnInv, Covered
  <2>2. ASSUME a \in Span(gap[k]) \cup Waiting(replay[k], held[k], queue[k]) PROVE FALSE
    <3>1. s <= a /\ a \in Int
      BY <1>2, <2>2
    <3>2. QED
      BY <1>2, <1>4, <3>1
  <2>3. QED
    BY <1>1, <2>1, <2>2
<1>5. reading[k].shown = rendered[k] /\ reading[k].told = named[k] /\ reading[k].start = floor[k]
  <2>1. reading[k] = F!Reading(floor[k], rendered[k], named[k])
    BY ReadingIs
  <2>2. QED
    BY <2>1, ReaderIs
<1>6. QED
  BY <1>3, <1>4, <1>5 DEF F!Follows

\* The event that is due is the first of the line.
LEMMA DueIsFirst ==
    ASSUME HubInv, NEW k \in Slots, Due(k) # -1
    PROVE  /\ pc[k] # "free" /\ Due(k) \in Seqs /\ Owed(k) = {} /\ last[k] < Due(k)
           /\ Due(k) \in Waiting(replay[k], held[k], queue[k])
           /\ F!Follows(Due(k), reading[k])
<1>1. PICK s : s = Due(k)
  OBVIOUS
<1>2. /\ replay[k] \in Seq(Seqs) /\ held[k] \in Seqs \cup {-1} /\ queue[k] \in Seq(Seqs)
      /\ gap[k] \in Gaps /\ last[k] \in Seqs \cup {-1}
      /\ InLine(replay[k], held[k], queue[k], gap[k], last[k], lastSeq)
      /\ Sent(replay[k], held[k], queue[k], gap[k], last[k], rendered[k], named[k], lastSeq)
      /\ Stage(k)
  BY ConnIs
<1>3. Elements(<<>>) = {} /\ Span(<<>>) = {}
  BY DEF Elements, Span
<1>4. /\ pc[k] \in {"stream", "held"} /\ s \in Seqs /\ last[k] < s
      /\ s \in Waiting(replay[k], held[k], queue[k])
      /\ \A p \in Waiting(replay[k], held[k], queue[k]) \cup Span(gap[k]) : p = s \/ s < p
  <2>1. CASE pc[k] = "held"
    <3>1. s = held[k] /\ s # -1 /\ s \in Seqs
      BY <1>1, <1>2, <2>1 DEF Due
    <3>2. /\ replay[k] = <<>> /\ last[k] < s
          /\ \A y \in Elements(queue[k]) \cup Span(gap[k]) : s < y
      BY <1>2, <3>1 DEF InLine
    <3>3. QED
      BY <1>3, <2>1, <3>1, <3>2 DEF Waiting
  <2>2. CASE pc[k] = "stream" /\ replay[k] # <<>>
    <3>1. s = Head(replay[k]) /\ held[k] = -1
      BY <1>1, <1>2, <2>2 DEF Due, Stage
    <3>2. /\ s \in Seqs /\ s \in Elements(replay[k])
          /\ \A x \in Elements(replay[k]) : x = s \/ s < x
      BY <1>2, <2>2, <3>1, TailIs DEF InLine
    <3>3. last[k] < s /\ \A y \in Elements(queue[k]) \cup Span(gap[k]) : s < y
      BY <1>2, <3>2 DEF InLine
    <3>4. QED
      BY <2>2, <3>1, <3>2, <3>3 DEF Waiting
  <2>3. CASE pc[k] = "stream" /\ replay[k] = <<>> /\ queue[k] # <<>> /\ gap[k] = <<>>
    <3>1. s = Head(queue[k]) /\ held[k] = -1
      BY <1>1, <1>2, <2>3 DEF Due, Stage
    <3>2. /\ s \in Seqs /\ s \in Elements(queue[k])
          /\ \A x \in Elements(queue[k]) : x = s \/ s < x
      BY <1>2, <2>3, <3>1, TailIs DEF InLine
    <3>3. last[k] < s
      BY <1>2, <3>2 DEF InLine
    <3>4. QED
      BY <1>3, <2>3, <3>1, <3>2, <3>3 DEF Waiting
  <2>4. QED
    BY <1>1, <2>1, <2>2, <2>3 DEF Due
<1>5. Owed(k) = {} /\ pc[k] # "free"
  BY <1>4 DEF Owed
<1>6. \A n \in named[k] : n < s
  BY <1>2, <1>4 DEF Sent
<1>7. \A p \in Waiting(replay[k], held[k], queue[k]) \cup Span(gap[k]) : s <= p
  <2>1. s \in Int
    BY <1>4, SeqsAre
  <2>2. \A p \in Waiting(replay[k], held[k], queue[k]) \cup Span(gap[k]) : p \in Int
    <3>1. Elements(replay[k]) \subseteq Seqs /\ Elements(queue[k]) \subseteq Seqs /\ Span(gap[k]) \subseteq Seqs
      BY <1>2, ElementsAre, SpanIs
    <3>2. QED
      BY <1>2, <3>1, SeqsAre DEF Waiting
  <2>3. QED
    BY <1>4, <2>1, <2>2
<1>8. F!Follows(s, reading[k])
  BY <1>4, <1>5, <1>6, <1>7, InFront
<1>9. QED
  BY <1>1, <1>4, <1>5, <1>8

\* A step of k that sends it s, or names the range from .. to.
LEMMA ShowIs ==
    ASSUME HubInv, NEW k \in Slots, NEW s \in Seqs, pc[k] # "free", s \in accepted,
           F!Follows(s, reading[k]), accepted' = accepted,
           clientSeq' = clientSeq \/ (s > clientSeq /\ clientSeq' = s),
           \A j \in Slots \ {k} :
              pc'[j] = pc[j] /\ floor'[j] = floor[j] /\ rendered'[j] = rendered[j] /\ named'[j] = named[j],
           \/ s = Last /\ ReaderOf(k)' = F!Absent
           \/ s # Last /\ ReaderOf(k)' = F!Reading(floor[k], rendered[k] \cup {s}, named[k])
    PROVE  F!Next
<1>1. /\ reading[k] = F!Reading(floor[k], rendered[k], named[k]) /\ s \in F!Events
      /\ reading \in [Slots -> {reading[j] : j \in Slots}]
  BY ReadingIs DEF reading
<1>2. reading[k].open
  BY <1>1, ReaderIs
<1>3. PICK r : r = ReaderOf(k)'
  OBVIOUS
<1>4. r = F!Having(reading[k], s)
  BY <1>1, <1>3, ReaderIs
<1>5. reading' = [reading EXCEPT ![k] = r]
  BY <1>3, ReadingMoves
<1>6. F!Show(k, s)
  BY <1>1, <1>2, <1>4, <1>5 DEF F!Show
<1>7. QED
  BY <1>1, <1>6 DEF F!Next

LEMMA TellIs ==
    ASSUME HubInv, NEW k \in Slots, NEW from \in Seqs, NEW to \in Seqs, pc[k] # "free",
           F!Follows(from, reading[k]), UNCHANGED <<accepted, clientSeq>>,
           \A j \in Slots \ {k} :
              pc'[j] = pc[j] /\ floor'[j] = floor[j] /\ rendered'[j] = rendered[j] /\ named'[j] = named[j],
           ReaderOf(k)' = F!Reading(floor[k], rendered[k], named[k] \cup (from .. to))
    PROVE  F!Next
<1>1. /\ reading[k] = F!Reading(floor[k], rendered[k], named[k]) /\ from \in F!Events /\ to \in F!Events
      /\ reading \in [Slots -> {reading[j] : j \in Slots}]
  BY ReadingIs DEF reading
<1>2. reading[k].open
  BY <1>1, ReaderIs
<1>3. PICK r : r = ReaderOf(k)'
  OBVIOUS
<1>4. r = F!Told(reading[k], from, to)
  BY <1>1, <1>3, ReaderIs
<1>5. reading' = [reading EXCEPT ![k] = r]
  BY <1>3, ReadingMoves
<1>6. F!Tell(k, from, to)
  BY <1>2, <1>4, <1>5 DEF F!Tell
<1>7. QED
  BY <1>1, <1>6 DEF F!Next

LEMMA ReadsMoves ==
    ASSUME NEW k, NEW s, ClientReads(k, s)
    PROVE  clientSeq' = clientSeq \/ (s > clientSeq /\ clientSeq' = s)
BY DEF ClientReads, browser

\* The frame of a due event: shown when it has one, named when it cannot be encoded.
LEMMA EncodeImplements ==
    ASSUME HubInv, RealInv, NEW k \in Slots, Encode(k), pc'[k] # "free",
           \A j \in Slots \ {k} : pc'[j] = pc[j]
    PROVE  F!Next
<1>1. PICK s : s = Due(k)
  OBVIOUS
<1>2. /\ pc[k] # "free" /\ s \in Seqs /\ last[k] < s /\ F!Follows(s, reading[k])
      /\ s \in Waiting(replay[k], held[k], queue[k])
  BY <1>1, DueIsFirst DEF Encode
<1>3. s \in accepted
  BY <1>2 DEF RealInv
<1>4. ~(replay[k] = <<>> /\ s <= last[k])
  <2>1. s \in Int /\ last[k] \in Int
    BY <1>2, ConnIs, SeqsAre
  <2>2. QED
    BY <1>2, <2>1
<1>5. /\ UNCHANGED <<channel, floor>>
      /\ IF AsGap(s) THEN named' = [named EXCEPT ![k] = named[k] \cup {s}] /\ UNCHANGED <<rendered, browser>>
         ELSE /\ named' = named /\ rendered' = [rendered EXCEPT ![k] = rendered[k] \cup {s}]
              /\ ClientReads(k, s)
      /\ s # Last
  BY <1>1, <1>4 DEF Encode
<1>6. accepted' = accepted /\ floor' = floor
  BY <1>5 DEF channel
<1>7. named \in [Slots -> SUBSET Seqs] /\ rendered \in [Slots -> SUBSET Seqs]
  BY DEF HubInv, SubTypes
<1>8. CASE AsGap(s)
  <2>1. /\ named'[k] = named[k] \cup {s} /\ rendered'[k] = rendered[k] /\ clientSeq' = clientSeq
        /\ \A j \in Slots \ {k} : rendered'[j] = rendered[j] /\ named'[j] = named[j]
    BY <1>5, <1>7, <1>8 DEF browser
  <2>2. {s} = s .. s
    BY <1>2, SeqsAre
  <2>3. ReaderOf(k)' = F!Reading(floor[k], rendered[k], named[k] \cup (s .. s))
    BY <1>6, <2>1, <2>2 DEF ReaderOf, F!Reading
  <2>4. QED
    BY <1>2, <1>6, <2>1, <2>3, TellIs
<1>9. CASE ~AsGap(s)
  <2>1. /\ named'[k] = named[k] /\ rendered'[k] = rendered[k] \cup {s}
        /\ \A j \in Slots \ {k} : rendered'[j] = rendered[j] /\ named'[j] = named[j]
    BY <1>5, <1>7, <1>9
  <2>2. clientSeq' = clientSeq \/ (s > clientSeq /\ clientSeq' = s)
    BY <1>5, <1>9, ReadsMoves
  <2>3. ReaderOf(k)' = F!Reading(floor[k], rendered[k] \cup {s}, named[k])
    BY <1>6, <2>1 DEF ReaderOf, F!Reading
  <2>4. QED
    BY <1>2, <1>3, <1>5, <1>6, <2>1, <2>2, <2>3, ShowIs
<1>10. QED
  BY <1>8, <1>9

LEMMA EndImplements == ASSUME HubInv, RealInv, NEW k \in Slots, End(k) PROVE F!Next
<1>1. Due(k) = Last /\ Closed({k}) /\ ClientReads(k, Last) /\ accepted' = accepted
  BY DEF End, channel
<1>2. /\ Last # -1 /\ Last \in Seqs
  BY HubAssumption DEF Seqs
<1>3. /\ pc[k] # "free" /\ F!Follows(Last, reading[k])
      /\ Last \in Waiting(replay[k], held[k], queue[k])
  BY <1>1, <1>2, DueIsFirst
<1>4. Last \in accepted
  BY <1>3 DEF RealInv
<1>5. /\ pc'[k] = "free" /\ rendered'[k] = {} /\ named'[k] = {}
      /\ \A j \in Slots \ {k} :
           pc'[j] = pc[j] /\ floor'[j] = floor[j] /\ rendered'[j] = rendered[j] /\ named'[j] = named[j]
  BY <1>1, ClosedIs DEF HubInv
<1>6. ReaderOf(k)' = F!Absent
  BY <1>5, FreeIsAbsent
<1>7. clientSeq' = clientSeq \/ (Last > clientSeq /\ clientSeq' = Last)
  BY <1>1, ReadsMoves
<1>8. QED
  BY <1>1, <1>2, <1>3, <1>4, <1>5, <1>6, <1>7, ShowIs

\* take_gap: what was dropped is named from its first on.
LEMMA TakeGapImplements == ASSUME HubInv, NEW k \in Slots, TakeGap(k) PROVE F!Next
<1>1. /\ pc[k] = "stream" /\ replay[k] = <<>> /\ gap[k] # <<>>
      /\ named' = [named EXCEPT ![k] = named[k] \cup (gap[k][1] .. gap[k][2])]
      /\ pc' = [pc EXCEPT ![k] = "held"]
      /\ UNCHANGED <<channel, floor, rendered, browser>>
  BY DEF TakeGap
<1>2. /\ accepted' = accepted /\ clientSeq' = clientSeq
      /\ named \in [Slots -> SUBSET Seqs] /\ pc \in [Slots -> {"free", "resume", "stream", "held"}]
  BY <1>1 DEF channel, browser, HubInv, SubTypes
<1>3. PICK from \in Seqs, to \in Seqs : gap[k] = <<from, to>> /\ from <= to
  BY <1>1, ConnIs DEF Gaps
<1>4. Span(gap[k]) = from .. to /\ from \in from .. to /\ \A g \in from .. to : from <= g
  <2>1. gap[k][1] = from /\ gap[k][2] = to /\ from \in Int /\ to \in Int
    BY <1>3, SeqsAre
  <2>2. QED
    BY <1>1, <1>3, <2>1 DEF Span
<1>5. /\ InLine(replay[k], held[k], queue[k], gap[k], last[k], lastSeq)
      /\ Sent(replay[k], held[k], queue[k], gap[k], last[k], rendered[k], named[k], lastSeq)
      /\ queue[k] \in Seq(Seqs) /\ held[k] = -1
  BY <1>1, ConnIs DEF Stage
<1>6. Owed(k) = {} /\ last[k] < from /\ \A n \in named[k] : n < from
  BY <1>1, <1>4, <1>5 DEF Owed, InLine, Sent
<1>7. \A p \in Waiting(replay[k], held[k], queue[k]) \cup Span(gap[k]) : from <= p
  <2>1. \A y \in Elements(queue[k]) : from <= y
    <3>1. Elements(queue[k]) \subseteq Seqs /\ from \in Int
      BY <1>5, ElementsAre, SeqsAre
    <3>2. \A y \in Elements(queue[k]) : from < y /\ y \in Int
      BY <1>4, <1>5, <3>1, SeqsAre DEF InLine
    <3>3. QED
      BY <3>1, <3>2
  <2>2. Elements(<<>>) = {}
    BY DEF Elements
  <2>3. QED
    BY <1>1, <1>4, <1>5, <2>1, <2>2 DEF Waiting
<1>8. pc[k] # "free" /\ F!Follows(from, reading[k])
  <2>1. pc[k] # "free"
    BY <1>1
  <2>2. QED
    BY <1>6, <1>7, <2>1, InFront
<1>9. ReaderOf(k)' = F!Reading(floor[k], rendered[k], named[k] \cup (from .. to))
  <2>1. /\ pc'[k] = "held" /\ floor'[k] = floor[k] /\ rendered'[k] = rendered[k]
        /\ named'[k] = named[k] \cup (gap[k][1] .. gap[k][2])
    BY <1>1, <1>2
  <2>2. gap[k][1] .. gap[k][2] = from .. to
    BY <1>3
  <2>3. QED
    BY <2>1, <2>2 DEF ReaderOf, F!Reading
<1>10. \A j \in Slots \ {k} :
         pc'[j] = pc[j] /\ floor'[j] = floor[j] /\ rendered'[j] = rendered[j] /\ named'[j] = named[j]
  BY <1>1, <1>2
<1>11. QED
  BY <1>2, <1>8, <1>9, <1>10, TellIs

LEMMA Stutters ==
    ASSUME UNCHANGED <<accepted, clientSeq>>,
           \A j \in Slots : /\ (pc'[j] = "free") = (pc[j] = "free") /\ floor'[j] = floor[j]
                            /\ rendered'[j] = rendered[j] /\ named'[j] = named[j]
    PROVE  [F!Next]_(F!feedVars)
BY ReadingStays DEF F!feedVars

\* _resume_gap: nothing was sent yet, and the connection starts right below.
LEMMA ResumeGapImplements ==
    ASSUME HubInv, RealInv, NEW k \in Slots, SendResumeGap(k) PROVE [F!Next]_(F!feedVars)
<1>1. /\ pc[k] = "resume"
      /\ named' = [named EXCEPT ![k] = named[k] \cup (after[k] + 1 .. Head(replay[k]) - 1)]
      /\ pc' = [pc EXCEPT ![k] = "stream"]
      /\ UNCHANGED <<channel, floor, rendered, browser>>
  BY DEF SendResumeGap
<1>2. /\ accepted' = accepted /\ clientSeq' = clientSeq
      /\ named \in [Slots -> SUBSET Seqs] /\ pc \in [Slots -> {"free", "resume", "stream", "held"}]
      /\ accepted \subseteq Seqs
  BY <1>1 DEF channel, browser, HubInv, SubTypes, ChannelTypes
<1>3. /\ replay[k] # <<>> /\ rendered[k] = {} /\ named[k] = {} /\ floor[k] = after[k]
      /\ replay[k] \in Seq(Seqs) /\ after[k] \in Seqs \cup {-1}
  BY <1>1, ConnIs DEF Stage, RealInv
<1>4. PICK from, to : from = after[k] + 1 /\ to = Head(replay[k]) - 1
  OBVIOUS
<1>5. /\ after[k] \in Int /\ after[k] >= -1 /\ Head(replay[k]) \in Int /\ Head(replay[k]) <= Last
      /\ Last \in Int
  <2>1. Head(replay[k]) \in Seqs
    BY <1>3, TailIs
  <2>2. QED
    BY <1>3, <2>1, HubAssumption DEF Seqs
<1>6. \A j \in Slots \ {k} :
        pc'[j] = pc[j] /\ floor'[j] = floor[j] /\ rendered'[j] = rendered[j] /\ named'[j] = named[j]
  BY <1>1, <1>2
<1>7. /\ pc'[k] = "stream" /\ floor'[k] = floor[k] /\ rendered'[k] = rendered[k]
      /\ named'[k] = named[k] \cup (from .. to)
  BY <1>1, <1>2, <1>4
<1>8. CASE from <= to
  <2>1. from \in Seqs /\ to \in Seqs
    BY <1>4, <1>5, <1>8 DEF Seqs
  <2>2. reading[k] = F!Reading(floor[k], {}, {}) /\ pc[k] # "free"
    BY <1>1, <1>3, ReadingIs
  <2>3. reading[k].start = floor[k] /\ reading[k].shown = {} /\ reading[k].told = {}
    BY <2>2, ReaderIs
  <2>4. \A a \in accepted : ~(floor[k] < a /\ a < from)
    <3>1. \A a \in accepted : a \in Int
      BY <1>2, SeqsAre
    <3>2. QED
      BY <1>3, <1>4, <1>5, <3>1
  <2>5. F!Follows(from, reading[k])
    BY <2>3, <2>4 DEF F!Follows
  <2>6. ReaderOf(k)' = F!Reading(floor[k], rendered[k], named[k] \cup (from .. to))
    BY <1>7 DEF ReaderOf, F!Reading
  <2>7. QED
    BY <1>2, <1>6, <2>1, <2>2, <2>5, <2>6, TellIs
<1>9. CASE ~(from <= to)
  <2>1. from .. to = {}
    BY <1>4, <1>5, <1>9
  <2>2. named'[k] = named[k]
    BY <1>7, <2>1
  <2>3. \A j \in Slots : /\ (pc'[j] = "free") = (pc[j] = "free") /\ floor'[j] = floor[j]
                         /\ rendered'[j] = rendered[j] /\ named'[j] = named[j]
    BY <1>1, <1>6, <1>7, <2>2
  <2>4. QED
    BY <1>2, <2>3, Stutters
<1>10. QED
  BY <1>8, <1>9

LEMMA GeneratorImplements ==
    ASSUME HubInv, RealInv, NEW k \in Slots, Generator(k) PROVE [F!Next]_(F!feedVars)
<1>1. pc \in [Slots -> {"free", "resume", "stream", "held"}]
  BY DEF HubInv, SubTypes
<1>2. CASE SendReplay(k) \/ Take(k) \/ SendHeld(k)
  <2>1. Encode(k) /\ ((pc' = pc /\ pc[k] = "stream") \/ pc' = [pc EXCEPT ![k] = "stream"])
    BY <1>2 DEF SendReplay, Take, SendHeld
  <2>2. pc'[k] # "free" /\ \A j \in Slots \ {k} : pc'[j] = pc[j]
    BY <1>1, <2>1
  <2>3. QED
    BY <2>1, <2>2, EncodeImplements
<1>3. QED
  BY <1>2, TakeGapImplements, EndImplements, ResumeGapImplements DEF Generator

LEMMA OpenImplements == ASSUME HubInv, HubInv', NEW k \in Slots, Open(k) PROVE F!Next
<1>1. /\ pc[k] = "free"
      /\ floor' = [floor EXCEPT ![k] =
                      IF clientSeq = -1 /\ history # <<>> THEN Head(history) - 1 ELSE clientSeq]
      /\ pc' = [pc EXCEPT ![k] = IF clientSeq # -1 /\ Evicted THEN "resume" ELSE "stream"]
      /\ UNCHANGED <<channel, rendered, named, clientSeq>>
  BY DEF Open
<1>2. /\ floor \in [Slots -> Seqs \cup {-1}] /\ pc \in [Slots -> {"free", "resume", "stream", "held"}]
      /\ floor'[k] \in Seqs \cup {-1} /\ accepted' = accepted
  BY <1>1 DEF HubInv, SubTypes, channel
<1>3. /\ clientSeq # -1 => floor'[k] = clientSeq
      /\ pc'[k] # "free" /\ \A j \in Slots \ {k} : pc'[j] = pc[j] /\ floor'[j] = floor[j]
  BY <1>1, <1>2
<1>4. rendered'[k] = {} /\ named'[k] = {}
  BY <1>1, ConnIs DEF Stage
<1>5. PICK r : r = ReaderOf(k)'
  OBVIOUS
<1>6. r = F!Reading(floor'[k], {}, {})
  BY <1>3, <1>4, <1>5 DEF ReaderOf, F!Reading
<1>7. reading' = [reading EXCEPT ![k] = r]
  BY <1>1, <1>3, <1>5, ReadingMoves
<1>8. ~reading[k].open
  <2>1. reading[k] = [open |-> pc[k] # "free", start |-> IF pc[k] = "free" THEN -1 ELSE floor[k],
                      shown |-> rendered[k], told |-> named[k]]
    BY ReadingIs DEF ReaderOf
  <2>2. reading[k].open = (pc[k] # "free")
    BY <2>1
  <2>3. QED
    BY <1>1, <2>2
<1>9. F!Open(k, floor'[k])
  BY <1>1, <1>2, <1>3, <1>6, <1>7, <1>8 DEF F!Open
<1>10. floor'[k] \in F!Events \cup {-1}
  BY <1>2, ReadingIs
<1>11. QED
  BY <1>9, <1>10 DEF F!Next

LEMMA ReapImplements == ASSUME HubInv, NEW k \in Slots, Reap(k) PROVE F!Next
<1>1. Closed({k}) /\ accepted' = accepted /\ clientSeq' = clientSeq
  BY DEF Reap, channel, browser
<1>2. /\ pc'[k] = "free" /\ rendered'[k] = {} /\ named'[k] = {}
      /\ \A j \in Slots \ {k} :
           pc'[j] = pc[j] /\ floor'[j] = floor[j] /\ rendered'[j] = rendered[j] /\ named'[j] = named[j]
  BY <1>1, ClosedIs DEF HubInv
<1>3. PICK r : r = ReaderOf(k)' /\ r = F!Absent
  BY <1>2, FreeIsAbsent
<1>4. reading' = [reading EXCEPT ![k] = F!Absent]
  BY <1>2, <1>3, ReadingMoves
<1>5. QED
  BY <1>1, <1>4 DEF F!Next, F!Leave

\* A pruned or restarted hub is read by nobody.
LEMMA ForgetImplements == ASSUME HubInv, Prune \/ Restart PROVE F!Next
<1>1. accepted' = {} /\ clientSeq' = clientSeq
  BY DEF Prune, Restart, EmptyChannel, browser, Retry
<1>2. ASSUME NEW k \in Slots PROVE pc'[k] = "free" /\ rendered'[k] = {} /\ named'[k] = {}
  <2>1. CASE Prune
    <3>1. pc' = pc /\ rendered' = rendered /\ named' = named /\ pc[k] = "free"
      BY <2>1 DEF Prune, sub, Subscribers
    <3>2. QED
      BY <3>1, ConnIs DEF Stage
  <2>2. CASE Restart
    BY <2>2 DEF Restart, Closed
  <2>3. QED
    BY <2>1, <2>2
<1>3. \A k \in Slots : ReaderOf(k)' = F!Absent
  BY <1>2, FreeIsAbsent
<1>4. reading' = [k \in Slots |-> F!Absent]
  BY <1>3 DEF reading
<1>5. QED
  BY <1>1, <1>4 DEF F!Next, F!Forget

LEMMA ArriveImplements ==
    ASSUME HubInv, NEW s \in Seqs, Arrive(s) PROVE [F!Next]_(F!feedVars)
<1>1. UNCHANGED <<pc, floor, rendered, named, clientSeq>>
  BY DEF Arrive, browser
<1>2. reading' = reading
  BY <1>1, ReadingStays
<1>3. CASE accepted' = accepted
  BY <1>1, <1>2, <1>3 DEF F!feedVars
<1>4. CASE Accept(s) /\ Fresh(s)
  <2>1. accepted' = accepted \cup {s} /\ s > lastSeq
    BY <1>4 DEF Accept, Fresh
  <2>2. \A a \in accepted : a < s
    <3>1. lastSeq \in Int /\ s \in Int /\ \A a \in accepted : a \in Int /\ a <= lastSeq
      BY SeqsAre DEF HubInv, ChannelTypes, RingInv
    <3>2. QED
      BY <2>1, <3>1
  <2>3. F!Accept(s) /\ s \in F!Events
    BY <1>1, <1>2, <2>1, <2>2, ReadingIs DEF F!Accept
  <2>4. QED
    BY <2>3 DEF F!Next
<1>5. QED
  BY <1>3, <1>4 DEF Arrive, Accept

LEMMA FeedStep == HubInv /\ HubInv' /\ RealInv /\ [Next]_vars => [F!Next]_(F!feedVars)
<1> SUFFICES ASSUME HubInv, HubInv', RealInv, [Next]_vars PROVE [F!Next]_(F!feedVars)
  OBVIOUS
<1>1. CASE Emit \/ Redeliver
  <2>1. CASE Emit
    <3>1. next \in Seqs /\ Arrive(next)
      BY <2>1, HubAssumption DEF Emit, HubInv, RunTypes, Seqs
    <3>2. QED
      BY <3>1, ArriveImplements
  <2>2. CASE Redeliver
    BY <2>2, ArriveImplements DEF Redeliver
  <2>3. QED
    BY <1>1, <2>1, <2>2
<1>2. CASE Follow \/ Unfollow \/ PumpFails \/ Refused \/ ConnectFails \/ Drop \/ UNCHANGED vars
  <2>1. UNCHANGED <<accepted, clientSeq, pc, floor, rendered, named>>
    BY <1>2 DEF Follow, Unfollow, PumpFails, Refused, ConnectFails, Drop, Retry, browser, channel, sub, vars
  <2>2. QED
    BY <2>1, Stutters
<1>3. CASE Prune \/ Restart
  BY <1>3, ForgetImplements
<1>4. ASSUME NEW k \in Slots, Open(k) \/ Reap(k) \/ Generator(k) PROVE [F!Next]_(F!feedVars)
  BY <1>4, OpenImplements, ReapImplements, GeneratorImplements
<1>5. QED
  BY <1>1, <1>2, <1>3, <1>4 DEF Next, Stopped

\* For any sizes of ring and mailboxes, the hub, its relay and the reconnecting
\* client implement Feed: through evictions, lost frames, pruning and restarts a
\* connection is shown every accepted event above its start in order or told of
\* it before a later one, and a page that has read something is read on from there.
THEOREM FeedHolds == Spec => ImplementsFeed
<1>1. Init => F!Init
  <2>1. ASSUME Init PROVE F!Init
    <3>1. accepted = {} /\ clientSeq = -1
          /\ \A k \in Slots : pc[k] = "free" /\ rendered[k] = {} /\ named[k] = {}
      BY <2>1 DEF Init
    <3>2. reading = [k \in Slots |-> F!Absent]
      BY <3>1, FreeIsAbsent DEF reading
    <3>3. QED
      BY <3>1, <3>2 DEF F!Init
  <2>2. QED
    BY <2>1
<1>2. QED
  BY <1>1, FeedStep, RealAlways, PTL DEF Spec, ImplementsFeed, F!Spec
=============================================================================
