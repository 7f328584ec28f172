----------------------- MODULE SalesforceSync_proofs -----------------------
(***************************************************************************)
(* Proofs about SalesforceSync, for any records, any number of runs that   *)
(* overlap on one account, any overlap window, budget and bound.           *)
(*                                                                         *)
(* What one run may rely on is stated as a predicate of its state s, of    *)
(* the provider's time c and of the set O of versions that queries can see *)
(* and that nothing has settled, so that what one step does to one run is  *)
(* a lemma without variables.                                              *)
(***************************************************************************)
EXTENDS SalesforceSync, TLAPS

Outstanding == {v \in Queryable : v \notin Settled \cup shadowed}

Held(s) == s.todo \cup s.batch \cup s.events

\* Watermarks never lead the provider's time, nor does the result being paged.
Bounds(s, c) ==
  /\ s.committed.wm \in 0..c
  /\ s.floor \in 0..c
  /\ s.next.wm <= c
  /\ s.floor = 0 => s.next.wm >= 0
  /\ s.start.wm = 0 \/ s.start.wm <= c - Overlap
  /\ \A w \in s.rest : w[2] <= c

\* An outstanding version is not older than the overlap window of anything the
\* run has committed or will commit, unless the run itself still holds it.
Covers(s, O) ==
  \A v \in O :
    /\ v[2] >= s.committed.wm - Overlap
    /\ v[2] >= s.floor - Overlap
    /\ s.phase = "query" => v[2] >= s.start.wm
    /\ v \in Held(s) \/ v[2] >= s.next.wm - Overlap
    /\ v \in s.rest \cup Held(s) \/ \A w \in s.rest : v[2] >= w[2] - Overlap

\* A run holds records only while it works on a page, and asks for a page only
\* within its budget.
Shape(s) ==
  /\ s.phase # "page" => Held(s) = {}
  /\ s.phase = "query" => s.pages = 0 /\ s.rest = {}
  /\ s.phase = "paging" => s.pages < MaxPages

GoodRun(s, c, O) == Bounds(s, c) /\ Covers(s, O) /\ Shape(s)

\* The provider: a change that is not queryable yet is younger than Lag.
ProviderInv ==
  \A r \in Records : /\ stamp[r] <= clock /\ index[r] <= clock
                     /\ stamp[r] # index[r] => stamp[r] >= clock - Lag /\ stamp[r] > 0

CursorInv ==
  /\ cursor.wm \in 0..clock
  /\ \A v \in Outstanding : v[2] >= cursor.wm - Overlap

IInv ==
  /\ TypeOK /\ ProviderInv /\ CursorInv
  /\ \A p \in Runners : GoodRun(run[p], clock, Outstanding)

-----------------------------------------------------------------------------
\* A version's stamp is a number.
LEMMA StampType == \A v \in Versions : v[1] \in Records /\ v[2] \in 1..MaxTime
  BY DEF Versions

LEMMA QueryableType == TypeOK => Queryable \subseteq Versions
  BY DEF TypeOK, Queryable, Versions

LEMMA NumberTypes == /\ Overlap \in Nat /\ Lag \in Nat /\ Lag <= Overlap
                     /\ MaxPages \in Nat /\ MaxPages > 0
                     /\ MaxAttempts \in Nat /\ MaxAttempts > 0
                     /\ MaxTime \in Nat /\ MaxTime > 0 /\ MaxFaults \in Nat
  BY Numbers, LagIsCovered

\* A run is as good later, when fewer versions are outstanding.
LEMMA GoodLater ==
  ASSUME NEW s \in RunStates, NEW c \in Nat, NEW d \in Nat, c <= d,
         NEW O, NEW P \in SUBSET O, GoodRun(s, c, O)
  PROVE  GoodRun(s, d, P)
<1>1. Bounds(s, d)
  BY StampType, NumberTypes DEF GoodRun, Bounds, RunStates, Cursors
<1>2. Covers(s, P) /\ Shape(s)
  BY DEF GoodRun, Covers
<1> QED BY <1>1, <1>2 DEF GoodRun

\* A version that has just become queryable is inside every run's window.
LEMMA GoodNewer ==
  ASSUME NEW s \in RunStates, NEW c \in Nat, NEW O, NEW u \in Versions,
         u[2] >= c - Lag, GoodRun(s, c, O)
  PROVE  GoodRun(s, c, O \cup {u})
<1>1. /\ u[2] >= s.committed.wm - Overlap
      /\ u[2] >= s.floor - Overlap
      /\ u[2] >= s.next.wm - Overlap
      /\ u[2] >= s.start.wm
  BY StampType, NumberTypes DEF GoodRun, Bounds, RunStates, Cursors
<1>2. \A w \in s.rest : u[2] >= w[2] - Overlap
  BY StampType, NumberTypes DEF GoodRun, Bounds, RunStates
<1>3. Covers(s, O \cup {u})
  BY <1>1, <1>2 DEF GoodRun, Covers
<1> QED BY <1>3 DEF GoodRun

\* A finished run promises nothing.
LEMMA GoodIdle ==
  ASSUME NEW c \in Nat, NEW O \in SUBSET Versions
  PROVE  GoodRun(Idle, c, O) /\ Idle \in RunStates
<1>1. Bounds(Idle, c) /\ Shape(Idle)
  BY NumberTypes DEF Idle, NoCursor, Bounds, Shape, Held
<1>2. Covers(Idle, O)
  BY StampType, NumberTypes DEF Covers, Idle, NoCursor, Held
<1>3. Idle \in RunStates
  BY NumberTypes DEF Idle, NoCursor, RunStates, Cursors
<1> QED BY <1>1, <1>2, <1>3 DEF GoodRun

\* A drain that starts from a cursor nothing outstanding lies behind.
LEMMA GoodAttempt ==
  ASSUME NEW c \in Nat, NEW O \in SUBSET Versions,
         NEW k \in Cursors, NEW n \in 0..(MaxAttempts - 1),
         k.wm \in 0..c, \A v \in O : v[2] >= k.wm - Overlap
  PROVE  GoodRun(Attempt(k, n), c, O) /\ Attempt(k, n) \in RunStates
<1> DEFINE s == Attempt(k, n)
<1>0. EffectiveStart(k) \in Cursors
  BY NumberTypes DEF EffectiveStart, NoCursor, Cursors
<1>1. /\ s.phase = "query" /\ s.committed = k /\ s.floor = WatermarkFloor(k)
      /\ s.start = EffectiveStart(k) /\ s.next = EffectiveStart(k)
      /\ s.rest = {} /\ s.todo = {} /\ s.batch = {} /\ s.events = {}
      /\ s.last = FALSE /\ s.pages = 0 /\ s.attempts = n
  BY DEF Attempt, Idle
<1>2. s \in RunStates
  <2>1. WatermarkFloor(k) \in Int
    BY DEF WatermarkFloor, Cursors
  <2>2. 0 \in 0..MaxPages /\ {} \in SUBSET Versions
    BY NumberTypes
  <2> QED BY <1>0, <2>1, <2>2 DEF Attempt, Idle, RunStates
<1>3. /\ s.floor = 0 \/ s.floor = k.wm
      /\ s.start.wm = 0 \/ s.start.wm = k.wm - Overlap
      /\ s.floor = 0 => s.start.wm = 0
  BY <1>1, NumberTypes DEF EffectiveStart, WatermarkFloor, NoCursor, Cursors
<1>4. Bounds(s, c) /\ Shape(s)
  BY <1>1, <1>3, NumberTypes DEF Bounds, Shape, Held, Cursors
<1>5. Covers(s, O)
  BY <1>1, <1>3, StampType, NumberTypes DEF Covers, Held, Cursors
<1> QED BY <1>2, <1>4, <1>5 DEF GoodRun

\* A page received: the oldest versions P of S, reporting the stamp t.
LEMMA GoodReceive ==
  ASSUME NEW c \in Nat, NEW O \in SUBSET Versions, NEW s \in RunStates,
         GoodRun(s, c, O), s.phase \in {"query", "paging"},
         NEW S \in SUBSET Versions, \A w \in S : w[2] <= c,
         NEW P \in OldestOf(S), NEW t \in Newest(P, s.next.wm),
         \A v \in O : v \in S \/ \A w \in S : v[2] >= w[2] - Overlap,
         \A w \in S : w[2] >= 0
  PROVE  LET r == [s EXCEPT !.phase = "page", !.todo = P, !.rest = S \ P,
                            !.next = [NoCursor EXCEPT !.wm = t],
                            !.last = (S \ P = {}), !.pages = s.pages + 1]
         IN  GoodRun(r, c, O) /\ r \in RunStates
<1> DEFINE r == [s EXCEPT !.phase = "page", !.todo = P, !.rest = S \ P,
                          !.next = [NoCursor EXCEPT !.wm = t],
                          !.last = (S \ P = {}), !.pages = s.pages + 1]
<1>1. P \in SUBSET S /\ \A v \in P, w \in S \ P : v[2] <= w[2]
  BY DEF OldestOf
<1>2. \/ P = {} /\ t = s.next.wm
      \/ P # {} /\ \A v \in P : v[2] <= t /\ \E x \in P : t = x[2]
  BY DEF Newest
<1>3. t \in Int /\ t <= c /\ (s.floor = 0 => t >= 0)
  BY <1>1, <1>2, StampType DEF RunStates, Cursors, GoodRun, Bounds
<1>4. Held(s) = {}
  BY DEF GoodRun, Shape
<1>5. /\ r.phase = "page" /\ r.todo = P /\ r.rest = S \ P /\ r.next.wm = t
      /\ r.committed = s.committed /\ r.floor = s.floor /\ r.start = s.start
      /\ r.batch = {} /\ r.events = {}
  BY <1>4 DEF RunStates, Held, NoCursor
<1>6. s.pages < MaxPages
  BY NumberTypes DEF GoodRun, Shape, RunStates
<1>7. r \in RunStates
  <2>1. [NoCursor EXCEPT !.wm = t] \in Cursors
    BY <1>3 DEF Cursors, NoCursor
  <2>2. s.pages + 1 \in 0..MaxPages /\ P \in SUBSET Versions /\ S \ P \in SUBSET Versions
    BY <1>1, <1>6, NumberTypes DEF RunStates
  <2> QED BY <2>1, <2>2 DEF RunStates
<1>8. Bounds(r, c) /\ Shape(r)
  BY <1>1, <1>3, <1>5 DEF GoodRun, Bounds, Shape
<1>9. Covers(r, O)
  <2> SUFFICES ASSUME NEW v \in O
               PROVE  /\ v \in P \/ v[2] >= t - Overlap
                      /\ v \in S \/ \A w \in S \ P : v[2] >= w[2] - Overlap
    BY <1>1, <1>5 DEF Covers, GoodRun, Held
  <2>1. v \in S \ P /\ P # {} => v[2] >= t - Overlap
    BY <1>1, <1>2, StampType, NumberTypes
  <2>2. v \notin S /\ P # {} => v[2] >= t - Overlap
    BY <1>1, <1>2, StampType, NumberTypes
  <2>3. P = {} => v[2] >= t - Overlap
    BY <1>2, <1>4 DEF GoodRun, Covers
  <2> QED BY <2>1, <2>2, <2>3, <1>1
<1> QED BY <1>7, <1>8, <1>9 DEF GoodRun

\* Work on a page: what leaves the run's hands is no longer outstanding.
LEMMA GoodWork ==
  ASSUME NEW c \in Nat, NEW O, NEW P \in SUBSET O, NEW s \in RunStates,
         NEW r \in RunStates, GoodRun(s, c, O), s.phase = "page", r.phase = "page",
         r.committed = s.committed, r.floor = s.floor, r.start = s.start,
         r.next = s.next, r.rest = s.rest,
         \A v \in P : v \in Held(s) => v \in Held(r)
  PROVE  GoodRun(r, c, P)
<1>1. Bounds(r, c) /\ Shape(r)
  BY DEF GoodRun, Bounds, Shape
<1>2. Covers(r, P)
  BY DEF GoodRun, Covers
<1> QED BY <1>1, <1>2 DEF GoodRun

\* What the runtime commits when it holds nothing of the page any more.
LEMMA CommitIsCovered ==
  ASSUME NEW c \in Nat, NEW O \in SUBSET Versions, NEW s \in RunStates,
         GoodRun(s, c, O), Held(s) = {}
  PROVE  LET new == GuardWatermark(s.next, s.floor)
         IN  /\ new \in Cursors /\ new.wm \in 0..c
             /\ \A v \in O : v[2] >= new.wm - Overlap
<1> DEFINE new == GuardWatermark(s.next, s.floor)
<1>1. new \in Cursors
  BY DEF GuardWatermark, RunStates, Cursors
<1>2. \/ new.wm = s.next.wm /\ (s.floor = 0 \/ s.next.wm >= s.floor)
      \/ new.wm = s.floor
  BY DEF GuardWatermark, RunStates, Cursors
<1>3. new.wm \in 0..c
  BY <1>2 DEF GoodRun, Bounds, RunStates, Cursors
<1>4. \A v \in O : v[2] >= new.wm - Overlap
  BY <1>2 DEF GoodRun, Covers
<1> QED BY <1>1, <1>3, <1>4

LEMMA GoodCommit ==
  ASSUME NEW c \in Nat, NEW O \in SUBSET Versions, NEW s \in RunStates,
         GoodRun(s, c, O), Held(s) = {}, NEW k \in Cursors, k.wm \in 0..c,
         \A v \in O : v[2] >= k.wm - Overlap
  PROVE  LET r == [s EXCEPT !.phase = "drained", !.committed = k]
         IN  GoodRun(r, c, O) /\ r \in RunStates
<1> DEFINE r == [s EXCEPT !.phase = "drained", !.committed = k]
<1>1. /\ r \in RunStates
      /\ r.phase = "drained" /\ r.committed = k /\ r.floor = s.floor
      /\ r.start = s.start /\ r.next = s.next /\ r.rest = s.rest
      /\ r.todo = s.todo /\ r.batch = s.batch /\ r.events = s.events
  BY DEF RunStates
<1>2. Bounds(r, c) /\ Shape(r) /\ Held(r) = {}
  BY <1>1 DEF GoodRun, Bounds, Shape, Held
<1>3. Covers(r, O)
  BY <1>1, <1>2 DEF GoodRun, Covers
<1> QED BY <1>1, <1>2, <1>3 DEF GoodRun

\* Between two pages nothing is held, whatever the run goes on to do.
LEMMA GoodPhase ==
  ASSUME NEW c \in Nat, NEW O, NEW s \in RunStates, GoodRun(s, c, O), Held(s) = {},
         NEW ph \in {"drained", "paging"}, ph = "paging" => s.pages < MaxPages
  PROVE  LET r == [s EXCEPT !.phase = ph]
         IN  GoodRun(r, c, O) /\ r \in RunStates
<1> DEFINE r == [s EXCEPT !.phase = ph]
<1>1. /\ r \in RunStates
      /\ r.phase = ph /\ r.committed = s.committed /\ r.floor = s.floor
      /\ r.start = s.start /\ r.next = s.next /\ r.rest = s.rest
      /\ r.todo = s.todo /\ r.batch = s.batch /\ r.events = s.events
      /\ r.pages = s.pages
  BY DEF RunStates
<1>2. Bounds(r, c) /\ Shape(r) /\ Held(r) = {}
  BY <1>1 DEF GoodRun, Bounds, Shape, Held
<1>3. Covers(r, O)
  BY <1>1, <1>2 DEF GoodRun, Covers
<1> QED BY <1>1, <1>2, <1>3 DEF GoodRun

-----------------------------------------------------------------------------
\* A step of one run, which settles versions and may move the cursor.
LEMMA RunStep ==
  ASSUME IInv, NEW p \in Runners, UNCHANGED provider,
         run' = [run EXCEPT ![p] = run'[p]], run'[p] \in RunStates,
         published \subseteq published', parked \subseteq parked',
         skipped \subseteq skipped', shadowed \subseteq shadowed',
         published' \cup parked' \cup skipped' \cup shadowed' \subseteq Versions,
         seen' \subseteq Records \X (0..MaxTime), faults' \in 0..MaxFaults,
         cursor' \in Cursors, cursor'.wm \in 0..clock,
         \A v \in Outstanding' : v[2] >= cursor'.wm - Overlap,
         GoodRun(run'[p], clock, Outstanding')
  PROVE  IInv'
<1>1. TypeOK'
  BY DEF IInv, TypeOK, provider
<1>2. ProviderInv'
  BY DEF IInv, ProviderInv, provider
<1>3. CursorInv'
  BY DEF CursorInv, provider
<1>4. clock \in Nat /\ clock' = clock /\ Outstanding' \in SUBSET Outstanding
  BY DEF IInv, TypeOK, provider, Outstanding, Queryable, Settled
<1>5. ASSUME NEW q \in Runners
      PROVE  GoodRun(run'[q], clock', Outstanding')
  <2>1. CASE q = p
    BY <2>1, <1>4
  <2>2. CASE q # p
    <3>1. run'[q] = run[q] /\ run[q] \in RunStates
      BY <2>2 DEF IInv, TypeOK
    <3> QED BY <3>1, <1>4, GoodLater DEF IInv
  <2> QED BY <2>1, <2>2
<1> QED BY <1>1, <1>2, <1>3, <1>5 DEF IInv

\* Facts every step starts from.
LEMMA Given ==
  ASSUME IInv, NEW p \in Runners
  PROVE  /\ clock \in Nat /\ Outstanding \in SUBSET Versions
         /\ run[p] \in RunStates /\ GoodRun(run[p], clock, Outstanding)
         /\ cursor \in Cursors /\ cursor.wm \in 0..clock
         /\ \A v \in Outstanding : v[2] >= cursor.wm - Overlap
         /\ faults \in 0..MaxFaults /\ seen \subseteq Records \X (0..MaxTime)
         /\ published \subseteq Versions /\ parked \subseteq Versions
         /\ skipped \subseteq Versions /\ shadowed \subseteq Versions
  BY QueryableType DEF IInv, TypeOK, CursorInv, Outstanding

\* A step that settles nothing leaves the same versions outstanding.
LEMMA SameOutstanding ==
  ASSUME UNCHANGED <<provider, sinks>>
  PROVE  Outstanding' = Outstanding
  BY DEF provider, sinks, Outstanding, Queryable, Settled

\* A step that moves one run and nothing else.
LEMMA QuietStep ==
  ASSUME IInv, NEW p \in Runners, UNCHANGED <<provider, cursor, seen, sinks>>,
         faults' \in 0..MaxFaults,
         run' = [run EXCEPT ![p] = run'[p]], run'[p] \in RunStates,
         GoodRun(run'[p], clock, Outstanding)
  PROVE  IInv'
<1>1. Outstanding' = Outstanding
  BY SameOutstanding
<1> QED BY <1>1, Given, RunStep DEF sinks

LEMMA BeginStep ==
  ASSUME IInv, NEW p \in Runners, Begin(p)
  PROVE  IInv'
<1>1. run'[p] = Attempt(cursor, 0) /\ 0 \in 0..(MaxAttempts - 1)
  BY NumberTypes DEF Begin, IInv, TypeOK
<1>2. GoodRun(run'[p], clock, Outstanding) /\ run'[p] \in RunStates
  BY <1>1, Given, GoodAttempt
<1>3. faults' \in 0..MaxFaults /\ run' = [run EXCEPT ![p] = run'[p]]
  BY <1>1 DEF Begin, IInv, TypeOK
<1> QED BY <1>2, <1>3, QuietStep DEF Begin

LEMMA FetchStep ==
  ASSUME IInv, NEW p \in Runners, Fetch(p)
  PROVE  IInv'
<1> DEFINE s == run[p]
           S == IF s.phase = "query" THEN Matching(s.start.wm) ELSE s.rest
<1>0. PICK P \in OldestOf(S) : \E t \in Newest(P, s.next.wm) :
        Receive(p, P, S \ P, [NoCursor EXCEPT !.wm = t], S \ P = {})
  BY DEF Fetch
<1>1. PICK t \in Newest(P, s.next.wm) :
        Receive(p, P, S \ P, [NoCursor EXCEPT !.wm = t], S \ P = {})
  BY <1>0
<1>2. /\ clock \in Nat /\ Outstanding \in SUBSET Versions /\ s \in RunStates
      /\ GoodRun(s, clock, Outstanding) /\ s.phase \in {"query", "paging"}
  BY Given DEF Fetch
<1>3. S \in SUBSET Versions
  BY <1>2, QueryableType DEF Matching, RunStates, IInv
<1>4. \A w \in S : w[2] <= clock /\ w[2] >= 0
  <2>1. \A w \in S : w[2] >= 0
    BY <1>3, StampType
  <2>2. CASE s.phase = "query"
    BY <2>1, <2>2 DEF Matching, Queryable, IInv, ProviderInv
  <2>3. CASE s.phase = "paging"
    BY <2>1, <2>3, <1>2 DEF GoodRun, Bounds
  <2> QED BY <2>2, <2>3, <1>2
<1>5. \A v \in Outstanding : v \in S \/ \A w \in S : v[2] >= w[2] - Overlap
  <2>1. CASE s.phase = "query"
    BY <2>1, <1>2 DEF GoodRun, Covers, Matching, Outstanding
  <2>2. CASE s.phase = "paging"
    BY <2>2, <1>2 DEF GoodRun, Covers, Shape
  <2> QED BY <2>1, <2>2, <1>2
<1> DEFINE r == [s EXCEPT !.phase = "page", !.todo = P, !.rest = S \ P,
                          !.next = [NoCursor EXCEPT !.wm = t],
                          !.last = (S \ P = {}), !.pages = s.pages + 1]
<1> HIDE DEF S
<1>6. GoodRun(r, clock, Outstanding) /\ r \in RunStates
  BY <1>2, <1>3, <1>4, <1>5, GoodReceive
<1>7. run' = [run EXCEPT ![p] = r]
  BY <1>1 DEF Receive
<1>8. run'[p] = r /\ run' = [run EXCEPT ![p] = run'[p]] /\ faults' \in 0..MaxFaults
  BY <1>1, <1>7 DEF Receive, IInv, TypeOK
<1> QED BY <1>1, <1>6, <1>8, QuietStep DEF Receive

\* What the steps on a page share: p works on a page and puts v behind it.
LEMMA PageStep ==
  ASSUME IInv, NEW p \in Runners, UNCHANGED <<provider, cursor>>,
         run[p].phase = "page",
         run' = [run EXCEPT ![p] = run'[p]], run'[p] \in RunStates,
         run'[p].phase = "page", run'[p].committed = run[p].committed,
         run'[p].floor = run[p].floor, run'[p].start = run[p].start,
         run'[p].next = run[p].next, run'[p].rest = run[p].rest,
         published \subseteq published', parked \subseteq parked',
         skipped \subseteq skipped', shadowed \subseteq shadowed',
         published' \cup parked' \cup skipped' \cup shadowed' \subseteq Versions,
         seen' \subseteq Records \X (0..MaxTime), faults' \in 0..MaxFaults,
         \A v \in Held(run[p]) : v \in Held(run'[p]) \cup Settled' \cup shadowed'
  PROVE  IInv'
<1>1. Outstanding' \in SUBSET Outstanding
  BY DEF provider, Outstanding, Queryable, Settled
<1>2. \A v \in Outstanding' : v \in Held(run[p]) => v \in Held(run'[p])
  BY DEF Outstanding
<1>3. GoodRun(run'[p], clock, Outstanding')
  BY <1>1, <1>2, Given, GoodWork
<1>4. \A v \in Outstanding' : v[2] >= cursor'.wm - Overlap
  BY <1>1, Given
<1> QED BY <1>3, <1>4, Given, RunStep

LEMMA NormalizeStep ==
  ASSUME IInv, NEW p \in Runners, NormalizeAndDedup(p)
  PROVE  IInv'
<1> DEFINE s == run[p]
<1>0. /\ s \in RunStates /\ s.phase = "page" /\ faults \in 0..MaxFaults
      /\ run \in [Runners -> RunStates]
  BY Given DEF NormalizeAndDedup, IInv, TypeOK
<1>1. PICK v \in s.todo :
        \/ /\ skipped' = skipped \cup {v}
           /\ run' = [run EXCEPT ![p].todo = @ \ {v}]
           /\ UNCHANGED <<seen, shadowed, faults>>
        \/ /\ Key(v) \in seen
           /\ shadowed' = IF v \in Settled THEN shadowed ELSE shadowed \cup {v}
           /\ run' = [run EXCEPT ![p].todo = @ \ {v}]
           /\ UNCHANGED <<seen, skipped, faults>>
        \/ /\ seen' \in {seen, seen \cup {Key(v)}} /\ faults' \in 0..MaxFaults
           /\ run' = [run EXCEPT ![p].todo = @ \ {v}, ![p].batch = @ \cup {v}]
           /\ UNCHANGED <<skipped, shadowed>>
  <2>1. ASSUME faults < MaxFaults, faults' = faults + 1
        PROVE  faults' \in 0..MaxFaults
    BY <2>1, <1>0, NumberTypes
  <2>2. ASSUME UNCHANGED faults
        PROVE  faults' \in 0..MaxFaults
    BY <2>2, <1>0
  <2>3. PICK v \in s.todo :
          \/ /\ skipped' = skipped \cup {v}
             /\ run' = [run EXCEPT ![p].todo = @ \ {v}]
             /\ UNCHANGED <<seen, shadowed, faults>>
          \/ /\ Key(v) \in seen
             /\ shadowed' = IF v \in Settled THEN shadowed ELSE shadowed \cup {v}
             /\ run' = [run EXCEPT ![p].todo = @ \ {v}]
             /\ UNCHANGED <<seen, skipped, faults>>
          \/ /\ seen' = seen \cup {Key(v)}
             /\ run' = [run EXCEPT ![p].todo = @ \ {v}, ![p].batch = @ \cup {v}]
             /\ UNCHANGED <<skipped, shadowed, faults>>
          \/ /\ faults < MaxFaults /\ faults' = faults + 1
             /\ run' = [run EXCEPT ![p].todo = @ \ {v}, ![p].batch = @ \cup {v}]
             /\ UNCHANGED <<seen, skipped, shadowed>>
    BY DEF NormalizeAndDedup, Skip
  <2> QED BY <2>1, <2>2, <2>3
<1>2. v \in Versions /\ Key(v) \in Records \X (0..MaxTime)
  BY <1>0, NumberTypes DEF RunStates, Key, Versions
<1>3. UNCHANGED <<provider, cursor, published, parked>>
  BY DEF NormalizeAndDedup
<1>4. CASE run' = [run EXCEPT ![p].todo = @ \ {v}] /\ v \in Settled' \cup shadowed'
           /\ UNCHANGED <<seen, faults>> /\ skipped \subseteq skipped'
           /\ shadowed \subseteq shadowed' /\ skipped' \cup shadowed' \subseteq Versions
  <2> DEFINE r == [s EXCEPT !.todo = @ \ {v}]
  <2>1. run' = [run EXCEPT ![p] = r] /\ run'[p] = r
    BY <1>0, <1>4
  <2>2. /\ r \in RunStates /\ r.phase = "page" /\ r.committed = s.committed
        /\ r.floor = s.floor /\ r.start = s.start /\ r.next = s.next
        /\ r.rest = s.rest /\ Held(s) \subseteq Held(r) \cup {v}
    BY <1>0 DEF RunStates, Held
  <2> QED BY <2>1, <2>2, <1>0, <1>3, <1>4, Given, PageStep
<1>5. CASE /\ run' = [run EXCEPT ![p].todo = @ \ {v}, ![p].batch = @ \cup {v}]
           /\ UNCHANGED <<skipped, shadowed>> /\ faults' \in 0..MaxFaults
           /\ seen' \subseteq Records \X (0..MaxTime)
  <2> DEFINE r == [s EXCEPT !.todo = @ \ {v}, !.batch = @ \cup {v}]
  <2>1. run' = [run EXCEPT ![p] = r] /\ run'[p] = r
    BY <1>0, <1>5
  <2>2. /\ r \in RunStates /\ r.phase = "page" /\ r.committed = s.committed
        /\ r.floor = s.floor /\ r.start = s.start /\ r.next = s.next
        /\ r.rest = s.rest /\ Held(s) \subseteq Held(r)
    BY <1>0, <1>2 DEF RunStates, Held
  <2> QED BY <2>1, <2>2, <1>0, <1>3, <1>5, Given, PageStep
<1>6. seen \subseteq Records \X (0..MaxTime) /\ skipped \subseteq Versions
      /\ shadowed \subseteq Versions
  BY Given
<1> QED BY <1>1, <1>2, <1>3, <1>4, <1>5, <1>6 DEF Settled

LEMMA ArchiveStep ==
  ASSUME IInv, NEW p \in Runners, ArchiveRecord(p)
  PROVE  IInv'
<1> DEFINE s == run[p]
<1>0. /\ s \in RunStates /\ s.phase = "page"
      /\ run \in [Runners -> RunStates]
      /\ UNCHANGED <<provider, cursor, seen, published, skipped, shadowed, faults>>
  BY Given DEF ArchiveRecord, IInv, TypeOK
<1>1. PICK v \in s.batch :
        \/ parked' = parked \cup {v} /\ run' = [run EXCEPT ![p].batch = @ \ {v}]
        \/ /\ run' = [run EXCEPT ![p].batch = @ \ {v}, ![p].events = @ \cup {v}]
           /\ UNCHANGED parked
  BY DEF ArchiveRecord
<1>2. v \in Versions
  BY <1>0 DEF RunStates
<1>3. CASE parked' = parked \cup {v} /\ run' = [run EXCEPT ![p].batch = @ \ {v}]
  <2> DEFINE r == [s EXCEPT !.batch = @ \ {v}]
  <2>1. run' = [run EXCEPT ![p] = r] /\ run'[p] = r
    BY <1>0, <1>3
  <2>2. /\ r \in RunStates /\ r.phase = "page" /\ r.committed = s.committed
        /\ r.floor = s.floor /\ r.start = s.start /\ r.next = s.next
        /\ r.rest = s.rest /\ Held(s) \subseteq Held(r) \cup {v}
    BY <1>0 DEF RunStates, Held
  <2>3. v \in Settled'
    BY <1>3 DEF Settled
  <2> QED BY <2>1, <2>2, <2>3, <1>0, <1>2, <1>3, Given, PageStep
<1>4. CASE /\ run' = [run EXCEPT ![p].batch = @ \ {v}, ![p].events = @ \cup {v}]
           /\ UNCHANGED parked
  <2> DEFINE r == [s EXCEPT !.batch = @ \ {v}, !.events = @ \cup {v}]
  <2>1. run' = [run EXCEPT ![p] = r] /\ run'[p] = r
    BY <1>0, <1>4
  <2>2. /\ r \in RunStates /\ r.phase = "page" /\ r.committed = s.committed
        /\ r.floor = s.floor /\ r.start = s.start /\ r.next = s.next
        /\ r.rest = s.rest /\ Held(s) \subseteq Held(r)
    BY <1>0, <1>2 DEF RunStates, Held
  <2> QED BY <2>1, <2>2, <1>0, <1>4, Given, PageStep
<1> QED BY <1>1, <1>3, <1>4

LEMMA PublishStep ==
  ASSUME IInv, NEW p \in Runners, Publish(p)
  PROVE  IInv'
<1> DEFINE s == run[p]
<1>0. /\ s \in RunStates /\ s.phase = "page"
      /\ run \in [Runners -> RunStates]
      /\ UNCHANGED <<provider, cursor, seen, parked, skipped, shadowed, faults>>
  BY Given DEF Publish, IInv, TypeOK
<1>1. PICK v \in s.events :
        published' = published \cup {v} /\ run' = [run EXCEPT ![p].events = @ \ {v}]
  BY DEF Publish
<1> DEFINE r == [s EXCEPT !.events = @ \ {v}]
<1>2. run' = [run EXCEPT ![p] = r] /\ run'[p] = r /\ v \in Versions
  BY <1>0, <1>1 DEF RunStates
<1>3. /\ r \in RunStates /\ r.phase = "page" /\ r.committed = s.committed
      /\ r.floor = s.floor /\ r.start = s.start /\ r.next = s.next
      /\ r.rest = s.rest /\ Held(s) \subseteq Held(r) \cup {v}
  BY <1>0 DEF RunStates, Held
<1>4. v \in Settled'
  BY <1>1 DEF Settled
<1> QED BY <1>2, <1>3, <1>4, <1>0, <1>1, Given, PageStep

\* A failure costs one fault.
LEMMA FaultType ==
  ASSUME faults \in 0..MaxFaults, Fault
  PROVE  faults' \in 0..MaxFaults
  BY NumberTypes DEF Fault

LEMMA CommitStep ==
  ASSUME IInv, NEW p \in Runners, CommitCursor(p)
  PROVE  IInv'
<1> DEFINE s == run[p]
           new == GuardWatermark(s.next, s.floor)
<1>0. /\ s \in RunStates /\ Held(s) = {} /\ GoodRun(s, clock, Outstanding)
      /\ clock \in Nat /\ Outstanding \in SUBSET Versions
      /\ run \in [Runners -> RunStates]
      /\ UNCHANGED <<provider, seen, sinks, faults>>
  BY Given DEF CommitCursor, IInv, TypeOK, Held
<1>1. /\ new \in Cursors /\ new.wm \in 0..clock
      /\ \A v \in Outstanding : v[2] >= new.wm - Overlap
  BY <1>0, CommitIsCovered
<1> HIDE DEF new
<1>2. CASE /\ cursor' = new
           /\ run' = [run EXCEPT ![p].phase = "drained", ![p].committed = new]
  <2> DEFINE r == [s EXCEPT !.phase = "drained", !.committed = new]
  <2>1. run' = [run EXCEPT ![p] = r] /\ run'[p] = r
    BY <1>0, <1>2
  <2>2. GoodRun(r, clock, Outstanding) /\ r \in RunStates
    BY <1>0, <1>1, GoodCommit
  <2>3. Outstanding' = Outstanding
    BY <1>0, SameOutstanding
  <2> QED BY <2>1, <2>2, <2>3, <1>0, <1>1, <1>2, Given, RunStep DEF sinks
<1>3. CASE UNCHANGED cursor /\ run' = [run EXCEPT ![p].phase = "drained"]
  <2> DEFINE r == [s EXCEPT !.phase = "drained"]
  <2>1. run' = [run EXCEPT ![p] = r] /\ run'[p] = r
    BY <1>0, <1>3
  <2>2. GoodRun(r, clock, Outstanding) /\ r \in RunStates
    BY <1>0, GoodPhase
  <2> QED BY <2>1, <2>2, <1>0, <1>3, Given, QuietStep
<1> QED BY <1>2, <1>3 DEF CommitCursor, new

LEMMA NextPageStep ==
  ASSUME IInv, NEW p \in Runners, NextPageOrEnd(p)
  PROVE  IInv'
<1> DEFINE s == run[p]
           r == IF s.pages >= MaxPages \/ s.last THEN Idle
                ELSE [s EXCEPT !.phase = "paging"]
<1>0. /\ s \in RunStates /\ GoodRun(s, clock, Outstanding) /\ s.phase = "drained"
      /\ clock \in Nat /\ Outstanding \in SUBSET Versions
      /\ run \in [Runners -> RunStates] /\ run' = [run EXCEPT ![p] = r]
      /\ UNCHANGED <<provider, cursor, seen, sinks, faults>>
  BY Given DEF NextPageOrEnd, IInv, TypeOK
<1>1. CASE r = Idle
  <2>1. run' = [run EXCEPT ![p] = Idle] /\ run'[p] = Idle /\ faults' \in 0..MaxFaults
    BY <1>0, <1>1, Given
  <2>2. GoodRun(run'[p], clock, Outstanding) /\ run'[p] \in RunStates
    BY <2>1, <1>0, GoodIdle
  <2>3. run' = [run EXCEPT ![p] = run'[p]]
    BY <2>1
  <2> QED BY <2>1, <2>2, <2>3, <1>0, QuietStep
<1>2. CASE r = [s EXCEPT !.phase = "paging"] /\ s.pages < MaxPages
  <2>1. Held(s) = {}
    BY <1>0 DEF GoodRun, Shape
  <2>2. LET paging == [s EXCEPT !.phase = "paging"]
        IN  GoodRun(paging, clock, Outstanding) /\ paging \in RunStates
    <3> HIDE DEF s
    <3> QED BY <2>1, <1>0, <1>2, GoodPhase
  <2>3. GoodRun(r, clock, Outstanding) /\ r \in RunStates
    BY <1>2, <2>2
  <2> HIDE DEF r
  <2> QED BY <2>3, <1>0, Given, QuietStep
<1>3. s.pages \in Nat
  BY <1>0, NumberTypes DEF RunStates
<1> QED BY <1>1, <1>2, <1>3, NumberTypes

LEMMA TransientStep ==
  ASSUME IInv, NEW p \in Runners, TransientError(p)
  PROVE  IInv'
<1> DEFINE s == run[p]
           r == IF Exhausted(s) THEN Idle
                ELSE Attempt(s.committed, s.attempts + 1)
<1>0. /\ s \in RunStates /\ GoodRun(s, clock, Outstanding)
      /\ clock \in Nat /\ Outstanding \in SUBSET Versions
      /\ run \in [Runners -> RunStates] /\ run' = [run EXCEPT ![p] = r]
      /\ UNCHANGED <<provider, cursor, seen, sinks>> /\ faults' \in 0..MaxFaults
  BY Given, FaultType DEF TransientError, IInv, TypeOK
<1>1. GoodRun(r, clock, Outstanding) /\ r \in RunStates
  <2>1. CASE Exhausted(s)
    BY <2>1, <1>0, GoodIdle
  <2>2. CASE ~Exhausted(s)
    <3>1. s.attempts + 1 \in 0..(MaxAttempts - 1)
      BY <2>2, <1>0, NumberTypes DEF RunStates, Exhausted
    <3>2. /\ s.committed \in Cursors /\ s.committed.wm \in 0..clock
          /\ \A v \in Outstanding : v[2] >= s.committed.wm - Overlap
      BY <1>0 DEF RunStates, GoodRun, Bounds, Covers
    <3> QED BY <3>1, <3>2, <2>2, <1>0, GoodAttempt
  <2> QED BY <2>1, <2>2
<1> HIDE DEF r
<1> QED BY <1>0, <1>1, Given, QuietStep

LEMMA QuotaStep ==
  ASSUME IInv, NEW p \in Runners, QuotaError(p)
  PROVE  IInv'
<1> DEFINE s == run[p]
<1>0. /\ s \in RunStates /\ GoodRun(s, clock, Outstanding)
      /\ clock \in Nat /\ Outstanding \in SUBSET Versions
      /\ run \in [Runners -> RunStates] /\ run' = [run EXCEPT ![p] = Idle]
      /\ UNCHANGED <<provider, seen, sinks>> /\ faults' \in 0..MaxFaults
      /\ cursor' \in {cursor, s.committed}
  BY Given, FaultType DEF QuotaError, IInv, TypeOK
<1>1. /\ cursor' \in Cursors /\ cursor'.wm \in 0..clock
      /\ \A v \in Outstanding : v[2] >= cursor'.wm - Overlap
  <2>1. /\ s.committed \in Cursors /\ s.committed.wm \in 0..clock
        /\ \A v \in Outstanding : v[2] >= s.committed.wm - Overlap
    BY <1>0 DEF RunStates, GoodRun, Bounds, Covers
  <2> QED BY <2>1, <1>0, Given
<1>2. Outstanding' = Outstanding
  BY <1>0, SameOutstanding
<1>3. run'[p] = Idle
  BY <1>0
<1> QED BY <1>0, <1>1, <1>2, <1>3, GoodIdle, Given, RunStep DEF sinks

LEMMA RunDiesStep ==
  ASSUME IInv, NEW p \in Runners, RunDies(p)
  PROVE  IInv'
<1>0. /\ clock \in Nat /\ Outstanding \in SUBSET Versions
      /\ run \in [Runners -> RunStates] /\ run' = [run EXCEPT ![p] = Idle]
      /\ UNCHANGED <<provider, cursor, seen, sinks>> /\ faults' \in 0..MaxFaults
  BY Given, FaultType DEF RunDies, IInv, TypeOK
<1>1. run'[p] = Idle
  BY <1>0
<1> QED BY <1>0, <1>1, GoodIdle, Given, QuietStep

-----------------------------------------------------------------------------
\* A step of the environment: the runs stay as they are.
LEMMA EnvironmentStep ==
  ASSUME IInv, UNCHANGED <<sinks, run>>, TypeOK', ProviderInv', clock <= clock',
         cursor'.wm = cursor.wm,
         \A v \in Outstanding' : v \in Outstanding \/ v[2] >= clock' - Lag
  PROVE  IInv'
<1>1. /\ clock \in Nat /\ clock' \in Nat /\ cursor \in Cursors
      /\ cursor.wm \in 0..clock
      /\ Outstanding \subseteq Versions /\ Outstanding' \subseteq Versions
  <2>1. Queryable \subseteq Versions
    BY QueryableType DEF IInv
  <2>2. Queryable' \subseteq Versions
    BY DEF TypeOK, Queryable, Versions
  <2> QED BY <2>1, <2>2 DEF IInv, TypeOK, CursorInv, Outstanding
<1>2. CursorInv'
  <2> SUFFICES ASSUME NEW v \in Outstanding'
               PROVE  v[2] >= cursor.wm - Overlap
    BY <1>1 DEF CursorInv
  <2>1. v[2] \in Int
    BY <1>1, StampType
  <2> QED BY <2>1, <1>1, NumberTypes DEF IInv, CursorInv, Cursors
<1>3. ASSUME NEW p \in Runners
      PROVE  GoodRun(run'[p], clock', Outstanding')
  <2> DEFINE s == run[p]
  <2>1. s \in RunStates /\ GoodRun(s, clock, Outstanding) /\ run'[p] = s
    BY DEF IInv, TypeOK
  <2>2. GoodRun(s, clock', Outstanding)
    BY <2>1, <1>1, GoodLater
  <2>3. Bounds(s, clock') /\ Shape(s)
    BY <2>2 DEF GoodRun
  <2>4. Covers(s, Outstanding')
    <3> SUFFICES ASSUME NEW v \in Outstanding'
                 PROVE  Covers(s, {v})
      BY DEF Covers
    <3>1. CASE v \in Outstanding
      BY <3>1, <2>2 DEF GoodRun, Covers
    <3>2. CASE v[2] >= clock' - Lag
      <4>1. v \in Versions
        BY <1>1
      <4>2. GoodRun(s, clock', Outstanding \cup {v})
        BY <4>1, <3>2, <2>1, <2>2, <1>1, GoodNewer
      <4> QED BY <4>2 DEF GoodRun, Covers
    <3> QED BY <3>1, <3>2
  <2> QED BY <2>1, <2>3, <2>4 DEF GoodRun
<1> QED BY <1>2, <1>3 DEF IInv

LEMMA TickStep == IInv /\ Tick => IInv'
<1> SUFFICES ASSUME IInv, Tick
             PROVE  IInv'
  OBVIOUS
<1>1. TypeOK' /\ clock <= clock' /\ cursor' = cursor
  BY NumberTypes DEF IInv, TypeOK, Tick, sinks
<1>2. ProviderInv'
  <2> SUFFICES ASSUME NEW r \in Records
               PROVE  /\ stamp[r] <= clock' /\ index[r] <= clock'
                      /\ stamp[r] # index[r] => stamp[r] >= clock' - Lag /\ stamp[r] > 0
    BY DEF ProviderInv, Tick
  <2>1. stamp[r] \in Int /\ index[r] \in Int /\ clock \in Int /\ clock' = clock + 1
    BY DEF IInv, TypeOK, Tick
  <2> QED BY <2>1, NumberTypes DEF IInv, ProviderInv, Tick
<1>3. Outstanding' = Outstanding /\ UNCHANGED <<sinks, run>>
  BY DEF Tick, sinks, Outstanding, Queryable, Settled
<1> QED BY <1>1, <1>2, <1>3, EnvironmentStep

LEMMA ReviseStep ==
  ASSUME IInv, NEW r \in Records, Revise(r)
  PROVE  IInv'
<1>1. TypeOK' /\ clock' = clock /\ clock \in Int /\ cursor' = cursor
  BY NumberTypes DEF IInv, TypeOK, Revise, sinks
<1>2. ProviderInv'
  <2> SUFFICES ASSUME NEW q \in Records
               PROVE  /\ stamp'[q] <= clock /\ index[q] <= clock
                      /\ stamp'[q] # index[q] => stamp'[q] >= clock - Lag /\ stamp'[q] > 0
    BY DEF ProviderInv, Revise
  <2>1. CASE q = r
    <3>1. stamp'[q] = clock /\ clock > 0
      BY <2>1 DEF Revise, IInv, TypeOK
    <3> QED BY <3>1, <1>1, NumberTypes DEF IInv, ProviderInv
  <2>2. CASE q # r
    <3>1. stamp'[q] = stamp[q]
      BY <2>2 DEF Revise, IInv, TypeOK
    <3> QED BY <3>1 DEF IInv, ProviderInv
  <2> QED BY <2>1, <2>2
<1>3. Outstanding' = Outstanding /\ UNCHANGED <<sinks, run>>
  BY DEF Revise, sinks, Outstanding, Queryable, Settled
<1> QED BY <1>1, <1>2, <1>3, EnvironmentStep

LEMMA QueryableStep ==
  ASSUME IInv, NEW r \in Records, BecomeQueryable(r)
  PROVE  IInv'
<1>0. /\ stamp \in [Records -> 0..MaxTime] /\ index \in [Records -> 0..MaxTime]
      /\ index' = [index EXCEPT ![r] = stamp[r]] /\ clock' = clock /\ clock \in Int
      /\ UNCHANGED <<stamp, cursor, sinks, run>>
  BY DEF IInv, TypeOK, BecomeQueryable
<1>1. TypeOK'
  BY <1>0 DEF IInv, TypeOK, BecomeQueryable, sinks
<1>2. ProviderInv'
  <2> SUFFICES ASSUME NEW q \in Records
               PROVE  /\ stamp[q] <= clock /\ index'[q] <= clock
                      /\ stamp[q] # index'[q] => stamp[q] >= clock - Lag /\ stamp[q] > 0
    BY <1>0 DEF ProviderInv
  <2>1. index'[q] = IF q = r THEN stamp[r] ELSE index[q]
    BY <1>0
  <2> QED BY <2>1 DEF IInv, ProviderInv
<1>3. \A v \in Outstanding' : v \in Outstanding \/ v[2] >= clock' - Lag
  <2> SUFFICES ASSUME NEW v \in Outstanding', v \notin Outstanding
               PROVE  v[2] >= clock' - Lag
    OBVIOUS
  <2>1. Settled' = Settled /\ shadowed' = shadowed
    BY <1>0 DEF Settled, sinks
  <2>2. v \in Queryable' /\ v \notin Queryable
    BY <2>1 DEF Outstanding
  <2>3. PICK q \in Records : index'[q] # 0 /\ v = <<q, index'[q]>>
    BY <2>2 DEF Queryable
  <2>4. CASE q # r
    BY <2>2, <2>3, <2>4, <1>0 DEF Queryable
  <2>5. CASE q = r
    BY <2>3, <2>5, <1>0 DEF BecomeQueryable, IInv, ProviderInv
  <2> QED BY <2>4, <2>5
<1> QED BY <1>0, <1>1, <1>2, <1>3, EnvironmentStep

LEMMA ForgetStep ==
  ASSUME IInv, NEW k \in seen, Forget(k)
  PROVE  IInv'
<1>1. faults' \in 0..MaxFaults
  BY FaultType DEF Forget, IInv, TypeOK
<1>2. TypeOK'
  BY <1>1 DEF IInv, TypeOK, Forget, provider, sinks
<1>3. ProviderInv' /\ clock <= clock' /\ cursor' = cursor
  BY DEF IInv, TypeOK, ProviderInv, Forget, provider
<1>4. Outstanding' = Outstanding /\ UNCHANGED <<sinks, run>>
  BY DEF Forget, provider, sinks, Outstanding, Queryable, Settled
<1> QED BY <1>2, <1>3, <1>4, EnvironmentStep

LEMMA UnreadableStep == IInv /\ Unreadable => IInv'
<1> SUFFICES ASSUME IInv, Unreadable
             PROVE  IInv'
  OBVIOUS
<1>1. faults' \in 0..MaxFaults
  BY FaultType DEF Unreadable, IInv, TypeOK
<1>2. cursor' \in Cursors /\ cursor'.wm = cursor.wm
  BY DEF Unreadable, IInv, TypeOK, Cursors
<1>3. TypeOK'
  BY <1>1, <1>2 DEF IInv, TypeOK, Unreadable, provider, sinks
<1>4. ProviderInv' /\ clock <= clock'
  BY DEF IInv, TypeOK, ProviderInv, Unreadable, provider
<1>5. Outstanding' = Outstanding /\ UNCHANGED <<sinks, run>>
  BY DEF Unreadable, provider, sinks, Outstanding, Queryable, Settled
<1> QED BY <1>2, <1>3, <1>4, <1>5, EnvironmentStep

-----------------------------------------------------------------------------
LEMMA InitStep == Init => IInv
<1> SUFFICES ASSUME Init
             PROVE  IInv
  OBVIOUS
<1>1. /\ clock = 1 /\ \A r \in Records : stamp[r] = 0 /\ index[r] = 0
      /\ cursor = NoCursor /\ run = [p \in Runners |-> Idle]
  BY DEF Init
<1>2. Queryable = {} /\ Outstanding = {}
  BY <1>1 DEF Queryable, Outstanding
<1>3. TypeOK
  <2>1. Idle \in RunStates
    BY GoodIdle
  <2>2. cursor \in Cursors
    BY <1>1 DEF NoCursor, Cursors
  <2> QED BY <2>1, <2>2, NumberTypes DEF Init, TypeOK
<1>4. ProviderInv /\ CursorInv
  BY <1>1, <1>2, NumberTypes DEF ProviderInv, CursorInv, NoCursor
<1>5. \A p \in Runners : GoodRun(run[p], clock, Outstanding)
  BY <1>1, <1>2, GoodIdle
<1> QED BY <1>3, <1>4, <1>5 DEF IInv

LEMMA NextStep ==
  ASSUME IInv, [Next]_vars
  PROVE  IInv'
<1>1. ASSUME NEW p \in Runners, Begin(p) \/ Step(p) \/ Failure(p)
      PROVE  IInv'
  <2>1. CASE Begin(p)
    BY <2>1, BeginStep
  <2>2. CASE Fetch(p)
    BY <2>2, FetchStep
  <2>3. CASE Drain(p)
    BY <2>3, NormalizeStep, ArchiveStep, PublishStep, CommitStep, NextPageStep
       DEF Drain
  <2>4. CASE Failure(p)
    BY <2>4, TransientStep, QuotaStep, RunDiesStep DEF Failure
  <2> QED BY <1>1, <2>1, <2>2, <2>3, <2>4 DEF Step
<1>2. CASE Environment
  BY <1>2, TickStep, ReviseStep, QueryableStep, ForgetStep, UnreadableStep
     DEF Environment
<1>3. CASE UNCHANGED vars
  <2>1. UNCHANGED <<sinks, run, cursor, clock>> /\ Outstanding' = Outstanding
    BY <1>3 DEF vars, provider, sinks, Outstanding, Queryable, Settled
  <2>2. TypeOK' /\ ProviderInv' /\ clock <= clock'
    BY <1>3 DEF vars, provider, sinks, IInv, TypeOK, ProviderInv
  <2> QED BY <2>1, <2>2, EnvironmentStep
<1> QED BY <1>1, <1>2, <1>3 DEF Next

\* Every reachable state satisfies the inductive invariant: commit after
\* acknowledgement (connector_service.py:17-28) with a rewound start
\* (base.py:312-372).
THEOREM Inductive == Spec => []IInv
  BY InitStep, NextStep, PTL DEF Spec

\* Every variable has its type; no run exceeds its page or its retry budget
\* (base.py:446-451, backoff.py:368-432).
THEOREM TypeCorrect == Spec => []TypeOK
<1>1. IInv => TypeOK
  BY DEF IInv
<1> QED BY <1>1, Inductive, PTL

\* connector_service.py:17-28: with any number of runs that overlap, fail or
\* die, no queryable version leaves the reach of the committed cursor before
\* it is settled, unless the seen-set suppressed it.
THEOREM NothingOutOfReach == Spec => []StillReachable
<1>1. IInv => StillReachable
  <2> SUFFICES ASSUME IInv, NEW v \in Queryable, v \notin Settled \cup shadowed
               PROVE  v \in Reach(cursor)
    BY DEF StillReachable
  <2>1. v \in Outstanding /\ v \in Versions
    BY QueryableType DEF Outstanding, IInv
  <2>2. v[2] >= cursor.wm - Overlap /\ cursor \in Cursors
    BY <2>1 DEF IInv, CursorInv, TypeOK
  <2>3. \/ EffectiveStart(cursor).wm = 0
        \/ EffectiveStart(cursor).wm = cursor.wm - Overlap
    BY DEF EffectiveStart, NoCursor
  <2>4. v[2] >= EffectiveStart(cursor).wm
    BY <2>1, <2>2, <2>3, StampType
  <2> QED BY <2>4 DEF Reach, Matching
<1> QED BY <1>1, Inductive, PTL

\* base.py:330-372, connector_service.py:832-861: a run that keeps its
\* identity never lowers the watermark it committed, whatever its pager
\* reports and however its own restarts rewind.
THEOREM CommitsForward == Spec => WatermarkForward
<1>1. IInv /\ [Next]_vars =>
        [\A p \in Runners :
           (run[p].phase # "idle" /\ run'[p].phase # "idle")
             => run'[p].committed.wm >= run[p].committed.wm]_vars
  <2> SUFFICES ASSUME IInv, Next, NEW p \in Runners,
                      run[p].phase # "idle", run'[p].phase # "idle"
               PROVE  run'[p].committed.wm >= run[p].committed.wm
    BY DEF vars
  <2> DEFINE s == run[p]
  <2>1. /\ run \in [Runners -> RunStates] /\ s \in RunStates
        /\ GoodRun(s, clock, Outstanding) /\ s.committed.wm \in Nat
    BY Given DEF IInv, TypeOK, GoodRun, Bounds
  <2>2. ASSUME run'[p].committed = s.committed
        PROVE  run'[p].committed.wm >= run[p].committed.wm
    BY <2>1, <2>2
  <2>3. CASE CommitCursor(p)
    <3> DEFINE new == GuardWatermark(s.next, s.floor)
    <3>0. Held(s) = {}
      BY <2>3 DEF CommitCursor, Held
    <3>1. new \in Cursors /\ new.wm \in Nat
      BY <3>0, <2>1, Given, CommitIsCovered
    <3> HIDE DEF new
    <3>2. CASE /\ Advances(new, s.committed)
               /\ run' = [run EXCEPT ![p].phase = "drained", ![p].committed = new]
      <4>1. run'[p].committed = new
        BY <3>2, <2>1 DEF RunStates
      <4>2. s.committed.wm = 0 \/ new.wm >= s.committed.wm
        BY <3>2 DEF Advances
      <4> QED BY <4>1, <4>2, <3>1, <2>1
    <3>3. CASE run' = [run EXCEPT ![p].phase = "drained"]
      <4>1. run'[p].committed = s.committed
        BY <3>3, <2>1 DEF RunStates
      <4> QED BY <4>1, <2>2
    <3> QED BY <3>2, <3>3, <2>3 DEF CommitCursor, new
  <2>4. CASE Fetch(p) \/ NormalizeAndDedup(p) \/ ArchiveRecord(p) \/ Publish(p)
    <3>1. Fetch(p) => run'[p].committed = s.committed
      BY <2>1 DEF Fetch, Receive, RunStates
    <3>2. NormalizeAndDedup(p) => run'[p].committed = s.committed
      BY <2>1 DEF NormalizeAndDedup, Skip, RunStates
    <3>3. ArchiveRecord(p) => run'[p].committed = s.committed
      BY <2>1 DEF ArchiveRecord, RunStates
    <3>4. Publish(p) => run'[p].committed = s.committed
      BY <2>1 DEF Publish, RunStates
    <3> QED BY <2>4, <3>1, <3>2, <3>3, <3>4, <2>2
  <2>5. CASE NextPageOrEnd(p)
    <3>1. run'[p] \in {Idle, [s EXCEPT !.phase = "paging"]}
      BY <2>5, <2>1 DEF NextPageOrEnd
    <3>2. run'[p].committed = s.committed
      BY <3>1, <2>1 DEF Idle, RunStates
    <3> QED BY <3>2, <2>2
  <2>6. CASE Failure(p)
    <3>1. run'[p] \in {Idle, Attempt(s.committed, s.attempts + 1)}
      BY <2>6, <2>1 DEF Failure, TransientError, QuotaError, RunDies
    <3>2. Idle.phase = "idle" /\ Attempt(s.committed, s.attempts + 1).committed = s.committed
      BY DEF Idle, Attempt
    <3>3. run'[p].committed = s.committed
      BY <3>1, <3>2
    <3> QED BY <3>3, <2>2
  <2>7. CASE Begin(p)
    BY <2>7 DEF Begin
  <2>8. ASSUME run'[p] = run[p]
        PROVE  run'[p].committed = s.committed
    BY <2>8
  <2>9. ASSUME NEW q \in Runners, q # p, Begin(q) \/ Step(q) \/ Failure(q)
        PROVE  run'[p] = run[p]
    <3>1. Begin(q) \/ Failure(q) => run'[p] = run[p]
      BY <2>9, <2>1 DEF Begin, Failure, TransientError, QuotaError, RunDies
    <3>2. Fetch(q) => run'[p] = run[p]
      BY <2>9, <2>1 DEF Fetch, Receive
    <3>3. NormalizeAndDedup(q) => run'[p] = run[p]
      BY <2>9, <2>1 DEF NormalizeAndDedup, Skip
    <3>4. ArchiveRecord(q) \/ Publish(q) => run'[p] = run[p]
      BY <2>9, <2>1 DEF ArchiveRecord, Publish
    <3>5. CommitCursor(q) \/ NextPageOrEnd(q) => run'[p] = run[p]
      BY <2>9, <2>1 DEF CommitCursor, NextPageOrEnd
    <3> QED BY <2>9, <3>1, <3>2, <3>3, <3>4, <3>5 DEF Step, Drain
  <2>10. CASE Environment
    <3>1. run' = run
      BY <2>10 DEF Environment, Tick, Revise, BecomeQueryable, Forget, Unreadable
    <3> QED BY <3>1, <2>2
  <2> QED BY <2>2, <2>3, <2>4, <2>5, <2>6, <2>7, <2>8, <2>9, <2>10
          DEF Next, Step, Drain
<1> QED BY <1>1, Inductive, PTL DEF Spec, WatermarkForward
=============================================================================
