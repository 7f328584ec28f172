------------------------------ MODULE GitHubSync ------------------------------
(* connectors/enterprise/github.py under the ingestion runtime: two streams   *)
(* of one repository.  Issues are walked forward in time; discussions can     *)
(* only be listed newest first, so a run descends a bounded number of pages   *)
(* while the list changes, hands them back oldest first, and parks where it   *)
(* had to stop.  What a page yields is published before its cursor is kept.   *)
EXTENDS Integers, Sequences, FiniteSets

CONSTANTS
    Topics,       \* the issues, or the discussions, of the repository, numbered
    TopicsPage,   \* page_size
    Descent,      \* MAX_DISCUSSION_PAGES, or the run's max_pages
    Rewind,       \* overlap_seconds
    MaxMarks,     \* _MAX_SATURATED_MARKS
    Replication,  \* ticks until a read replica shows an update
    Duration,     \* ticks a run may last
    OthersFollow, \* whether another stream reports after this one
    MaxBeats      \* bound: the provider's clock

ASSUME GitHubAssumption ==
    /\ Topics \subseteq Nat /\ IsFiniteSet(Topics)
    /\ {TopicsPage, Descent, MaxMarks, MaxBeats} \subseteq Nat \ {0} /\ Rewind \in Nat
    /\ Replication \in Nat /\ Duration \in Nat \ {0} /\ OthersFollow \in BOOLEAN

\* What the overlap window is sized for: the lag of a replica and one run.
ASSUME WindowAssumption == Replication + Duration <= Rewind

VARIABLES
    stream,   \* "issues" or "discussions"
    beat,     \* the provider's clock, in its resolution of a second
    touched,  \* updated_at of each topic, 0 before it exists
    shown,    \* the one the replica that is asked shows
    kept,     \* the stream's state in the committed checkpoint
    crawl,    \* the run: [at, state, from, pages, complete, asked, since]
    settled,  \* history: topics of which the version shown was published
    torn      \* history: items of pages that a cut dropped above the token kept

gitHubVars == <<stream, beat, touched, shown, kept, crawl, settled, torn>>

Top == [at |-> MaxBeats + 1, topic |-> 0]
\* `dropped` is history, nothing stores it: the seconds whose last mark was cut.
NewStream == [watermark |-> 0, pending |-> 0, token |-> Top, saturated |-> <<>>, dropped |-> {}]
AtHome == [at |-> "home", state |-> NewStream, from |-> Top, pages |-> <<>>, complete |-> FALSE, asked |-> 0,
           since |-> 0]

GitHubInit ==
    /\ stream \in {"issues", "discussions"}
    /\ beat = 1 /\ touched = [t \in Topics |-> 0] /\ shown = touched
    /\ kept = NewStream /\ crawl = AtHome /\ settled = {} /\ torn = {}

-----------------------------------------------------------------------------
(* The provider.                                                            *)

Touch(t) ==
    /\ touched[t] < beat
    /\ touched' = [touched EXCEPT ![t] = beat]
    /\ UNCHANGED <<stream, beat, shown, kept, crawl, settled, torn>>

Replicate(t) ==
    /\ shown[t] # touched[t]
    /\ shown' = [shown EXCEPT ![t] = touched[t]]
    /\ settled' = settled \ {t}
    /\ UNCHANGED <<stream, beat, touched, kept, crawl, torn>>

Beat ==
    /\ beat < MaxBeats
    /\ crawl.at # "home" => beat < crawl.since + Duration
    /\ \A t \in Topics : shown[t] # touched[t] => beat + 1 - touched[t] <= Replication
    /\ beat' = beat + 1
    /\ UNCHANGED <<stream, touched, shown, kept, crawl, settled, torn>>

Listed == {[at |-> shown[t], topic |-> t] : t \in {u \in Topics : shown[u] # 0}}
Below(x, y) == x.at < y.at \/ (x.at = y.at /\ x.topic < y.topic)

\* The n items of S that come first in an order; all of them when there are no
\* more.
First(S, n, Before(_, _)) == {x \in S : Cardinality({y \in S : Before(y, x)}) < n}

-----------------------------------------------------------------------------
(* Begin a run, and the two ways to ask.                                    *)

WindowStart(s) == s.watermark - Rewind

StartCrawl ==
    /\ crawl.at = "home"
    /\ crawl' = [AtHome EXCEPT !.at = "ask", !.state = kept, !.since = beat,
                   !.from = IF stream = "issues" THEN [Top EXCEPT !.at = WindowStart(kept)] ELSE kept.token]
    /\ UNCHANGED <<stream, beat, touched, shown, kept, settled, torn>>

Newest(P, default) == IF P = {} THEN default ELSE CHOOSE t \in {x.at : x \in P} : \A x \in P : x.at <= t
Later(a, b) == IF a < b THEN b ELSE a

\* _advance_since: a second stepped over is appended to the marks, once more if
\* a window that reads it again has to step over it again, and only the last
\* marks are kept.
Kept(marks) == IF Len(marks) > MaxMarks THEN Tail(marks) ELSE marks
Marks(s)    == {s.saturated[i] : i \in DOMAIN s.saturated}
MarksLost(old, new) == {old[i] : i \in DOMAIN old} \ {new[i] : i \in DOMAIN new}

SteppedOver(s, second) ==
    LET marks == Kept(Append(s.saturated, second))
    IN  [s EXCEPT !.saturated = marks,
                  !.dropped = (@ \cup MarksLost(s.saturated, marks)) \ {second}]

\* _fetch_issues: the oldest page from `since` on.  A full page of one second
\* is stepped over.
AskIssues ==
    /\ stream = "issues" /\ crawl.at = "ask"
    /\ LET since == crawl.from.at
           P     == First({x \in Listed : x.at >= since}, TopicsPage, Below)
           full  == Cardinality(P) >= TopicsPage
           top   == Newest(P, since)
           stuck == full /\ top <= since
           read  == [crawl.state EXCEPT !.watermark = IF P = {} THEN @ ELSE Later(@, top)]
       IN  crawl' = [crawl EXCEPT !.at = "publish", !.pages = <<P>>, !.asked = @ + 1,
                       !.state = IF stuck THEN SteppedOver(read, since) ELSE read,
                       !.from.at = IF stuck THEN since + 1 ELSE top,
                       !.complete = ~full]
    /\ UNCHANGED <<stream, beat, touched, shown, kept, settled, torn>>

\* _descend_discussions: a page down from the token.  It ends at the bottom, at
\* ground an earlier run has covered, or where the budget of pages or the
\* provider's points are spent.
Descend ==
    /\ stream = "discussions" /\ crawl.at = "ask"
    /\ LET below == {x \in Listed : Below(x, crawl.from)}
           P     == First(below, TopicsPage, LAMBDA x, y : Below(y, x))
           more  == P # below
           last  == CHOOSE x \in P : \A y \in P : ~Below(y, x)
           done  == ~more \/ (crawl.state.watermark # 0 /\ last.at <= WindowStart(crawl.state))
       IN  \E spent \in BOOLEAN :
             crawl' = [crawl EXCEPT
                !.pages = IF P = {} THEN @ ELSE <<P>> \o @,
                !.from = IF done THEN Top ELSE last,
                !.complete = done, !.asked = @ + 1,
                !.at = IF done \/ spent \/ crawl.asked + 1 = Descent THEN "publish" ELSE "ask"]
    /\ UNCHANGED <<stream, beat, touched, shown, kept, settled, torn>>

-----------------------------------------------------------------------------
(* Hand over a page: publish, then keep the cursor.                         *)

\* _fetch_discussions: only the last page of a complete descent moves the
\* watermark; before it, and after a cut, the progress is parked.
HandedAtOnce(s, running, last) == [s EXCEPT !.watermark = Later(@, running), !.pending = 0,
                                            !.token = IF crawl.complete THEN Top ELSE crawl.from]
Handed(s, running, last) ==
    IF crawl.complete /\ last
    THEN [s EXCEPT !.watermark = Later(@, running), !.pending = 0, !.token = Top]
    ELSE [s EXCEPT !.pending = running, !.token = IF crawl.complete THEN @ ELSE crawl.from]

Publish ==
    /\ crawl.at = "publish" /\ crawl.pages # <<>>
    /\ LET P == Head(crawl.pages) IN
        /\ settled' = settled \cup {x.topic : x \in P \cap Listed}
        /\ crawl' = [crawl EXCEPT !.at = "keep", !.pages = Tail(@),
                       !.state = IF stream = "issues" THEN @
                                 ELSE Handed(@, Later(@.pending, Newest(P, 0)), Len(crawl.pages) = 1)]
    /\ UNCHANGED <<stream, beat, touched, shown, kept, torn>>

\* The page after, the next request, or the end.
Onwards ==
    IF crawl.pages # <<>> THEN "publish"
    ELSE IF stream = "issues" /\ ~crawl.complete /\ crawl.asked < Descent THEN "ask" ELSE "end"

Keep ==
    /\ crawl.at = "keep"
    /\ kept' = crawl.state /\ crawl' = [crawl EXCEPT !.at = Onwards]
    /\ UNCHANGED <<stream, beat, touched, shown, settled, torn>>

\* A descent that found nothing only clears its token.
FoundNothing ==
    /\ crawl.at = "publish" /\ crawl.pages = <<>>
    /\ crawl' = [crawl EXCEPT !.at = "end", !.state.token = Top]
    /\ UNCHANGED <<stream, beat, touched, shown, kept, settled, torn>>

\* The page of a stream that follows carries this one's state along.
EndCrawl ==
    /\ crawl.at = "end"
    /\ kept' = IF OthersFollow THEN crawl.state ELSE kept
    /\ crawl' = AtHome
    /\ UNCHANGED <<stream, beat, touched, shown, settled, torn>>

\* A request, a publish or the process fails, or max_records is reached.  What
\* was not handed over is gone; below the token kept it will be fetched again.
Unhanded(pages) == UNION {pages[i] : i \in DOMAIN pages}

CutCrawl ==
    /\ crawl.at # "home"
    /\ crawl' = AtHome
    /\ torn' = IF stream = "discussions" /\ ~crawl.complete /\ kept.token = crawl.from
               THEN torn \cup {x \in Unhanded(crawl.pages) : x.at <= kept.pending - Rewind}
               ELSE torn
    /\ UNCHANGED <<stream, beat, touched, shown, kept, settled>>

GitHubNext ==
    \/ Beat \/ \E t \in Topics : Touch(t) \/ Replicate(t)
    \/ StartCrawl \/ AskIssues \/ Descend
    \/ Publish \/ Keep \/ FoundNothing \/ EndCrawl \/ CutCrawl

GitHubSpec == GitHubInit /\ [][GitHubNext]_gitHubVars

-----------------------------------------------------------------------------
(* Properties.                                                              *)

GitHubTypeOK ==
    /\ stream \in {"issues", "discussions"} /\ beat \in 1..MaxBeats
    /\ \A t \in Topics : shown[t] \in 0..touched[t] /\ touched[t] \in 0..beat
    /\ kept.watermark \in 0..beat /\ kept.pending \in 0..beat /\ Len(kept.saturated) <= MaxMarks
    /\ crawl.at \in {"home", "ask", "publish", "keep", "end"} /\ Len(crawl.pages) <= Descent

\* _StreamState, _fetch_discussions, _advance_since: whatever is updated while
\* a run descends, is cut short or is parked, an update that the provider shows
\* and nothing has published lies above the point the next run reads down to,
\* or in a second the issues walk has stepped over, which is still marked unless
\* MaxMarks later steps pushed its mark out - or it was on a page a cut dropped
\* after the token below that page had been kept (see EmittedBelow).
NothingBuried ==
    \A t \in Topics :
        shown[t] # 0 /\ t \notin settled =>
            \/ shown[t] > WindowStart(kept)
            \/ stream = "issues" /\ shown[t] \in {WindowStart(kept)} \cup Marks(kept)
            \/ stream = "issues" /\ shown[t] \in kept.dropped /\ Len(kept.saturated) = MaxMarks
            \/ stream = "discussions" /\ [at |-> shown[t], topic |-> t] \in torn

\* _StreamState: what a descent may not commit is parked, for else records would
\* be left below the watermark, unemitted, with nothing ever going back for them.
EmittedBelow ==
    stream = "discussions" =>
        \A t \in Topics : shown[t] # 0 /\ shown[t] <= WindowStart(kept) => t \in settled
=============================================================================
