---------------------------- MODULE ArtifactSync ----------------------------
(* Two streams of one GitHub repository: the pull requests, and their reviews *)
(* in chunks.  A walk reads the list newest-updated first, page by page, while *)
(* it changes; what was read is stored; then the stream's watermark moves.    *)
(* The commits and ci_runs streams run the same walk over dates that do not   *)
(* change.                                                                    *)
EXTENDS Integers, FiniteSets, FiniteSetsExt, Functions

CONSTANTS
    Syncs,        \* processes that sync the source
    Pulls,        \* pull requests, as numbers
    PullsPage,    \* per_page
    MaxPullPages, \* max_pages
    FanOut,       \* REVIEW_FANOUT_LIMIT
    PullTimeEnd,
    MaxUpdates,   \* updates of pull requests
    MaxReadFaults \* requests that fail

ASSUME ArtifactAssumption ==
    /\ Pulls \subseteq Nat /\ IsFiniteSet(Pulls)
    /\ {PullsPage, MaxPullPages, FanOut} \subseteq Nat \ {0}
    /\ {PullTimeEnd, MaxUpdates, MaxReadFaults} \subseteq Nat

\* What the store promises holds of one sync of a source at a time.
ASSUME OneSyncAssumption == \A c, d \in Syncs : c = d

WatermarkOverlap == 1
Streams == {"pull_requests", "reviews"}

VARIABLES
    updated,   \* GitHub: per pull request, its updated_at (0: not there)
    version,   \* GitHub: per pull request, how often it changed
    pullTime,  \* the clock, in seconds
    written,   \* the store, per stream: the version of each pull request it reflects
    cursors,   \* the source row's metadata: the watermarks
    sync,      \* per process: [at, stream, since, page, seen, chunk, newest, complete, meta]
    readFaults

artifactVars == <<updated, version, pullTime, written, cursors, sync, readFaults>>

NoStream == [at |-> "rest", stream |-> "reviews", since |-> 0, page |-> 1, seen |-> {},
            chunk |-> {}, newest |-> 0, complete |-> FALSE,
            meta |-> [s \in Streams |-> 0]]

ArtifactInit ==
    /\ updated = [p \in Pulls |-> 0] /\ version = [p \in Pulls |-> 0] /\ pullTime = 1
    /\ written = [s \in Streams |-> [p \in Pulls |-> 0]]
    /\ cursors = [s \in Streams |-> 0]
    /\ sync = [c \in Syncs |-> NoStream]
    /\ readFaults = 0

Changes == FoldFunction(+, 0, version)

-----------------------------------------------------------------------------
(* GitHub.                                                                  *)

\* A pull request is opened or updated, or gets a review.
PullChanges(p) ==
    /\ Changes < MaxUpdates
    /\ updated' = [updated EXCEPT ![p] = pullTime]
    /\ version' = [version EXCEPT ![p] = @ + 1]
    /\ UNCHANGED <<pullTime, written, cursors, sync, readFaults>>

PullClock ==
    /\ pullTime < PullTimeEnd /\ pullTime' = pullTime + 1
    /\ UNCHANGED <<updated, version, written, cursors, sync, readFaults>>

Opened == {p \in Pulls : updated[p] # 0}

\* sort=updated, direction=desc
Preceding(p) == {q \in Opened : updated[q] > updated[p] \/ (updated[q] = updated[p] /\ q > p)}
PageOf(n)    == {p \in Opened : Cardinality(Preceding(p)) \in (n - 1) * PullsPage .. n * PullsPage - 1}

-----------------------------------------------------------------------------
(* One stream of one sync.                                                  *)

\* sync_source: the stream starts from its cursor, or from the floor.
StartStream(c) ==
    /\ sync[c].at = "rest"
    /\ \E s \in Streams :
          sync' = [sync EXCEPT ![c] = [NoStream EXCEPT !.at = "walk", !.stream = s,
                                                      !.since = cursors[s]]]
    /\ UNCHANGED <<updated, version, pullTime, written, cursors, readFaults>>

\* Mutated: the order of the listing, in which each run takes the newest ones.
NewestFirst(x, y) == x.at >= y.at
\* changed.sort: by updated_at alone.
OldestFirst(x, y) == x.at <= y.at

\* GitHubReader.pull_requests: one page; the first item at or below the
\* watermark, a short page or the page bound ends the walk.
ReadPage(c) ==
    /\ sync[c].at = "walk"
    /\ LET n     == sync[c].page
           fresh == {p \in PageOf(n) : updated[p] > sync[c].since}
           found == sync[c].seen \cup {[pull |-> p, at |-> updated[p], version |-> version[p]] :
                                         p \in fresh}
           ended == Cardinality(fresh) < PullsPage \/ Cardinality(Opened) <= n * PullsPage
           bound == n = MaxPullPages
       IN  sync' = [sync EXCEPT ![c] =
             [@ EXCEPT !.seen = found, !.page = n + 1,
                       !.at = IF ended \/ bound THEN "walked" ELSE "walk",
                       \* fetched < max_pages * 100
                       !.complete = ~(bound /\ Cardinality(fresh) = PullsPage)]]
    /\ UNCHANGED <<updated, version, pullTime, written, cursors, readFaults>>

\* _sync_pull_requests: everything is stored, then the watermark is due.
StorePulls(c) ==
    /\ sync[c].at = "walked" /\ sync[c].stream = "pull_requests"
    /\ written' = [written EXCEPT !["pull_requests"] =
         [p \in Pulls |-> IF \E x \in sync[c].seen : x.pull = p
                          THEN Max({x.version : x \in {y \in sync[c].seen : y.pull = p}})
                          ELSE @[p]]]
    /\ sync' = [sync EXCEPT ![c] =
         [@ EXCEPT !.at = IF sync[c].seen # {} /\ sync[c].complete THEN "advance" ELSE "rest",
                   !.newest = Max({x.at : x \in sync[c].seen} \cup {0}), !.seen = {}]]
    /\ UNCHANGED <<updated, version, pullTime, cursors, readFaults>>

\* _sync_reviews: the oldest FanOut of them.
TakeChunk(c) ==
    /\ sync[c].at = "walked" /\ sync[c].stream = "reviews"
    /\ \E batch \in SUBSET sync[c].seen :
          /\ Cardinality(batch) = Min({FanOut, Cardinality(sync[c].seen)})
          /\ \A x \in batch, y \in sync[c].seen \ batch : OldestFirst(x, y)
          /\ sync' = [sync EXCEPT ![c] = [@ EXCEPT !.at = "chunk", !.seen = {}, !.chunk = batch]]
    /\ UNCHANGED <<updated, version, pullTime, written, cursors, readFaults>>

\* The reviews of the next pull request, as they are now.
ReadReviews(c) ==
    /\ sync[c].at = "chunk"
    /\ \E next \in sync[c].chunk :
          /\ \A x \in sync[c].chunk : OldestFirst(next, x)
          /\ written' = [written EXCEPT !["reviews"][next.pull] = version[next.pull]]
          /\ sync' = [sync EXCEPT ![c] = [@ EXCEPT !.chunk = sync[c].chunk \ {next}, !.newest = next.at]]
    /\ UNCHANGED <<updated, version, pullTime, cursors, readFaults>>

EndReviews(c) ==
    /\ sync[c].at = "chunk" /\ sync[c].chunk = {}
    /\ sync' = [sync EXCEPT ![c].at = IF sync[c].newest # 0 /\ sync[c].complete
                                      THEN "advance" ELSE "rest"]
    /\ UNCHANGED <<updated, version, pullTime, written, cursors, readFaults>>

\* _advance: the metadata is read, changed and written back whole.
ReadMetadata(c) ==
    /\ sync[c].at = "advance"
    /\ sync' = [sync EXCEPT ![c] =
         [@ EXCEPT !.at = "commit",
                   !.meta = [cursors EXCEPT ![sync[c].stream] = sync[c].newest - WatermarkOverlap]]]
    /\ UNCHANGED <<updated, version, pullTime, written, cursors, readFaults>>

CommitMetadata(c) ==
    /\ sync[c].at = "commit"
    /\ cursors' = sync[c].meta
    /\ sync' = [sync EXCEPT ![c] = NoStream]
    /\ UNCHANGED <<updated, version, pullTime, written, readFaults>>

\* A request fails - quota, credentials, the network - or the process dies: the
\* stream is over, what was stored stays.
StreamFails(c) ==
    /\ sync[c].at # "rest" /\ readFaults < MaxReadFaults
    /\ readFaults' = readFaults + 1
    /\ sync' = [sync EXCEPT ![c] = NoStream]
    /\ UNCHANGED <<updated, version, pullTime, written, cursors>>

ArtifactNext ==
    \/ \E p \in Pulls : PullChanges(p)
    \/ PullClock
    \/ \E c \in Syncs : \/ StartStream(c) \/ ReadPage(c) \/ StorePulls(c) \/ TakeChunk(c)
                        \/ ReadReviews(c) \/ EndReviews(c) \/ ReadMetadata(c)
                        \/ CommitMetadata(c) \/ StreamFails(c)

ArtifactSpec == ArtifactInit /\ [][ArtifactNext]_artifactVars

-----------------------------------------------------------------------------
(* Properties.                                                              *)

ArtifactTypeOK ==
    /\ \A s \in Streams : cursors[s] \in 0..PullTimeEnd /\ written[s] \in [Pulls -> 0..MaxUpdates]
    /\ \A c \in Syncs : sync[c].page \in 1..(MaxPullPages + 1) /\ Cardinality(sync[c].chunk) <= FanOut

\* _sync_pull_requests, _sync_reviews: a pull request whose last change lies at
\* or below a stream's watermark is never listed again, so the stream has stored
\* that change: whatever moved while it was listed, however the chunks fell and
\* wherever a stream failed.  (For one sync at a time: the store has no version
\* guard, and of two that overlap the slower may write an older page over a newer
\* one that the other's watermark has passed.)
NothingPassedOver ==
    \A s \in Streams, p \in Pulls :
        0 < updated[p] /\ updated[p] <= cursors[s] => written[s][p] = version[p]
=============================================================================
