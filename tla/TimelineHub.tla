------------------------------ MODULE TimelineHub ------------------------------
(***************************************************************************)
(* The execution timeline of one investigation on its way to a browser:    *)
(* the in-process hub and the server-sent-event generator of               *)
(* backend/api/v1/stream.py, the Redis relay of workers/runtime/           *)
(* timeline.py that feeds the hub, and the reconnecting client of       *)
(* frontend/src/lib/stream.ts.                                             *)
(*                                                                         *)
(* The run emits events 0 .. Last in order; Last is the terminal one       *)
(* (`done` or `error`).  A connection is a slot: it outlives the client    *)
(* that opened it until the server notices the disconnect, and the frames  *)
(* it sends then reach nobody.  The hub runs on one event loop, so each of *)
(* its methods is one action; the generator can be suspended at each yield *)
(* and at `await subscription.get()`.                                      *)
(***************************************************************************)
EXTENDS Integers, FiniteSets, Sequences

CONSTANTS
  Last,            \* seq of the terminal event
  Unencodable,     \* seqs whose payload json.dumps refuses
  Slots,           \* connections that may exist at once
  MaxSubscribers,  \* MAX_SUBSCRIBERS_PER_INVESTIGATION
  QueueEvents,     \* SUBSCRIBER_QUEUE_EVENTS
  ReplayEvents,    \* REPLAY_BUFFER_EVENTS
  MaxAttempts,     \* MAX_RECONNECT_ATTEMPTS of the client
  MaxDrops,        \* bound: connections the network loses
  MaxForgets,      \* bound: channels pruned, API processes restarted
  MaxRedeliveries, \* bound: events the producer publishes again
  MaxPumpFailures, \* bound: failures of the relay's Redis connection
  None

ASSUME HubAssumption ==
  /\ Last \in Nat /\ Unencodable \subseteq 0 .. Last
  /\ MaxSubscribers \in Nat \ {0} /\ MaxSubscribers <= Cardinality(Slots)
  /\ QueueEvents \in Nat \ {0} /\ ReplayEvents \in Nat \ {0}
  /\ MaxAttempts \in Nat
  /\ {MaxDrops, MaxForgets, MaxRedeliveries, MaxPumpFailures} \subseteq Nat
  /\ None \notin Slots

VARIABLES
  next,        \* the next seq the run emits
  history,     \* _Channel.history
  lastSeq,     \* _Channel.last_seq
  accepted,    \* history: what this channel has accepted
  relay,       \* the pump task: "none", "running" or "dead" (still in _tasks)
  asked,       \* follow() has returned since the pump last stopped
  pc,          \* generator: "free", "resume", "stream" or "held"
  after,       \* after_seq of the connection, -1 without a resume point
  floor,       \* nothing at or below it is owed: after, or the oldest retained
  replay,      \* what is left of the snapshot
  queue,       \* _Subscription._queue
  gap,         \* the range <<from, to>> of evicted events, <<>> when none
  held,        \* event taken from the queue, its gap frame sent first
  last,        \* last_seq of _timeline_frames
  rendered,    \* history: seqs whose own frame the connection was sent
  named,       \* history: seqs a stream.gap frame of the connection named
  client,      \* "waiting" (to connect), "live", "done" or "failed"
  conn,        \* the slot the client reads, or None
  clientSeq,   \* lastSeq of the client
  attempt,
  drops, forgets, redeliveries, pumpFailures

producer == <<next, redeliveries>>
channel  == <<history, lastSeq, accepted>>
pump     == <<relay, asked, pumpFailures>>
sub      == <<pc, after, floor, replay, queue, gap, held, last, rendered, named>>
browser  == <<client, conn, clientSeq, attempt>>
vars == <<next, history, lastSeq, accepted, relay, asked, pc, after, floor,
          replay, queue, gap, held, last, rendered, named, client, conn,
          clientSeq, attempt, drops, forgets, redeliveries, pumpFailures>>

Seqs == 0 .. Last
Subscribers == {k \in Slots : pc[k] # "free"}

TypeOK ==
  /\ next \in 0 .. Last + 1
  /\ history \in UNION {[1 .. n -> Seqs] : n \in 0 .. ReplayEvents}
  /\ lastSeq \in Seqs \cup {-1}
  /\ accepted \subseteq Seqs
  /\ relay \in {"none", "running", "dead"} /\ asked \in BOOLEAN
  /\ pc \in [Slots -> {"free", "resume", "stream", "held"}]
  /\ after \in [Slots -> Seqs \cup {-1}] /\ floor \in [Slots -> Seqs \cup {-1}]
  /\ \A k \in Slots :
       /\ Len(replay[k]) <= ReplayEvents /\ Len(queue[k]) <= QueueEvents
       /\ gap[k] = <<>> \/ gap[k] \in Seqs \X Seqs
  /\ held \in [Slots -> Seqs \cup {-1}] /\ last \in [Slots -> Seqs \cup {-1}]
  /\ rendered \in [Slots -> SUBSET Seqs] /\ named \in [Slots -> SUBSET Seqs]
  /\ client \in {"waiting", "live", "done", "failed"}
  /\ conn \in Slots \cup {None}
  /\ clientSeq \in Seqs \cup {-1} /\ attempt \in 0 .. MaxAttempts

Init ==
  /\ next = 0 /\ redeliveries = 0
  /\ history = <<>> /\ lastSeq = -1 /\ accepted = {}
  /\ relay = "none" /\ asked = FALSE /\ pumpFailures = 0
  /\ pc = [k \in Slots |-> "free"]
  /\ after = [k \in Slots |-> -1] /\ floor = [k \in Slots |-> -1]
  /\ replay = [k \in Slots |-> <<>>] /\ queue = [k \in Slots |-> <<>>]
  /\ gap = [k \in Slots |-> <<>>] /\ held = [k \in Slots |-> -1]
  /\ last = [k \in Slots |-> -1]
  /\ rendered = [k \in Slots |-> {}] /\ named = [k \in Slots |-> {}]
  /\ client = "waiting" /\ conn = None /\ clientSeq = -1 /\ attempt = 0
  /\ drops = 0 /\ forgets = 0

-----------------------------------------------------------------------------
(* The hub: publish and offer.                                             *)

\* offer: a full mailbox loses its oldest event, and the range of what it lost
\* since the generator last asked grows to cover it.
WidenedToLatest(g, s) == <<s, s>>  \* mutant: only the last drop is told
Widened(g, s) ==
  IF g = <<>> THEN <<s, s>>
  ELSE <<IF s < g[1] THEN s ELSE g[1], IF s > g[2] THEN s ELSE g[2]>>

OfferedUnlessFull(k, s) ==  \* mutant: drops the newest
  IF Len(queue[k]) < QueueEvents THEN Append(queue[k], s) ELSE queue[k]

Offered(k, s) ==
  IF Len(queue[k]) < QueueEvents THEN Append(queue[k], s)
  ELSE Append(Tail(queue[k]), s)

GapOfNewest(k, s) ==  \* mutant: records the event that displaced, not the evicted one
  IF Len(queue[k]) < QueueEvents THEN gap[k] ELSE Widened(gap[k], s)
GapAfterOffer(k, s) ==
  IF Len(queue[k]) < QueueEvents THEN gap[k] ELSE Widened(gap[k], Head(queue[k]))

\* The ring: deque(maxlen = ReplayEvents).
RingUnbounded(h, s) == Append(h, s)  \* mutant: a list, not a deque
Ring(h, s) ==
  IF Len(h) < ReplayEvents THEN Append(h, s) ELSE Append(Tail(h), s)

\* publish: an event that does not advance the sequence is refused.
FreshOrNot(s) == TRUE  \* mutant: stale events pass
Fresh(s) == s > lastSeq

Accept(s) ==
  IF Fresh(s)
  THEN /\ history' = Ring(history, s)
       /\ lastSeq' = s
       /\ accepted' = accepted \cup {s}
       /\ queue' = [k \in Slots |-> IF k \in Subscribers THEN Offered(k, s) ELSE queue[k]]
       /\ gap' = [k \in Slots |-> IF k \in Subscribers THEN GapAfterOffer(k, s) ELSE gap[k]]
  ELSE UNCHANGED <<history, lastSeq, accepted, queue, gap>>

\* Redis pub/sub keeps nothing: an event nobody pumps is gone.  A run in the
\* API process itself is one whose relay never stops.
Arrive(s) ==
  /\ IF relay = "running"
     THEN Accept(s)
     ELSE UNCHANGED <<history, lastSeq, accepted, queue, gap>>
  /\ UNCHANGED <<pump, pc, after, floor, replay, held, last, rendered, named,
                 browser, drops, forgets>>

Emit ==
  /\ next <= Last
  /\ next' = next + 1
  /\ Arrive(next)
  /\ UNCHANGED redeliveries

Redeliver ==       \* a worker retry, an at-least-once transport
  /\ redeliveries < MaxRedeliveries
  /\ redeliveries' = redeliveries + 1
  /\ \E s \in Seqs : s < next /\ Arrive(s)
  /\ UNCHANGED next

-----------------------------------------------------------------------------
(* TimelineRelay.                                                          *)

\* follow is a no-op while the investigation has an entry in _tasks, and the
\* task of a pump that failed keeps its entry.
Follow ==
  /\ relay' = IF relay = "none" THEN "running" ELSE relay
  /\ asked' = TRUE
  /\ UNCHANGED <<producer, channel, pumpFailures, sub, browser, drops, forgets>>

Unfollow ==
  /\ relay # "none"
  /\ relay' = "none" /\ asked' = FALSE
  /\ UNCHANGED <<producer, channel, pumpFailures, sub, browser, drops, forgets>>

PumpFails ==
  /\ relay = "running" /\ pumpFailures < MaxPumpFailures
  /\ pumpFailures' = pumpFailures + 1
  /\ relay' = "dead" /\ asked' = FALSE
  /\ UNCHANGED <<producer, channel, sub, browser, drops, forgets>>

-----------------------------------------------------------------------------
(* The hub forgets.                                                        *)

EmptyChannel == history' = <<>> /\ lastSeq' = -1 /\ accepted' = {}

Closed(ks) ==      \* _Subscription.close, with the generator's frame gone
  /\ pc' = [k \in Slots |-> IF k \in ks THEN "free" ELSE pc[k]]
  /\ after' = [k \in Slots |-> IF k \in ks THEN -1 ELSE after[k]]
  /\ floor' = [k \in Slots |-> IF k \in ks THEN -1 ELSE floor[k]]
  /\ replay' = [k \in Slots |-> IF k \in ks THEN <<>> ELSE replay[k]]
  /\ queue' = [k \in Slots |-> IF k \in ks THEN <<>> ELSE queue[k]]
  /\ gap' = [k \in Slots |-> IF k \in ks THEN <<>> ELSE gap[k]]
  /\ held' = [k \in Slots |-> IF k \in ks THEN -1 ELSE held[k]]
  /\ last' = [k \in Slots |-> IF k \in ks THEN -1 ELSE last[k]]
  /\ rendered' = [k \in Slots |-> IF k \in ks THEN {} ELSE rendered[k]]
  /\ named' = [k \in Slots |-> IF k \in ks THEN {} ELSE named[k]]

\* _prune, run by the publish of another investigation once this channel has
\* been idle for its retention.
Prune ==
  /\ Subscribers = {} /\ history # <<>> /\ forgets < MaxForgets
  /\ forgets' = forgets + 1
  /\ EmptyChannel
  /\ UNCHANGED <<producer, pump, sub, browser, drops>>

\* scheduleReconnect
Retry ==
  /\ conn' = None
  /\ IF attempt >= MaxAttempts
     THEN client' = "failed" /\ UNCHANGED attempt
     ELSE client' = "waiting" /\ attempt' = attempt + 1
  /\ UNCHANGED clientSeq

\* The API process restarts; the run goes on in a worker of its own.
Restart ==
  /\ forgets < MaxForgets
  /\ forgets' = forgets + 1
  /\ EmptyChannel /\ Closed(Slots)
  /\ relay' = "none" /\ asked' = FALSE
  /\ IF client = "live" THEN Retry ELSE UNCHANGED browser
  /\ UNCHANGED <<producer, pumpFailures, drops>>

-----------------------------------------------------------------------------
(* The client and its connection.                                          *)

\* The events of the ring after seq s: the ring ascends, so they are its end.
Above(h, s) ==
  LET first == CHOOSE i \in 1 .. Len(h) + 1 :
                 /\ \A j \in 1 .. i - 1 : h[j] <= s
                 /\ i <= Len(h) => h[i] > s
  IN SubSeq(h, first, Len(h))

\* subscribe, with Last-Event-ID once the client has rendered something.
Snapshot == Above(history, clientSeq)

\* _resume_gap
EvictedOffByOne == history # <<>> /\ clientSeq + 2 < Head(history)  \* mutant
Evicted == history # <<>> /\ clientSeq + 1 < Head(history)

Open(k) ==
  /\ client = "waiting" /\ pc[k] = "free"
  /\ Cardinality(Subscribers) < MaxSubscribers
  /\ after' = [after EXCEPT ![k] = clientSeq]
  /\ floor' = [floor EXCEPT ![k] =
                 IF clientSeq = -1 /\ history # <<>> THEN Head(history) - 1 ELSE clientSeq]
  /\ replay' = [replay EXCEPT ![k] = Snapshot]
  /\ pc' = [pc EXCEPT ![k] = IF clientSeq # -1 /\ Evicted THEN "resume" ELSE "stream"]
  /\ client' = "live" /\ conn' = k /\ attempt' = 0
  /\ UNCHANGED <<producer, channel, pump, queue, gap, held, last, rendered,
                 named, clientSeq, drops, forgets>>

\* RateLimitedError becomes a 429, and the client retries no 4xx.
Refused ==
  /\ client = "waiting" /\ Cardinality(Subscribers) >= MaxSubscribers
  /\ client' = "failed"
  /\ UNCHANGED <<producer, channel, pump, sub, conn, clientSeq, attempt, drops, forgets>>

ConnectFails ==    \* fetch throws, or a 5xx
  /\ client = "waiting" /\ drops < MaxDrops
  /\ drops' = drops + 1
  /\ Retry
  /\ UNCHANGED <<producer, channel, pump, sub, forgets>>

Drop ==
  /\ client = "live" /\ drops < MaxDrops
  /\ drops' = drops + 1
  /\ Retry
  /\ UNCHANGED <<producer, channel, pump, sub, forgets>>

\* The server notices: http.disconnect, a send timeout, a cancelled generator.
Reap(k) ==
  /\ k \in Subscribers /\ conn # k
  /\ Closed({k})
  /\ UNCHANGED <<producer, channel, pump, browser, drops, forgets>>

\* dispatch of the client: stale events are ignored, and only an event's own
\* frame carries an id.
ClientReads(k, s) ==
  IF conn = k /\ s > clientSeq
  THEN /\ clientSeq' = s
       /\ client' = IF s = Last THEN "done" ELSE client
       /\ conn' = IF s = Last THEN None ELSE conn
       /\ UNCHANGED attempt
  ELSE UNCHANGED browser

-----------------------------------------------------------------------------
(* _timeline_frames.                                                       *)

\* _render: an event that cannot be encoded becomes a gap frame, which has no
\* id; the terminal one becomes a synthetic error instead.
AsGap(s) == s \in Unencodable /\ s # Last

\* The next event to encode: -1 while there is none, or a gap to tell first.
Due(k) ==
  CASE pc[k] = "held" -> held[k]
    [] pc[k] = "stream" /\ replay[k] # <<>> -> Head(replay[k])
    [] pc[k] = "stream" /\ replay[k] = <<>> /\ queue[k] # <<>> /\ gap[k] = <<>> -> Head(queue[k])
    [] OTHER -> -1

\* Events of the queue that the replay already delivered are skipped.
Encode(k) ==
  LET s == Due(k)
      skip == replay[k] = <<>> /\ s <= last[k]
  IN /\ s # -1 /\ (skip \/ s # Last)
     /\ IF skip \/ ~AsGap(s) THEN UNCHANGED named
        ELSE named' = [named EXCEPT ![k] = @ \cup {s}]
     /\ IF skip \/ AsGap(s) THEN UNCHANGED <<rendered, browser>>
        ELSE rendered' = [rendered EXCEPT ![k] = @ \cup {s}] /\ ClientReads(k, s)
     /\ last' = [last EXCEPT ![k] = IF skip THEN @ ELSE s]
     /\ UNCHANGED <<producer, channel, pump, after, floor, gap, drops, forgets>>

SendReplay(k) ==
  /\ pc[k] = "stream" /\ replay[k] # <<>>
  /\ Encode(k)
  /\ replay' = [replay EXCEPT ![k] = Tail(@)]
  /\ UNCHANGED <<pc, queue, held>>

Take(k) ==
  /\ pc[k] = "stream" /\ replay[k] = <<>> /\ queue[k] # <<>> /\ gap[k] = <<>>
  /\ Encode(k)
  /\ queue' = [queue EXCEPT ![k] = Tail(@)]
  /\ UNCHANGED <<pc, replay, held>>

\* get() and take_gap() run with no await between them; what was dropped is
\* told before the event that survived it.
TakeGap(k) ==
  /\ pc[k] = "stream" /\ replay[k] = <<>> /\ queue[k] # <<>> /\ gap[k] # <<>>
  /\ named' = [named EXCEPT ![k] = @ \cup (gap[k][1] .. gap[k][2])]
  /\ gap' = [gap EXCEPT ![k] = <<>>]
  /\ held' = [held EXCEPT ![k] = Head(queue[k])]
  /\ queue' = [queue EXCEPT ![k] = Tail(@)]
  /\ pc' = [pc EXCEPT ![k] = "held"]
  /\ UNCHANGED <<producer, channel, pump, after, floor, replay, last, rendered,
                 browser, drops, forgets>>

SendHeld(k) ==
  /\ pc[k] = "held"
  /\ Encode(k)
  /\ pc' = [pc EXCEPT ![k] = "stream"]
  /\ held' = [held EXCEPT ![k] = -1]
  /\ UNCHANGED <<replay, queue>>

\* The terminal event is sent, the generator returns, its `finally` closes.
End(k) ==
  /\ Due(k) = Last /\ last[k] < Last
  /\ Closed({k})
  /\ ClientReads(k, Last)
  /\ UNCHANGED <<producer, channel, pump, drops, forgets>>

SendResumeGap(k) ==
  /\ pc[k] = "resume"
  /\ named' = [named EXCEPT ![k] = @ \cup (after[k] + 1 .. Head(replay[k]) - 1)]
  /\ pc' = [pc EXCEPT ![k] = "stream"]
  /\ UNCHANGED <<producer, channel, pump, after, floor, replay, queue, gap, held,
                 last, rendered, browser, drops, forgets>>

Generator(k) ==
  SendResumeGap(k) \/ SendReplay(k) \/ Take(k) \/ TakeGap(k) \/ SendHeld(k) \/ End(k)

Stopped ==         \* a run that has ended, and a page that reads no more
  /\ client \in {"done", "failed"} /\ next > Last /\ Subscribers = {}
  /\ UNCHANGED vars

Next ==
  \/ Emit \/ Redeliver
  \/ Follow \/ Unfollow \/ PumpFails
  \/ Prune \/ Restart
  \/ Refused \/ ConnectFails \/ Drop
  \/ \E k \in Slots : Open(k) \/ Reap(k) \/ Generator(k)
  \/ Stopped

Spec == Init /\ [][Next]_vars

\* The run proceeds, the event loop runs every task, the client's timer fires.
FairSpec ==
  /\ Spec
  /\ WF_vars(Emit) /\ WF_vars(\E k \in Slots : Open(k))
  /\ \A k \in Slots : WF_vars(Generator(k)) /\ WF_vars(Reap(k))

-----------------------------------------------------------------------------
(* Properties.                                                             *)

Elements(q) == {q[i] : i \in 1 .. Len(q)}
GapRange(k) == IF gap[k] = <<>> THEN {} ELSE gap[k][1] .. gap[k][2]
Owed(k)     == IF pc[k] = "resume" THEN after[k] + 1 .. Head(replay[k]) - 1 ELSE {}
Pending(k)  == Elements(replay[k]) \cup Elements(queue[k]) \cup ({held[k]} \ {-1})

\* A drop is reported, never silent: every event the hub accepted above the
\* point a connection starts from was sent to it, or named in a gap frame, or
\* still waits in its snapshot, its mailbox or an untold gap.  In particular
\* drop-oldest, ring eviction and the snapshot/mailbox boundary lose nothing.
NothingSilentlyDropped ==
  \A k \in Subscribers : \A s \in accepted :
    s > floor[k] => s \in rendered[k] \cup named[k] \cup GapRange(k) \cup Owed(k) \cup Pending(k)

\* A gap frame never names an event the connection was sent or will be sent
\* (an event that cannot be encoded is named once it is reached).
GapsAreGaps ==
  \A k \in Subscribers :
    /\ named[k] \cap (rendered[k] \cup (Pending(k) \ Unencodable)) = {}
    /\ GapRange(k) \cap (rendered[k] \cup Pending(k)) = {}

\* What is still to be sent comes after what was sent, each range of drops
\* before the event that survived it: a client never sees the order go back.
OrderKept ==
  \A k \in Subscribers :
    LET rest == replay[k] \o (IF held[k] = -1 THEN <<>> ELSE <<held[k]>>) \o queue[k] IN
      /\ \A i, j \in 1 .. Len(rest) : i < j => rest[i] < rest[j]
      /\ \A i \in 1 .. Len(rest) : rest[i] > last[k]
      /\ \A g \in GapRange(k), s \in Elements(queue[k]) : g < s
      /\ \A g \in GapRange(k), s \in Elements(replay[k]) : g > s

\* stream.py, stream.ts: a connection is shown every accepted event above its start
\* in order, or told of it before a later one; what it is told of it is not shown;
\* and a page that reconnects goes on where it was: evictions, full mailboxes, lost
\* frames and restarts leave no other trace.
ReaderOf(k) ==
  [open |-> pc[k] # "free", start |-> IF pc[k] = "free" THEN -1 ELSE floor[k],
   shown |-> rendered[k], told |-> named[k]]
reading == [k \in Slots |-> ReaderOf(k)]
F == INSTANCE Feed WITH Readers <- Slots, position <- clientSeq, reader <- reading
ImplementsFeed == F!Spec

\* While the hub hears the run from its first event on and forgets nothing, a
\* page that watches is told how it ended, or says that it gave up, although
\* mailboxes overflow and connections break.
StreamCloses ==
  [](forgets = 0 /\ (next > 0 => relay = "running"))
    => <>(client \in {"done", "failed"})
=============================================================================
