----------------------------- MODULE WriteBatcher -----------------------------
(* The buffer before the graph: submitters append rows and wait while it is   *)
(* full; a runner flushes the oldest batch when it is large or old enough;    *)
(* callers may flush as well; closing drains it.  Each await is a step.       *)
EXTENDS GraphMerge

CONSTANTS
    Submitters,
    Backlog,             \* per submitter, the rows it will submit
    MaxRows,          \* how many that is
    BatchRows,        \* max_batch_rows
    BatchesHeld,      \* capacity_batches
    MaxAge,           \* max_age_seconds
    WriteAttempts,    \* max_attempts
    MaxFlushes,       \* flushes asked for by a caller
    MaxWriteFailures  \* transactions, or answers, that are lost

\* What a submitter may submit.
Rows == UNION {ToSet(Backlog[s]) : s \in Submitters}

ASSUME BatcherAssumption ==
    /\ {BatchRows, BatchesHeld, MaxAge, WriteAttempts} \subseteq Nat \ {0}
    /\ {MaxFlushes, MaxWriteFailures} \subseteq Nat
    /\ Backlog \in [Submitters -> Seq(Rows)]
    /\ \A r \in Rows : r.kind \in {"node", "edge"} /\ (r.kind = "node" => r.signals \in Nat)

VARIABLES
    sink,       \* is there an on_dead_letter
    buffer,
    age,        \* time left to the deadline of the oldest row, -1 without one
    wake,       \* the event the runner waits on
    closing,    \* "open", "closing", "closed"
    pressured,
    submitter,  \* per submitter: [at, todo]
    runner,     \* [at, nap]: "check", "await" (no rows), "nap", "pause", "flush", "gone"
    flush,      \* the holder of the flush lock: [by, take, attempt]
    flushes,    \* flushes a caller asked for
    faults,     \* transactions or answers lost
    graph,      \* the graph, as the writer's transactions left it
    accepted,   \* history: the rows, in the order they were appended
    handled,    \* history: the rows removed, as batches went to the graph or the DLQ
    deadRows    \* history: rows that a dead letter carried

batcherVars == <<sink, buffer, age, wake, closing, pressured, submitter, runner, flush,
                 flushes, faults, graph, accepted, handled, deadRows>>

Held == BatchRows * BatchesHeld
NoFlush == [by |-> "none", take |-> <<>>, attempt |-> 0]

BatcherInit ==
    /\ sink \in BOOLEAN
    /\ buffer = <<>> /\ age = -1 /\ wake = FALSE /\ closing = "open" /\ pressured = FALSE
    /\ submitter = [s \in Submitters |-> [at |-> "submit", todo |-> Backlog[s]]]
    /\ runner = [at |-> "check", nap |-> 0]
    /\ flush = NoFlush /\ flushes = 0 /\ faults = 0
    /\ graph = EmptyGraph /\ accepted = <<>> /\ handled = <<>> /\ deadRows = {}

-----------------------------------------------------------------------------
(* submit                                                                   *)

Full == Len(buffer) >= Held

\* At capacity: pressure, and a wait on the condition.  A submitter that a flush
\* released and that finds the buffer full again waits on, without pressure.
WaitForRoom(s) ==
    /\ submitter[s].at \in {"submit", "released"} /\ submitter[s].todo # <<>>
    /\ closing = "open" /\ Full
    /\ submitter' = [submitter EXCEPT ![s].at = "waiting"]
    /\ pressured' = IF submitter[s].at = "submit" THEN TRUE ELSE pressured
    /\ UNCHANGED <<sink, buffer, age, wake, closing, runner, flush, flushes, faults, graph,
                   accepted, handled, deadRows>>

\* BatcherClosedError.
Refused(s) ==
    /\ submitter[s].at \in {"submit", "released"} /\ submitter[s].todo # <<>>
    /\ closing # "open"
    /\ submitter' = [submitter EXCEPT ![s] = [at |-> "submit", todo |-> <<>>]]
    /\ UNCHANGED <<sink, buffer, age, wake, closing, pressured, runner, flush, flushes, faults,
                   graph, accepted, handled, deadRows>>

\* The clock starts with the oldest row.
Submit(s) ==
    /\ submitter[s].at \in {"submit", "released"} /\ submitter[s].todo # <<>>
    /\ closing = "open" /\ ~Full
    /\ LET item == Head(submitter[s].todo) IN
       /\ buffer' = Append(buffer, item)
       /\ accepted' = Append(accepted, item)
    /\ submitter' = [submitter EXCEPT ![s] = [at |-> "submit", todo |-> Tail(@.todo)]]
    /\ age' = IF buffer = <<>> THEN MaxAge ELSE age
    /\ wake' = (wake \/ buffer = <<>> \/ Len(buffer) + 1 >= BatchRows)
    /\ UNCHANGED <<sink, closing, pressured, runner, flush, flushes, faults, graph, handled, deadRows>>

-----------------------------------------------------------------------------
(* flush, under its lock                                                    *)

Lock(by) ==
    flush' = [by |-> by, take |-> SubSeq(buffer, 1, IF Len(buffer) < BatchRows THEN Len(buffer)
                                                     ELSE BatchRows), attempt |-> 1]

\* Someone other than the runner flushes.
CallFlush ==
    /\ flush.by = "none" /\ buffer # <<>> /\ flushes < MaxFlushes /\ closing = "open"
    /\ flushes' = flushes + 1
    /\ Lock("caller")
    /\ UNCHANGED <<sink, buffer, age, wake, closing, pressured, submitter, runner, faults, graph,
                   accepted, handled, deadRows>>

\* The runner decided to flush; by the time it has the lock there may be
\* nothing left.
RunnerFlush ==
    /\ runner.at = "flush" /\ flush.by = "none"
    /\ IF buffer = <<>> THEN runner' = [runner EXCEPT !.at = "check"] /\ UNCHANGED flush
       ELSE Lock("runner") /\ runner' = [runner EXCEPT !.at = "flushing"]
    /\ UNCHANGED <<sink, buffer, age, wake, closing, pressured, submitter, flushes, faults, graph,
                   accepted, handled, deadRows>>

\* aclose: with the runner gone, until the buffer is empty.
CloseFlush ==
    /\ closing = "closing" /\ runner.at = "gone" /\ flush.by = "none" /\ buffer # <<>>
    /\ Lock("closer")
    /\ UNCHANGED <<sink, buffer, age, wake, closing, pressured, submitter, runner, flushes, faults,
                   graph, accepted, handled, deadRows>>

\* A whole batch is deleted, however few rows the flush took.
RemoveBatch == SubSeq(buffer, BatchRows + 1, Len(buffer))
\* del self._buffer[: len(take)]
RemoveTaken == SubSeq(buffer, Len(flush.take) + 1, Len(buffer))

\* notify_all
Release == [s \in Submitters |-> IF submitter[s].at = "waiting"
                                 THEN [submitter[s] EXCEPT !.at = "released"] ELSE submitter[s]]

RunnerGoesOn(to) == runner' = IF flush.by = "runner" THEN to ELSE runner

\* The batch left: its rows go, the clock starts anew, submitters are let in.
Flushed ==
    /\ buffer' = RemoveTaken
    /\ handled' = handled \o flush.take
    /\ age' = IF buffer' = <<>> THEN -1 ELSE MaxAge
    /\ submitter' = Release
    /\ pressured' = IF Len(buffer') <= Held \div 2 THEN FALSE ELSE pressured
    /\ flush' = NoFlush
    /\ RunnerGoesOn([at |-> "check", nap |-> 0])
    /\ UNCHANGED <<sink, wake, closing, flushes, accepted>>

\* The transaction commits, and is found whole.
Write ==
    /\ flush.by # "none"
    /\ graph' = Applied(graph, flush.take) /\ Verified(graph', flush.take)
    /\ Flushed
    /\ UNCHANGED <<faults, deadRows>>

\* The transaction or its answer is lost; or it commits and an edge is missing.
AttemptFails ==
    \/ /\ faults < MaxWriteFailures /\ faults' = faults + 1
       /\ graph' \in {graph, Applied(graph, flush.take)}
    \/ /\ graph' = Applied(graph, flush.take) /\ ~Verified(graph', flush.take)
       /\ UNCHANGED faults

RetryWrite ==
    /\ flush.by # "none" /\ flush.attempt < WriteAttempts
    /\ AttemptFails
    /\ flush' = [flush EXCEPT !.attempt = @ + 1]
    /\ UNCHANGED <<sink, buffer, age, wake, closing, pressured, submitter, runner, flushes,
                   accepted, handled, deadRows>>

\* The last attempt, and a dead-letter sink.
DeadLetter ==
    /\ flush.by # "none" /\ flush.attempt = WriteAttempts /\ sink
    /\ AttemptFails
    /\ deadRows' = deadRows \cup ToSet(flush.take)
    /\ Flushed

\* No sink: the rows stay.  The runner sleeps for an age;
\* aclose is over.
FlushFails ==
    /\ flush.by # "none" /\ flush.attempt = WriteAttempts /\ ~sink
    /\ AttemptFails
    /\ flush' = NoFlush
    /\ RunnerGoesOn([at |-> "pause", nap |-> MaxAge])
    /\ IF flush.by = "closer"
       THEN closing' = "closed" /\ submitter' = Release /\ pressured' = FALSE
       ELSE UNCHANGED <<closing, submitter, pressured>>
    /\ UNCHANGED <<sink, buffer, age, wake, flushes, accepted, handled, deadRows>>

-----------------------------------------------------------------------------
(* _run, the age timer                                                      *)

\* Only a full batch is due.
DueWhenLarge == Len(buffer) >= BatchRows
DueNow == age <= 0 \/ Len(buffer) >= BatchRows

RunnerCheck ==
    /\ runner.at = "check"
    /\ \/ /\ closing # "open"
          /\ runner' = [runner EXCEPT !.at = "gone"] /\ UNCHANGED wake
       \/ /\ closing = "open" /\ buffer = <<>>
          /\ runner' = [runner EXCEPT !.at = "await"] /\ UNCHANGED wake
       \/ /\ closing = "open" /\ buffer # <<>> /\ DueNow
          /\ runner' = [runner EXCEPT !.at = "flush"] /\ UNCHANGED wake
       \/ /\ closing = "open" /\ buffer # <<>> /\ ~DueNow
          /\ wake' = FALSE /\ runner' = [at |-> "nap", nap |-> age]
    /\ UNCHANGED <<sink, buffer, age, closing, pressured, submitter, flush, flushes, faults, graph,
                   accepted, handled, deadRows>>

\* The event is set, or a timer has run out; only the first wait clears the
\* event, the second leaves that to the next round.
RunnerWakes ==
    /\ \/ runner.at = "await" /\ wake /\ wake' = FALSE
       \/ runner.at = "nap" /\ (wake \/ runner.nap = 0) /\ UNCHANGED wake
       \/ runner.at = "pause" /\ runner.nap = 0 /\ UNCHANGED wake
    /\ runner' = [at |-> "check", nap |-> 0]
    /\ UNCHANGED <<sink, buffer, age, closing, pressured, submitter, flush, flushes, faults, graph,
                   accepted, handled, deadRows>>

TimePasses ==
    /\ age > 0 \/ runner.nap > 0
    /\ age' = IF age > 0 THEN age - 1 ELSE age
    /\ runner' = [runner EXCEPT !.nap = IF @ > 0 THEN @ - 1 ELSE 0]
    /\ UNCHANGED <<sink, buffer, wake, closing, pressured, submitter, flush, flushes, faults, graph,
                   accepted, handled, deadRows>>

\* aclose: no more rows, the runner is woken and awaited.
Close ==
    /\ closing = "open" /\ closing' = "closing" /\ wake' = TRUE
    /\ UNCHANGED <<sink, buffer, age, pressured, submitter, runner, flush, flushes, faults, graph,
                   accepted, handled, deadRows>>

\* Drained.
Closed ==
    /\ closing = "closing" /\ runner.at = "gone" /\ flush.by = "none" /\ buffer = <<>>
    /\ closing' = "closed" /\ submitter' = Release /\ pressured' = FALSE
    /\ UNCHANGED <<sink, buffer, age, wake, runner, flush, flushes, faults, graph, accepted,
                   handled, deadRows>>

BatcherNext ==
    \/ \E s \in Submitters : WaitForRoom(s) \/ Refused(s) \/ Submit(s)
    \/ CallFlush \/ RunnerFlush \/ CloseFlush
    \/ Write \/ RetryWrite \/ DeadLetter \/ FlushFails
    \/ RunnerCheck \/ RunnerWakes \/ TimePasses \/ Close \/ Closed

\* The event loop runs whatever is ready, timers included; nobody need flush or
\* close.
BatcherProgress ==
    \/ \E s \in Submitters : WaitForRoom(s) \/ Refused(s) \/ Submit(s)
    \/ RunnerFlush \/ CloseFlush \/ Write \/ RetryWrite \/ DeadLetter \/ FlushFails
    \/ RunnerCheck \/ RunnerWakes \/ TimePasses \/ Closed

BatcherSpec == BatcherInit /\ [][BatcherNext]_batcherVars
FairBatcherSpec == BatcherSpec /\ WF_batcherVars(BatcherProgress)

-----------------------------------------------------------------------------
(* Properties.                                                              *)

BatcherTypeOK ==
    /\ Len(buffer) <= Held /\ age \in -1..MaxAge /\ (buffer = <<>> <=> age = -1)
    /\ flush.by \in {"none", "runner", "caller", "closer"} /\ Len(flush.take) <= BatchRows
    /\ runner.nap \in 0..MaxAge /\ closing \in {"open", "closing", "closed"}

\* flush: rows are read by position before the write and deleted by position
\* after it; whatever was appended meanwhile, every row that was accepted has
\* left exactly once, in order, or is still buffered.
EveryRowKept == accepted = handled \o buffer

\* The rows before the n-th bring both ends of the edge.
HasEnds(n) ==
    {accepted[n].from, accepted[n].to} \subseteq
        {r.id : r \in {accepted[i] : i \in {j \in 1..(n - 1) : accepted[j].kind = "node"}}}

Edges == {n \in DOMAIN accepted : accepted[n].kind = "edge"}

InGraph(r) == IF r.kind = "node" THEN r.id \in DOMAIN graph.nodes
                                  ELSE EdgeKey(r) \in DOMAIN graph.edges

\* GraphWriter, _verify, merge_cypher: whatever is lost, retried or replayed, a
\* row that has left the buffer is in the graph or in a dead letter - an edge
\* whose ends nobody brought included - and no node counts a signal twice.  The
\* replay guard knows a node's last batch only: without a sink, rows that stay
\* may come back in another batch and count again.
GraphAgrees ==
    /\ \A n \in DOMAIN handled : handled[n] \in deadRows \/ InGraph(handled[n])
    /\ sink => \A i \in DOMAIN graph.nodes : graph.nodes[i].count <= Signals(accepted, i)

\* _run: every accepted row is written or dead-lettered, however few follow it,
\* unless a closing that met a dead graph left it, or - without a sink - an edge
\* nobody brought the ends of stands before it.
RowsLeave == \A n \in 1..MaxRows :
    Len(accepted) >= n ~> \/ Len(handled) >= n \/ closing = "closed"
                          \/ ~sink /\ \E e \in Edges : ~HasEnds(e)
=============================================================================
