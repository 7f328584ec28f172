# OmniSense: a TLA+ verification of its runtime

OmniSense pulls records from workplace and research tools into an event
pipeline, indexes them and grows a graph from them, and answers questions with
investigations that a graph of LLM agents drives. This directory models the
parts whose correctness lies in interleavings, failures and resumption, checks
them with TLC on small instances and proves the main results with TLAPS for all
instances. Paths below are relative to `src/`.

## 1. Inventory

| Component | State it keeps | Operations | What is hard |
|---|---|---|---|
| Event consumer, `services/events/consumer.py` | fetch position, batch, marks to commit; broker: offsets, assignment | fetch, deliver with retries, park in the DLQ, commit, rewind | crash between handler and commit, rebalance in a batch, failed or half-recorded commit, poison messages |
| Worker runtime, `workers/runtime/base_worker.py`, `health.py` | event, flags of health, three tasks, the client's membership | setup, join, batch, nap, drain, cut, teardown | a signal during start or drain, a deadline that races the batch, a task that outlives what it uses |
| Timeline stream, `backend/api/v1/stream.py`, `workers/runtime/timeline.py`, `frontend/src/lib/stream.ts` | ring of events per run, mailbox and gap per subscriber, relay task | publish, subscribe, replay, evict, tell a gap, resume, prune | full mailbox, resume behind the ring, relay failure, reconnect storm |
| Investigation service, `services/investigation_service.py` | one row: status, stamps, plan, step count, tokens; its steps | create, transition, record_plan, append_step, step transitions | reads that are stale when the write happens |
| Investigation worker, `workers/investigation_worker.py` | task per run, sequence numbers | claim, drive, emit, finish | cancellation against the drive, death after the claim, a raise after events |
| Agent graph, `agents/graph.py`, `agents/router.py` | the run's state: plan, errors, steps, tokens, critiques, status | guard, run a node, halt, count, stamp, route | Critic loop, deadline between edge and node, failing exit path |
| Agent base class and model router, `agents/base.py`, `agents/errors.py`, `services/llm/router.py` | the run's booked tokens; budget, ledger and tier of a node | seed, check, call, shed, retry, book, cancel | what a retry, a shed tier or an exit node may still spend |
| Connector runtime, `connectors/base.py`, `services/connector_service.py`, `connectors/dedup` | cursor row, seen-set, one drain per run | begin, fetch, normalise, archive, publish, commit, retry, stop | failure between the acknowledgement and the cursor, overlapping runs, late-indexed changes, dedup against replay |
| Salesforce, GitHub, `connectors/enterprise` | pager state inside the cursor | fetch a page, descend, park, promote, step over a full second | a list that changes while it is paged; a record of losses that is itself cut |
| Rate limiter, backoff, breaker, `connectors/ratelimit` | buckets in Redis, a local fallback, a circuit per account | acquire, give back, observe; check, record, retry | late scripts, a Redis that fails between two buckets, many probes |
| Credentials, `connectors/auth` | token per account, the store's lock | read, mint, save, invalidate | a 401 for an older token, an answer lost after the provider rotated |
| Artifact sync, `services/artifact_sync.py`, `connectors/github/reader.py` | watermark per stream, stored artifacts | page, store, chunk reviews, advance | a list that moves, failures between store and watermark |
| Signal engine and pipeline workers, `services/signal_engine`, `workers/*_worker.py` | the Signal's row, stamps, two indexes, due messages | enrich, store, announce, index, withdraw, stamp, sweep | a row that changes between a read, a write elsewhere and a stamp |
| Graph ingest, `graph/ingest` | buffer, event, dead letters; nodes and edges | submit, flush, retry, drain, close; MERGE | rows taken by position, replays that count twice, waiters |
| Entity resolution, `graph/resolution` | live records, forbidden pairs, snapshots | block, score, cluster, refine, elect, merge, un-merge | merges of merges, late arrivals, corrections |
| Temporal validity, `graph/temporal/validity.py` | a history per edge, contradictions | merge assertions | overlaps, ties, claims that nest |
| Schema migrator, `graph/schema/migrator.py` | the record node, executed statements | discover, check, execute, record | two migrators, deaths, edited files, lost acknowledgements |
| Retrieval, memory, LLM cache, project services | indexes, scratchpad, cache, features | search, fuse, chunk; remember; derive | pure ranking; an index swap; single flight |
| Event producer, scheduler, DLQ replay, API, models, CLI, storage, frontend, infrastructure | - | - | see section 6 |

`PROJECT.json` lists every component, with the reason where there is no module,
and the hazards, each at its line, with the properties that would catch it.

**How they interact.** Connectors publish to the raw topic, and consumer groups
of workers carry records through topics to the rows, the two indexes and the
graph. A request creates an investigation row; a worker replica polls and claims
it, drives the agent graph, writes the end to the row and emits events; the
relay brings those to the hub of the API process, which streams them to the
browser. A request may cancel the row at any time; nothing tells the worker or
the graph. Every worker runs inside `BaseWorker`, every connector behind the
limiter, the circuit and the token of its account, and every agent behind
`BaseAgent`, its budget and the model router.

**What makes each correct.** *Consumer*: at-least-once, in partition order, no
committed offset past an unsettled message, none out of sight, no poison message
in the way. *Worker*: what setup opened is closed after whatever uses it, and a
stop is heeded. *Stream*: an event reaches the client or is named in a gap,
order never goes back, the stream closes. *Row*: only legal moves, stamps that
agree with the status, dense steps. *Investigation worker*: one driver, the
stream agrees with the row, the run ends. *Graph*: the loop and the resources
are bounded, a truncated run says why, the run rests. *Model calls*: the run's
ceiling is overshot by one call at most. *Connectors and walks*: a change is
settled or within reach of the next run; watermarks do not go back or pass over
what was not read. *Limiter, circuit, token*: no more grants than one bucket
would give; one failure per run before a broken account is cut off again; a
rotated refresh token is sent once. *Derived stores*: at rest they agree with
the row, which says so. *Batcher*: an accepted row leaves once, in order, and
leaves at last; a retry does not count twice. *Resolution*: an absorbed id leads
to one live, older entity. *Validity*: nothing a source said vanishes without a
contradiction. *Migrator*: the record is the truth.

## 2. Modules

```
Delivery  <--refines--  EventConsumer          <- MCEventConsumer, EventConsumer_proofs
Feed      <--refines--  TimelineHub            <- MCTimelineHub, TimelineHub_proofs
RunRecord <--refines--  InvestigationRun       <- MCInvestigationRun, Investigation_proofs
InvestigationService  <- InvestigationRun, MCPlatform
ConnectorRuntime      <- SalesforceSync        <- MCSalesforceSync, SalesforceSync_proofs
GraphMerge            <- WriteBatcher
SignalFanOut                                   <- MCSignalFanOut
AgentGraph                                     <- Investigation_proofs
GitHubSync, ArtifactSync                       <- Pagers_proofs
TokenBucket, CircuitBreaker, TokenRefresh, ModelCalls          <- Clients_proofs
WorkerLifecycle, SignalFanOut, SchemaMigrator                  <- Workers_proofs
WriteBatcher, TemporalValidity, EntityResolution               <- KnowledgeGraph_proofs

MCDraining  = EventConsumer | WriteBatcher | AgentGraph | WorkerLifecycle
MCPlatform  = TokenBucket | CircuitBreaker | TokenRefresh | ArtifactSync | SignalFanOut
            | EntityResolution | InvestigationService | AgentGraph | SchemaMigrator
            | TemporalValidity | ModelCalls | GitHubSync
```

`MCDraining` and `MCPlatform` put components that share no state into one run:
a variable `part`, chosen in the initial state, says which of them moves, and
the others rest. Each behaviour is thus a behaviour of one component, and the
run explores each of them in full; nothing is claimed about two together.
`MCDraining` holds those that promise progress, `MCPlatform` the rest.

### Delivery of records

- **EventConsumer**: a group of processes over external broker state. `Fetch`,
  `Begin`, `Handle`, `HandlerFails`, `Park`, `Block`, `SendCommit`, `CommitOk`,
  `CommitFails` are the awaits of `run_once` and its helpers; `Crash`,
  `Start`, `Rebalance` come from outside. `settled` is a history variable.
  aiokafka's eager rebalance is external: positions restart from the committed
  offsets, and `seek` and `commit` refuse a partition that is gone. That
  `_rewind`, which can stop at the first such partition, leaves nothing behind
  depends on it. `Delivery` is the abstract promise - settle a message, commit
  an offset below which all are settled - and `ImplementsDelivery` the
  refinement (`D == INSTANCE Delivery WITH ...`).
- **WorkerLifecycle**: `run`, the task of `_work` and the task that refreshes the
  gauges are three coroutines of one loop; a step of one ends at its next await.
  `RequestShutdown` comes between any two steps, any number of times. `member`
  is the Kafka client's membership, `left` the time each deadline has. A
  cancelled task ends where it awaits: `Cut`, `CutIsOver`, `Unwound`.
- **ConnectorRuntime**: the template of `base.py` (overlap, guard of the
  watermark, budget), the drain of `connector_service.py` (archive, publish,
  commit after the acknowledgement, retry envelope) and the seen-set, over a
  provider whose changes become queryable with a lag. `SalesforceSync` adds the
  pager.
- **GitHubSync**: one stream of one repository. `AskIssues` walks `updated_at`
  upwards with `since` and steps over a full second, which `SteppedOver` marks:
  the mark is appended, a second time when the overlap window reads that second
  again, and only the last `MaxMarks` stay (`_advance_since`); `Descend` reads discussions
  newest first down to the floor, the end, or the budget; `Publish` and `Keep`
  hand the pages back oldest first and keep each one's cursor, which `Handed`
  computes; `CutCrawl` ends a run anywhere. `Replicate` is a read replica that
  lags. `shown` is what the provider answers with; `settled` (published as shown),
  `torn` (dropped by a cut above the token it kept) and the state's `dropped`
  (seconds whose last mark was cut) are history variables.
- **ArtifactSync**: `StartStream`, `ReadPage`, `StorePulls`, `TakeChunk`,
  `ReadReviews`, `EndReviews`, `ReadMetadata`, `CommitMetadata`, `StreamFails`
  are the awaits of `_sync_stream`; pull requests change at any of them. A page is
  what has so many before it in the list (`PageOf`), so that one more at the top
  moves every page.
- **SignalFanOut**: `Enrich`, `Store`, `Announce` of two pipelines with different
  versions; per consumer group a number of due messages, so that order is
  lost between them; `Load`, `Demote`, `IndexKeyword`, `StampKeyword`, `IndexVector`,
  `FinishIndex` are the index worker's awaits; `HandleGraph`, and `ClaimPending`
  with `StampTimesOut` for the backfill worker and the lock it holds. The keyword
  index is written and deleted from with `refresh=False`: `unseen` holds the
  chunks written since its last refresh, which comes at any time (`IndexRefresh`).
  `delete_by_query` with `conflicts="proceed"` works over what that refresh showed
  and leaves the unseen ones (`Unreached`); `missed` remembers which.
- **WriteBatcher** over **GraphMerge**: `Submit`, `WaitForRoom`, the three who
  flush (`CallFlush`, `RunnerFlush`, `CloseFlush`), `Write` with its lost
  answers, `DeadLetter`, and the runner's naps against the event that submitters
  set and waiters clear. `GraphMerge` is what one transaction does: nodes before
  edges, one row per identity, the replay guard, the span.

### What calls a provider

- **TokenBucket**: `Acquired`, `Released`, `Clamped` are the three scripts, each
  atomic; the time a script runs with was read before it (`Times`). `acquire` on
  several buckets takes them one by one and gives back what it took; any script
  may fail, which degrades the caller to its own fallback.
- **CircuitBreaker**: `retry_page` of several runs behind one circuit; attempts,
  delays (`Delays` is the set jitter may choose from) and the budget.
- **TokenRefresh**: `Ask`, `FindMinted`, `RequestToken`, `SaveMinted`,
  `AnswerLost`, `Invalidate` over a provider that keeps or rotates its refresh tokens.
- **ModelCalls**: `EnterNode` seeds the budget of a node with what the run has
  booked, `SendCall` checks it and may shed a tier, `Answered` charges budget
  and ledger, `Overloaded` walks down the ladder, `RetryOrBook` is the retry
  policy around the whole of `execute`, `Book` the delta, and `TimesOut` the
  slice that takes the ledger with it. Tokens read from a provider's cache are
  free in both accounts and left out.

### Investigations

- **TimelineHub**: the hub's methods are atomic (one event loop); the generator
  of each connection is suspended at each frame and at `get()`. The client
  reconnects with its last sequence number and gives up after its attempts.
  `Feed` is the abstract promise to a page: events accepted in order, and per
  connection the ones shown and the ones told of as dropped, never one before all
  that lies between is known; `ImplementsFeed` forgets rings, snapshots,
  mailboxes, the event in hand, the relay and the network.
- **InvestigationService**: each method is a read, which may refuse, and a
  later write (READ COMMITTED). `transition` writes under compare-and-swap,
  `append_step` under the unique sequence; the step methods write by id.
- **InvestigationRun** extends it: `Claim`, `Begin`, `NodeDone`, `GraphEnds`,
  `Raise`, `FinishOk`, `EmitDone`, `FinishFailed`, `EmitError`, `Die`, and
  `Cancel` through the service. The hub is its last sequence number and end.
  `RunRecord` is what remains for who started the run: one result that nothing
  rewrites, and a stream that only goes forward, ends once and ends with it. That
  a result may replace a cancellation is in it, because the code does that
  (`run_end_is_final`).
- **AgentGraph**: one superstep of the wrapped graph is one action. `Answer`,
  `Fail`, `TimeOut` run a node, apply `RecordHalt`, `Count`, `StampStatus` and take
  the `Route`; `Skip` is a node whose guard fired at its entry; `Wait` lets
  time pass between edge and entry. Time counts in ticks of which
  `MIN_NODE_TIMEOUT_SECONDS` is one; tokens are one bit (the budget is spent).
  What a node may answer is the set `Critiques` and `Plans`.

### Derived knowledge

- **EntityResolution**: a pass is `Resolve`, which takes the components of the
  accepted pairs, `Join` for each step of `refine_component`, and `Build` for
  each cluster it leaves (`Survivor`, `MergeInto`, a log entry with the members'
  snapshots); the pairs' evidence is a constant choice per behaviour. Components
  and clusters are worked off in the order of their least ids, as the code sorts
  them. `Arrive` is a late record. `Unmerge` takes the record of any merge, however
  old, and any part of its members: it puts their snapshots back and folds the
  others again into the canonical snapshot, whatever has happened to either since, as
  `unmerge` does; the record stays as it was. Nothing in the source calls `unmerge`
  or applies its plan: that every plan is applied as it stands is the model's.
  `standing` (the members a merge still holds) and `strayed` (an un-merge was not
  of an outermost one) are history variables. Similarities are in percent.
- **TemporalValidity**: the next claim is the one that sorts before all the others
  (`SortsFirst`); `Fold` `Absorb`s it into the last interval, in the cases of the
  code: meet, extend, contradict, shorten, drop.
- **SchemaMigrator**: `Discover`, `ReadRecord`, `Execute`, `CutShort`, `Merge`,
  `Record`, `RecordUnheard` of several migrators, over version files that `Change`.
  The query that records is two steps, for Neo4j reads what is committed and
  locks a node when it is first written to: `Merge` finds the nodes there are, or
  none, and reads `is_new`; the `SET` and the commit come later. No constraint
  covers `_SchemaVersion`, so that two that found none create two. `overlapped` is
  history: two such queries were under way at once.

Small mutated operators, marked as such, stand next to some definitions: they
are the plausible bugs the properties are shown to detect.

## 3. Runs

| Run | Checks | Instance | States |
|---|---|---|---|
| event_consumer | NoLoss, NothingSkipped, NothingUncommitted, ImplementsDelivery | 2 consumers, 2 partitions x 2 messages, batch 2, 2 attempts, one poison, one garbled, 1 crash, 1 rebalance | 1.8 M |
| draining | DrainingTypeOK, EveryRowKept, GraphAgrees, DrainIsClean, PartitionsEnd, RowsLeave, RunsEnd, StopIsHeeded | consumer: 1 partition x 3; batcher: 2 submitters, 4 rows, batch 2, 1 failure; graph: 2 plans, 3 critiques; worker: drain 2, both kinds | 85 k |
| timeline_hub | TypeOK, NothingSilentlyDropped, GapsAreGaps, ImplementsFeed, StreamCloses | 4 events (one not encodable), mailbox 1, ring 2, 2 connections, 2 network drops, 1 each of forget, redelivery, pump failure | 650 k |
| investigation_run | OneDriver, ImplementsRecord, RunEnds | 2 replicas, 2 cancelling requests, 3 nodes, 1 death | 12 k |
| salesforce_sync | TypeOK, StillReachable, WatermarkForward, CaughtUp | 2 records, 3 ticks, page 1, 3 pages, 2 attempts, 2 faults | 500 k |
| platform | PlatformTypeOK, GrantsBounded, ProbesBounded, RefreshSpentOnce, NothingPassedOver, NothingBuried, QuietIsIndexed, IdsLeadHome, HistoryIsAuditable, RecordIsTrue, ColumnsAgree, StepsDense, LegalMoves, WithinLimits, CutIsTold, SpendBounded | twelve components, see below | 3.4 M |

Six runs expect a violation; each shows a disagreement between the code and
what it says of itself, quoted in `PROJECT.json` under findings:

- *run_end_is_final*: a cancelled run that is still driven ends as completed.
- *run_returned_is_told*: the terminal error of a run that raises after its
  first node is refused by the hub, because `_drive` holds an old number.
- *emitted_below*: a resumed descent of discussions that is truncated again, and
  cut after it has handed over its oldest page, leaves its newer pages above the
  token and below what the run that completes makes the watermark: they are never
  read again.
- *duplicates_were_published*: the dedup key is marked before the publish, so
  the replay of a failed page is dropped as duplicates and its records lost.
- *withdrawn_is_gone*: a Signal is demoted before the index was refreshed: the
  deletion does not see its newest chunks, its count of deleted documents and of
  conflicts is only logged, the row is stamped, and no sweep returns it.
- *swept_is_stamped*: the backfill worker stamps a row through a second session
  while its first one holds the row's lock, so the stamp times out and the
  sweep returns the same row for ever.

**The platform's instance.** *Limiter*: 2 clients, 2 buckets in one acquire, capacity
2, refill 2, scripts up to 1 tick late, 3 calls, 2 faults, 2 ticks. *Circuit*: 2 runs,
threshold 3, open for 2, 6 ticks. *Token*: 3 coroutines, lifetimes 0, 1 and 3,
3 mints. *Artifacts*: 3 pull requests, pages of 1, 3 pages, chunks of 1, 4
changes over 2 ticks, 1 failure. *Fan-out*: 1 Signal, 2 pipelines, 3 texts of 0 to 2 chunks,
2 records, 1 failure. *Resolution*: 4 records (one arrives late), 3 blocks, 2
passes, 2 un-merges of any merge, every assignment of evidence to the candidate pairs. *Row*: 2 callers, 2 steps. *Graph*: 14 steps, 2
revisions, 3 ticks, 3 plans, 7 critiques. *Migrator*: 2 migrators, 3 versions, 2
statements, 1 edited file, 1 lost acknowledgement. *Validity*: any 3 of 54
claims. *Calls*: ceiling 8, answers of 0 to 3, 2 attempts, 5 nodes. *GitHub*: 3 topics, pages
of 1, 3 pages per run, no replica lag, window 1, 2 marks, 3 ticks. `emitted_below` takes
4 topics, the fewest for which two truncated descents and a remainder below them
leave a page behind, with no lag and a window of 1.

**Why the bounds are enough.** Two of each actor suffice for every race of the
code: no decision depends on a third. A consumer's batch holds two messages so that one
can fail in front of or behind another; the mailbox (1) is smaller than the
ring (2), which is smaller than the run (4), so that each of eviction, resume
gap and replay occurs; 14 steps admit one complete rewrite from the Retriever
and cut the second, and the 9-step plan exceeds the budget; three ticks
put a revision inside and outside an overlap of one. A threshold of 3 with 2
runs needs failures of both; the walks have more entries than a page and more
pages than a run may ask; four records are the fewest for which two
components of a pass can meet in the next; three claims nest, overlap and meet
in every order; pages of 1 make every second of the issues walk a full one, a run
steps over more of them than it may mark, and the window makes the next one step
over them again; two un-merges are an older record's after a newer one's, or two
parts of one record. The ceiling of 8 lets the pressure, the overdraft and the
overshoot all occur. Crashes, rebalances, drops, faults, deaths, plans and ticks
are capped by constants (`Max...`, `...End`). SalesforceSync runs one runner: the
instance with two is out of TLC's reach, and the theorem covers any number.
ArtifactSync runs one sync: two that overlap do lose changes (section 5).
`CHECK_DEADLOCK FALSE` stands where something really ends (rows at a terminal
status, a graph at END, a closed page, a worker that is down) or where a bound on
the provider's clock ends the behaviour.

**Fairness.** *Consumer*: the event loop runs a ready coroutine, the
orchestrator restarts workers, the coordinator reassigns; strong fairness of
`Park` and `CommitOk` says that the DLQ and the broker do not refuse for ever.
*Worker*: coroutines that are ready run, timers fire, and the client's `stop`
returns; a handler or a `join` need not return, so `StopIsHeeded` rests on the
two deadlines alone. *Batcher*: the event loop runs what is ready (`BatcherProgress`);
submitters, flushes and closing are free. *Graph*: weak fairness of a superstep, since
every node is under `asyncio.timeout`. *Hub*: the run proceeds, tasks and timers
run; `StreamCloses` assumes nothing is forgotten and the relay stays up.
*Investigation worker*: the poll ticks and tasks run; `RunEnds` excludes a dead
task. *Connectors*: awaits return, runs keep being started, the provider indexes
what it stores. *Fan-out*, in its violation run: each group consumes and the backfill ticks, so
that the counterexample is not a worker that stands still. None assumes
that a handler, the Critic, or an LLM call succeeds.

## 4. Proofs

All for arbitrary constants, under the named assumptions of the modules.

**EventConsumer_proofs.** `NoLossHolds`, `NothingSkippedHolds`,
`NothingUncommittedHolds`, `DeliveryHolds` (the whole specification implements
`Delivery`). `NoLoss` alone is not inductive: a commit writes what the batch
computed earlier. `IInv` adds, per member: everything before the cursor of the
partition it works through is settled (`LoopInv`), what it may commit or rewind
to is covered (`MarkInv`), its position is covered unless the batch still holds
the records (`PositionInv`), and a member that lost a partition has only covered
positions (`LostInv`, the eager rebalance). One lemma per kind of step, `Frame`
for the members a step leaves alone, and `DeliveryHolds` maps each step to
`Settle`, `Commit` or a stutter.

**TimelineHub_proofs.** `NothingSilentlyDroppedHolds`, `GapsAreGapsHold`,
`OrderKeptHolds`, `HubTypesHold`, for any length of a run, ring, mailbox and
number of connections. The invariant is about the line of a connection: its
snapshot, the event in hand, its mailbox. The line ascends between what was sent
last and what the hub has accepted, an untold gap lies between the snapshot and
the mailbox (`InLine`), everything rendered or named is behind it (`Sent`), what
is in hand and a resumption are where the generator says (`Stage`), and nothing
owed is missing (`Covered`). `Covered` is kept by `Open` only because the ring
holds, without a hole, all that was accepted since its oldest event
(`RingInv`). `OfferIs` moves the oldest live event into the gap, `ReplaySent`,
`QueueSent`, `HeldSent` and `GapTold` take what is first in the line, and
`GeneratorStep` leaves the other connections alone. The snapshot is written as
the end of the ascending ring (`Above`), whose first index exists by
`LeastIsThere`; that it is what a filter would leave is `AboveIs`, and
`AboveIsTheFilter` in MCTimelineHub compares the two on every small ring.

`FeedHolds` is the refinement. To the invariant it adds that only accepted events
wait anywhere and that a resumption starts where the client was (`RealInv`).
`DueIsFirst` says that the event a generator sends next precedes all that waits
and follows all that was sent; with `Covered`, every accepted event before it is
then known to the reader (`InFront`), which is the guard of `Feed`'s `Show` and
`Tell`. A frame is a `Show`, or a `Tell` of one event when it cannot be encoded;
`take_gap` and `_resume_gap` are a `Tell` of a range, the latter a stutter when
the range is empty; a prune and a restart are `Forget`, because nobody reads
then; a refused redelivery is a stutter.

**Investigation_proofs.** Of the service: `LegalMovesHold`,
`ColumnsAgreeHolds`, `StepsDenseHolds`, `TypeCorrect`. What makes the stale reads
harmless is `Reads`: a transition in flight was permitted from the status it
read and knows whether that status had started, and an append has read the next
sequence or a taken one. Of a run: `OneDriverHolds` and `StreamAgreesHolds`, for
any number of replicas and of requests to cancel. A queued run is nobody's
(`QueuedIsFree`), so the compare-and-swap of the claim admits one (`Alone`); the
row holds what the stream will say (`RowGoesFirst`), and after it has been said
nobody is at work (`SaidIsOver`). `RecordHolds` maps each step to one of
`RunRecord` or a stutter. Besides that invariant it needs `Ledger`: a queued row has
not been started, a task at work means that it has, and until the task has written
its own result the row is planning or cancelled.
Of the agent graph: `WithinLimitsHolds`, `CutIsToldHolds`. Both follow from
one invariant, `GraphInv`: a run that moves is neither terminal nor blocked (`Alive`), the
exit path has a step and a grace for each of its two nodes (`Bounds`), a rewrite
is counted when the Critic is next entered (`Counted`), and the stages behind a
node have run unless a plan was rejected or a ceiling, which nothing takes back,
was passed (`Track`). `GuardSays` evaluates `check_guards`, `LandLeaves` the
wrapper, and what a node hands over is reduced to `Fits`.

**SalesforceSync_proofs.** `NothingOutOfReach` (`StillReachable` for any number
of overlapping runners, any failures), `CommitsForward`, `TypeCorrect`. `IInv`
says of each run that an outstanding version is no older than the overlap
window of everything the run has committed or will commit, unless the run holds
it (`Covers`), that watermarks do not lead the provider's clock (`Bounds`), and
of the provider that what is not queryable yet is younger than `Lag`
(`ProviderInv`). The theorem rests on `LagIsCovered` (`Lag <= Overlap`), which
is what the overlap window is for. Each step is reduced to a lemma about one
run's record without variables (`GoodLater`, `GoodReceive`, `GoodCommit`, ...).

**Clients_proofs**, what stands between a run and a provider.
`GrantsBoundedHolds`, `BucketTypesHold`: a stored bucket never holds more than
the ideal one and what late scripts regained, and by the time it expires the
ideal one is full (`Sound`). Two things came out of this proof. OBSERVE_LUA
too may turn the clock of a bucket back, so `regained` counts its ticks as well:
without them TLC exceeds the bound with a capacity of 3, a refill of 2, a cost of
1 and a lateness of 1. And a script must not be so late that an empty bucket
could have filled meanwhile (`LateAssumption`): with capacity, refill, cost and
lateness all 2 a bucket expires, and so is full, before its late grants are
earned, and with nine calls TLC exceeds the bound. Nothing in the code bounds the
delay of a script; the bound assumes it to be shorter than a bucket's refill.
`ProbesBoundedHolds`: a run that has failed since the circuit tripped comes back
only as a probe, whose failure trips it again (`BackAsProbe`).
`RefreshSpentOnceHolds`: whoever posts holds the lock (`Locked`), and unless an
answer was lost the stored token is the latest issued and every retired one is
older (`InStep`). `SpendBoundedHolds`: a call under way was checked against the
ceiling of its node (`Spending`), and the calls of a node are three for each
attempt that is over and one for each tier this one has come down (`Calling`).

**Workers_proofs.** `WorkerDrainsCleanly` (`DrainIsClean`), `WorkerTypesHold`: the
client is where the loop left it (`MemberFollows`), run closes what it opened
once neither task can go on (`Ended`), and a drain's time does not pass while
the loop is still to be woken (`DrainHasTime`).
`QuietIsIndexedHolds`: while more is to come of a Signal (`Told`) nothing is
claimed of its indexes; otherwise a handler that works on it works on the row as
it is (`Working`), and an idle one has left both indexes and the stamps `Whole`.
That an older text never overwrites a newer one rests on `NoneNewer`: no keyword
document is ahead of the row. Of a Signal that was demoted the theorem says that
nothing is left but the chunks its last withdrawal did not see; that those go in
the end is what *withdrawn_is_gone* refutes.
`RecordIsTrueHolds`, of the migrator: what one has left is newer than all it
read of the record, and the statements before its next one have run (`Ready`);
that a file stays on disk (`FilesStay`) is what makes the second look of `apply`
harmless. So every entry that any of them writes is true (`EntryIsTrue`), however
their queries overlap. That there is one node with each version once holds as
long as none have: then what the writer found is still what there is (`WriterSees`).
The other half is false in the code, and the theorem does not claim it (section 6).

**KnowledgeGraph_proofs**, what the workers derive.
*Batcher*: `RowsAreKept` (`EveryRowKept`), `BatcherTypesHold`, `GraphAgreesHolds`. What
the holder of the lock read by position is still at the front when it deletes by
position (`TakesOldest`), since submitters only append. A node has counted no more than the rows that
left the buffer, or, once a transaction of the batch under way may have
committed, those and the batch, and then the node carries the batch's id
(`Counted`). So a retry adds nothing, and a batch that leaves takes its rows
along. `SignalsAddUp` says that the signals of two
batches add up, `AppliedIs` what a transaction does to each node.
*Validity*: `HistoryIsAuditableHolds`, `ValidityTypesHold`. `ValidityInv` adds
that no claim to be folded starts before the last interval, which is what
makes looking at that one alone enough (`FirstStartsFirst`).
`AppendIsSound` and `ReplaceIsSound` keep the order and the foundation of the
history, `FoldKeepsHistory` goes through the cases.
*Resolution*: `IdsLeadHomeHolds`, `ResolutionTypesHold`, for any finite set of
entities, evidence, passes and corrections. That the ids of live records lead
apart is not inductive, because an un-merge brings snapshots back. As long as every
un-merge was of an outermost merge (`StandingInOrder`), `ResolutionInv` says of what
the merges still hold (`LogOK`) that an entry's survivor is a member and none of them is older,
that the ids a merge took away are neither live nor in a later entry, and that a
record no later entry has used still answers for exactly what its members did
(`Made`, `Untouched`). Hence to put members of an id's last merge back in place of the survivor
exchanges one family for the same family (`Exchange`). The survivor exists and
is oldest because the election is a total order (`OutranksOrders`, `SurvivorLeads`,
`SurvivorIsOldest`). `LogGrows` and `LogShrinks` are a merge and an
un-merge of the log, one lemma per action the rest. After any other un-merge that
is gone, and the theorem claims no home for an id; what stays is that a live record
is no younger than its ids, because the record of every merge has a survivor that
is one of its members and the oldest of them (`LogSound`).
The sums of the batcher's model and the top of the election need induction over a set or a
sequence, whose theorems take a formula as a parameter. Here the parameter
is the set of the numbers that the claim holds of: `UpTo` proves that
such a set is all of `0..n`, by the least element outside it.

**Pagers_proofs.** `NothingBuriedHolds`, for both streams of GitHubSync. `NothingBuried` says
nothing of the parked `pending`, which becomes the watermark of a later run, nor
of the pages in a run's hands. `CrawlInv` says of every state that is or may be kept
that an unpublished discussion is within the overlap of `pending`, below the
token, or in a page still to be handed over (`Parked`, `Reached`), and of a
descent that what it has not read lies below it or above all it claims
(`Descending`, `Ahead`). Of the issues walk: what it has passed is handed over,
in a second that was stepped over, or was shown after the run began (`Walking`);
of such a second the mark is kept, or as many later ones as are kept pushed it out
(`Stepped`, `SteppingOver`). That the
replica's lag and the run's length fit into the overlap (`WindowAssumption`) is
used where a late update appears (`ReplicateKeeps`) and where a run ends. That a
page of n topics leaves nothing behind on its own side is `FirstTakes`, from
counting what precedes each; that a finite page has a last topic is
`SomeIsFirst`, by well-foundedness. The proof failed at `CutCrawl`, and rightly:
a cut may drop pages above a token that was kept. That is the run *emitted_below*,
and `torn` names exactly those topics, so `NothingBuried` excuses no other.
`NothingPassedOverHolds`, of ArtifactSync: above the watermark, a pull request is
seen as it is now, or still to come in the list, or has changed since all that
was seen (`Found`). A change moves one to the top and the others down
(`PullChangesKeeps`), so none slips under a page that was read; and a page that
is not full, or the end of the list, leaves nothing above the watermark behind
it (`ReadPageKeeps`, from `PageIs`, which counts the members of a page). Whatever
changed within the newest second is above the watermark by its overlap of one.

**Assumptions.** Besides types and sizes: `LagIsCovered`, `WindowAssumption` and
`LateAssumption` above; `OneSyncAssumption` (one sync of a source at a time: of
two that overlap the property is false, section 5); `KeysAssumption` (an acquire
draws on at least one bucket, which `acquire` checks); `FanAssumption` (there is
a Signal and a text); `ResolutionAssumption` (finitely many entities);
`ClaimsAssumption` (a claim ends after it starts, which `Interval`
checks, and no later than `OpenEnd`, which stands for an open end);
`BatcherAssumption` (a row is a node or an edge, and brings no negative number of
signals). TLC evaluates each on the runs' values.

**Only model-checked.** All liveness (`PartitionsEnd`, `RowsLeave`, `RunsEnd`,
`StopIsHeeded`, `StreamCloses`, `RunEnds`, `CaughtUp`), since fairness and
ENABLED are outside the prover. `PlatformTypeOK` and `DrainingTypeOK` are
conjunctions over the components of an MC module; of their parts, those of the
consumer, the batcher, the worker, the buckets, the investigation row, the
resolution and the validity history are theorems.

## 5. What the models leave out

- *Consumer*: backoff times, envelope decoding beyond "decodes or not", metrics;
  a stale batch may still commit an older offset after a rebalance, which costs
  a redelivery, so `NothingUncommitted` is stated before the first crash or
  rebalance and `PartitionsEnd` says reached, not kept.
- *Worker*: platforms without `add_signal_handler`; what setup opens is not told apart.
- *Connectors*: `_is_duplicate`'s check and mark of one record are one step (two
  runs racing there publish twice, no more); `max_records` acts as `max_pages`
  does; `normalize` returning nothing acts as a skip; the first sync's lookback
  is assumed to cover the provider's past; `next_sync_at` and the account's
  status are not read by the code. *GitHub*: releases, which are listed whole.
- *Limiter*: the policy that adapts from configuration; buckets whose units differ.
- *Artifacts*: commits and workflow runs (the same walk over dates that do not
  change), people; two syncs of one source at a time, for which
  `NothingPassedOver` does not hold: the store has no version guard and the
  metadata is read and written apart.
- *Fan-out*: what the stages compute; the writes of the graph worker, which are
  its stamp (section 6); pipelines of one source run at different versions.
- *Batcher*: rows that differ in anything but identity, time, counts and ends.
- *Resolution*: features and their weights (a pair's evidence is one of three
  grades), review queues, required links. *Validity*: queries and the cut-off of
  stale edges. *Migrator*: the text of statements; failures inside the query that
  records, which the driver repeats.
- *Service*: `attach_report`, reads, `find_timed_out`.
- *Model calls*: the providers; one call per attempt, which is what the agents make.
- *Graph*: `error_type` strings beyond the halt reasons; the fan-out, whose
  table is empty. The bound `CriticAgent` names no verdict, and such critiques
  are among those of the run; the others are what the router is written and
  tested for. Nothing in the code sets a graph state to cancelled.

**Not modelled**, with the reasons in `PROJECT.json`: what keeps no state
between calls (mapping, normalisation, queries, analytics, prompts, tools,
read services, API schemas); what cannot run (`workers/scheduler.py` and
`workers/dlq.py` import names the source does not define, `scripts/reindex.py`
is a stub); third-party clients and pools; the browser apart from its stream;
and what section 7 plans.

## 6. Disagreements and weak spots seen while modelling, without a run

*Agent graph and model calls*
- `CriticOutput` (critic/schemas.py) has no `verdict`, `target_stage` or
  `artifact_sha256`. `route_after_critic` takes the missing verdict for accept
  and `terminal_status` does not: with the bound Critic the revision loop is
  never entered and every run that reaches its end has `completed_with_findings`.
- planner/agent.py:5-11 calls the Planner blocking so that no run continues
  without a plan, but only `_validate_output` sets the mark: a timeout or a
  failed model call in the Planner lets the run go on with an empty plan.
- `route_after_planner` rejects a plan that is too large "now, when the run can
  still say so in a report" and records nothing: `PLAN_TOO_LARGE` is never
  written, and such a run may end completed. `CutIsTold` excludes it.
- The final Critic pass may fail and an earlier accept still yields completed.
- The grace is granted to each exit node, so a run may last the deadline and
  two graces; graph.py:157 says "three minutes across two nodes".
- Shed events stay in the node's budget, so no report can say that a run was
  served below the tier it asked for, though services/llm/router.py:23-26 says
  it must. A call whose answer fails its schema, and a node cancelled by its
  slice, lose their tokens, where `BaseAgent.__call__` says that both paths book.

*Investigations*
- A run whose task dies after the claim stays in `planning`: `_claim` says that
  `_reclaim_stale` recovers it (investigation_worker.py:220-222) and `_drive` that
  another replica reclaims it (279-281), but there is no such method, and only
  queued rows are claimed. `RunEnds` therefore excludes a dead task.
- `append_step` and `record_plan` check that the run is live on a read and write
  unconditionally; two callers that end one step count its tokens twice.
- The worker writes `completed` from `planning`, a move the service forbids,
  and records a graph that failed as completed, because it reads only the report
  (the graph halts on a blocking error without raising, investigation_worker.py:341).

*Timeline*
- `_resume_gap` is silent for an empty channel (stream.py:786), so a client that
  resumes after the hub forgot the run is told of no loss; one that attaches
  after retention waits until it gives up.
- `TimelineRelay.follow` does nothing when the pump of the run has died (timeline.py:186).

*Worker runtime*
- `_work` sets `health.ready` after a shutdown that was asked for during the
  start, so the gauge says ready while the worker drains (base_worker.py:552, 699);
  `/readyz` answers 200 when a shutdown arrives while its probes run.
- Without `add_signal_handler` teardown may run while the work task lives; an
  interrupted `consumer.start` is outside the `try` and leaves the client open.
- A probe's timeout in `get_producer` leaks the producer it was starting, and
  `dispose_producer` that overlaps a start, or another one, leaks one too (producer.py:173-330).

*Connectors*
- Eight connectors cannot fetch: Jira, Confluence, HubSpot, Notion, Slack, arXiv,
  Papers with Code and Semantic Scholar read `self._ctx`, and nothing sets it
  (base.py:93-95 sets `self.ctx`), so the first page raises `AttributeError`
  before a request is sent (jira.py:134). They are not modelled. Behind that, the
  Jira pager keeps a page offset while the watermark moves under it (jira.py:121),
  HubSpot's applies an offset to a filter that follows the watermark, and Slack's
  commits the newest watermark after its first page.
- The default dedup key is the record's identity: edits are dropped for its
  seven days. An overlap window larger than `max_pages` starves newer records.
- `_advances` compares with the run's own copy of the cursor, so overlapping
  runs may store an older watermark (a re-read, no loss).
- A `NormalizationError` is counted as sent to the DLQ and is sent nowhere.
- GitHub: a second that is stepped over loses what did not fit, and github.py:1686-1690
  says that the loss is recorded rather than swallowed; only the last 20 marks
  are kept, and a window that reads a second again marks it again, so an older
  second loses its mark. `NothingBuried` says no more than the code gives.
- GitHub: a continued descent that finds nothing clears its token in memory only,
  so where discussions are the last or only stream no later discussion is read;
  a `max_records` below one complete descent hands back the same oldest pages
  each run; the issues walk relies on an overlap that covers the replica's lag
  and the run's own duration, as its comment says and nothing enforces.
- Artifacts: `since` filters commits by committer date; the `ci_runs` watermark is
  a creation date, so a run that finishes later is not read again; a walk longer
  than `max_pages` never completes; more than a chunk of pull requests within one
  second stalls the reviews; two overlapping syncs may store an older page over
  a newer one and lose one stream's watermark.

*Limiter, circuit and credentials*
- A late script turns a bucket's clock back and its refill is earned again; a
  denied acquire un-parks a bucket that waits for the provider's reset
  (limiter.py:265); the fallback starts with a fresh deadline and keeps what was taken.
- The circuit is said to let one probe through; every caller that finds it
  half open is let through (backoff.py:320).
- `invalidate` after the 401 of an old token expires the newer one that is stored
  (oauth.py:296-299); an answer lost after the provider rotated loses the refresh token.

*Derived stores*
- `GraphWorker._resolve` looks for `name` or `text` where `EntityMention` has
  `surface`, so nothing is written and the row is stamped; it reads columns
  `SignalRow` lacks and calls `batcher.add`, which `WriteBatcher` does not have.
- The backfill calls a method no provider has and finds no text in any row.
- The index worker does not trim the tail when a shorter text replaces a longer
  one, a degraded enrichment leaves old vectors, and a handler that read a
  duplicate may stamp `vector` on a row that has text since: no sweep returns it.
- The replay guard knows a node's last batch only (nodes.py:913-915 and
  writer.py:821-836 say more), and equal batches count once; `_merge_rows` keeps
  the later `observed_at`, so `first_seen` may follow an observation; without a
  sink one edge with no ends blocks all that follow; submitters that refill a
  full buffer leave the pressure off.

*Resolution, validity, migrator*
- A forbidden pair counts as a zero in an average: from four records on it can be
  reunited (entity_resolution.py:325-335, 1043), and a refined split be undone by
  the next pass.
- `unmerge` asks neither whether its merge is the last of its survivor nor whether
  part of it was undone before (entity_resolution.py:1072-1086), and the record is
  frozen. Applied as it stands, the plan of an older merge rebuilds the survivor
  without the ids it has absorbed since, which then lead nowhere; a second
  partial one folds a member in that the first had restored, which then leads to
  two records; and one whose survivor was absorbed puts it beside its absorber.
  `IdsLeadHome` is stated before the first such un-merge (`strayed`), as TLC
  requires: without that condition it is violated in the platform's instance.
- Simultaneous claims that disagree are recorded as won by confidence where the
  docs say unresolved, and their tail is not kept; ties in the sort key make the
  evidence depend on the order. `merge_assertions` has no caller.
- Two migrators that record at once may create two nodes, of which the next
  migration says that there must be exactly one, or put a version in twice:
  `is_new` is read before the node is locked (migrator.py:353-364), and no
  constraint covers `_SchemaVersion` (nodes.py:904-905: "Without the constraint two
  concurrent writers would both create"), where migrator.py:342 says "Recording is
  itself idempotent". It is for one retried transaction, not for two migrators, and
  `RecordIsTrue` is stated so; TLC violates it without `~overlapped`.
- A slower migrator sets `current_version` back (nothing reads it); two with
  different files may record versions out of order (migrator.py:23-28 says
  error); one that dies may leave statements repeated over a later version.

## 7. Plan

1. *(done)* EventConsumer with Delivery; TimelineHub; InvestigationService and
   InvestigationRun; ConnectorRuntime with its pagers, GitHubSync, ArtifactSync;
   AgentGraph and ModelCalls; the limiter, circuit and credentials; SignalFanOut,
   WriteBatcher with GraphMerge; EntityResolution, TemporalValidity,
   SchemaMigrator; WorkerLifecycle.
2. The pagers of the eight connectors, once they can fetch; the shared producer's
   start and close; the LLM cache's single flight; the scratchpad's time to live.
3. Pure algorithms against references: rank fusion, chunking, blockers and
   feature progress; the index worker composed with an index promotion.
4. Composition of the worker with AgentGraph in place of its abstract graph, of
   TimelineHub as the hub of InvestigationRun, and of WorkerLifecycle with
   EventConsumer's batch: with `Feed` and `RunRecord` proved, the second can be
   stated between the two abstract specifications.

Abstract specifications to state: a bounded budget for TokenBucket, and a log with
one copy of each record for SignalFanOut; then that the components implement them.
