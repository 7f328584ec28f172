SPECIFICATION PlatformSpec
CONSTANTS
  None = None
  c1 = c1
  c2 = c2
  c3 = c3
  r1 = r1
  r2 = r2
  s1 = s1
  e1 = e1
  e2 = e2
  t1 = t1
  t2 = t2
  t3 = t3
  h1 = h1
  h2 = h2
  NoHash = NoHash
  Clients = {c1, c2}
  Buckets <- MCBuckets
  Cost = 2
  Capacity = 2
  Refill = 2
  Late = 1
  Patience = 1
  Hints <- MCHints
  MaxCalls = 3
  MaxFaults = 2
  TickEnd = 2
  Runs = {r1, r2}
  Threshold = 3
  OpenFor = 2
  MaxAttempts = 2
  Budget = 2
  DelayCap = 1
  HoldAbove = 1
  RetryAfters = {1, 2}
  TimeEnd = 6
  Coroutines = {c1, c2, c3}
  Margin = 1
  Lifetimes = {0, 1, 3}
  MaxMints = 3
  ClockEnd = 4
  Syncs = {1}
  Pulls = {1, 2, 3}
  PullsPage = 1
  MaxPullPages = 3
  FanOut = 1
  PullTimeEnd = 2
  MaxUpdates = 4
  MaxReadFaults = 1
  Signals = {s1}
  Enrichers = {e1, e2}
  Version <- MCVersion
  Texts = {t1, t2, t3}
  Chunks <- MCChunks
  MaxRecords = 2
  MaxFailures = 1
  Ids = {1, 2, 3, 4}
  FirstSeen <- MCSeen
  Mentions <- MCMentions
  Blocks <- MCBlocks
  MaxBlock = 2
  Floor = 60
  Evidence = {"alike", "similar", "conflict"}
  MaxPasses = 2
  MaxUnmerges = 2
  Callers = {c1, c2}
  MaxSteps = 2
  MaxPlans = 1
  MaxTokens = 2
  Migrators = {1, 2}
  Versions = {1, 2, 3}
  Shipped = {1, 3}
  Statements = 2
  MaxChanges = 1
  MaxStarts = 3
  MaxLosses = 1
  OpenEnd = 9
  Claims <- MCSaid
  MaxClaims = 3
  StepCeiling = 14
  MaxRevisions = 2
  Timeout = 3
  Grace = 1
  Plans <- MCPlans
  Critiques <- MCCritiques
  Limit = 8
  Pressure = 15
  CallAttempts = 2
  MaxCost = 3
  MaxNodes = 5
  Topics = {1, 2, 3}
  TopicsPage = 1
  Descent = 3
  Rewind = 1
  MaxMarks = 2
  Replication = 0
  Duration = 1
  OthersFollow = TRUE
  MaxBeats = 3
INVARIANTS
  PlatformTypeOK
  GrantsBounded
  ProbesBounded
  RefreshSpentOnce
  NothingPassedOver
  QuietIsIndexed
  IdsLeadHome
  ColumnsAgree
  StepsDense
  RecordIsTrue
  WithinLimits
  CutIsTold
  HistoryIsAuditable
  SpendBounded
  NothingBuried
PROPERTY
  LegalMoves
CHECK_DEADLOCK FALSE
