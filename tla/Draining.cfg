SPECIFICATION DrainingSpec
CONSTANTS
  c1 = c1
  c2 = c2
  p1 = p1
  h1 = h1
  None = None
  NoHash = NoHash
  Consumers = {c1, c2}
  Partitions = {p1}
  LogLen = 3
  BatchSize = 2
  MaxAttempts = 2
  Poison <- MCPoison
  Garbled <- MCGarbled
  DlqEnabled = TRUE
  DlqTopic = FALSE
  MaxCrashes = 1
  MaxRebalances = 1
  Submitters = {1, 2}
  Backlog <- MCBacklog
  MaxRows = 4
  BatchRows = 2
  BatchesHeld = 1
  MaxAge = 1
  WriteAttempts = 2
  MaxFlushes = 1
  MaxWriteFailures = 1
  StepCeiling = 14
  MaxRevisions = 1
  Timeout = 2
  Grace = 1
  Plans <- MCPlans
  Critiques <- MCCritiques
  Pause = 3
  Delay = 1
  DrainTime = 2
  Refresh = 2
INVARIANTS
  DrainingTypeOK
  EveryRowKept
  GraphAgrees
  DrainIsClean
PROPERTIES
  PartitionsEnd
  RowsLeave
  RunsEnd
  StopIsHeeded
CHECK_DEADLOCK FALSE
