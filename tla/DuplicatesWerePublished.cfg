SPECIFICATION Spec
CONSTANTS
  p1 = p1
  p2 = p2
  Records = {1, 2}
  Runners = {p1}
  KeyedByRevision = TRUE
  Malformed = {}
  Unarchivable = {}
  Overlap = 1
  Lag = 1
  PageSize = 1
  MaxPages = 3
  MaxAttempts = 2
  MaxTime = 3
  MaxFaults = 1
INVARIANT DuplicatesWerePublished
CHECK_DEADLOCK FALSE
