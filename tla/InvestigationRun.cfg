SPECIFICATION FairRun
CONSTANTS
  c1 = c1
  c2 = c2
  w1 = w1
  w2 = w2
  None = None
  Callers = {c1, c2}
  Workers = {w1, w2}
  MaxSteps = 1
  MaxPlans = 0
  MaxTokens = 0
  MaxNodes = 3
  MaxDeaths = 1
  MayRaise = TRUE
  MayLose = TRUE
INVARIANTS
  OneDriver
PROPERTIES
  ImplementsRecord
  RunEnds
CHECK_DEADLOCK FALSE
