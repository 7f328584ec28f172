SPECIFICATION RunSpec
CONSTANTS
  c1 = c1
  c2 = c2
  w1 = w1
  w2 = w2
  None = None
  Callers = {c1}
  Workers = {w1, w2}
  MaxSteps = 1
  MaxPlans = 0
  MaxTokens = 0
  MaxNodes = 1
  MaxDeaths = 0
  MayRaise = FALSE
  MayLose = FALSE
PROPERTY
  EndIsFinal
CHECK_DEADLOCK FALSE
