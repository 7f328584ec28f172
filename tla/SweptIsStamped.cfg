SPECIFICATION FairFanSpec
CONSTANTS
  s1 = s1
  e1 = e1
  e2 = e2
  t1 = t1
  t2 = t2
  t3 = t3
  Signals = {s1}
  Enrichers = {e1, e2}
  Version <- MCVersion
  Texts = {t1, t2, t3}
  Chunks <- MCChunks
  MaxRecords = 2
  MaxFailures = 0
PROPERTY
  SweptIsStamped
CHECK_DEADLOCK FALSE
