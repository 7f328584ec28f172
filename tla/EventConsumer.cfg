SPECIFICATION Spec
CONSTANTS
  c1 = c1
  c2 = c2
  p1 = p1
  p2 = p2
  None = None
  Consumers = {c1, c2}
  Partitions = {p1, p2}
  LogLen = 2
  BatchSize = 2
  MaxAttempts = 2
  Poison <- MCPoison
  Garbled <- MCGarbled
  DlqEnabled = TRUE
  DlqTopic = FALSE
  MaxCrashes = 1
  MaxRebalances = 1
SYMMETRY Symmetry
INVARIANTS
  NoLoss
  NothingSkipped
  NothingUncommitted
PROPERTY
  ImplementsDelivery
