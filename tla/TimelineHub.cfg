SPECIFICATION FairSpec
CONSTANTS
  k1 = k1
  k2 = k2
  None = None
  Slots = {k1, k2}
  Last = 3
  Unencodable <- MCUnencodable
  MaxSubscribers = 2
  QueueEvents = 1
  ReplayEvents = 2
  MaxAttempts = 1
  MaxDrops = 2
  MaxForgets = 1
  MaxRedeliveries = 1
  MaxPumpFailures = 1
INVARIANTS
  TypeOK
  NothingSilentlyDropped
  GapsAreGaps
PROPERTIES
  ImplementsFeed
  StreamCloses
CHECK_DEADLOCK FALSE
