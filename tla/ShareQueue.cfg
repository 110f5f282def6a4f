\* A queue of two and five shares: it overflows, drains and overflows again.
SPECIFICATION FairSpec
CONSTANTS
  MaxQueue = 2
  MaxShares = 5
INVARIANTS
  TypeOK
  Accounted
  InOrder
PROPERTIES
  QueueDrains
  StopReturns
  BenchmarkEnds
CHECK_DEADLOCK FALSE
