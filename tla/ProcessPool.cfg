CONSTANTS
  Keys = {k1, k2}
  k1 = k1
  k2 = k2
  Multiplexing = {k2}
  Recent = {k1}
  Sessions = {1}
  Executions = {p1, p2}
  p1 = p1
  p2 = p2
  MaxLiveProcesses = 1
  MaxAcquires = 3
SPECIFICATION FairPoolSpec
INVARIANTS PoolAgrees LeasesBacked
PROPERTY AcquireReturnsOrBlocked
CHECK_DEADLOCK FALSE
