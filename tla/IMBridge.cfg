SPECIFICATION FairBridgeSpec
CONSTANTS
  Callers = {m1, m2, m3}
  None = None
INVARIANTS BridgeTypeOK InOrder OneThread
PROPERTY EveryoneServed
CHECK_DEADLOCK FALSE
