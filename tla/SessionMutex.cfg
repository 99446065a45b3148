SPECIFICATION Spec
CONSTANTS
  Callers = {i1, i2, i3, i4}
  None = None
INVARIANTS TypeOK WaiterAccounted
PROPERTY ImplementsKeyedLock
CHECK_DEADLOCK FALSE
