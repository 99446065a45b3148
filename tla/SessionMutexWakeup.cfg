SPECIFICATION FairSpec
CONSTANTS
  Callers = {i1, i2}
  None = None
PROPERTY AcquireCompletes
CHECK_DEADLOCK FALSE
