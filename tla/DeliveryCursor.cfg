SPECIFICATION Spec
CONSTANTS
  i1 = i1
  i2 = i2
  i3 = i3
  Invocations = {i1, i2, i3}
  None = None
  maxMessages = 2
  MaxStamped = 3
INVARIANTS TypeOK NothingSkipped NotShownAgain
PROPERTY OnlyForward
SYMMETRY SameInvocations
