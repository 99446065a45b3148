CONSTANTS
  Kinds = {"acp", "claude"}
  Exec = {e1, e2}
  e1 = e1
  e2 = e2
  MaxTurns = 3
  MaxFaults = 1
SYMMETRY Slots
CONSTRAINT OverlapsUndisturbed
SPECIFICATION Spec
INVARIANTS RecordNotStale GoneOnce ResumesGuarded
CHECK_DEADLOCK FALSE
