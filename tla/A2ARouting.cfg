SPECIFICATION Spec
CONSTANTS
  Agents = {a, b, c}
  MaxPreviousResponses = 2
  MaxA2AMentionTargets = 2
  MaxWork = 5
SYMMETRY SameAgents
INVARIANTS TypeOK UpstreamHeard MarksAccounted SerialRouting
CHECK_DEADLOCK FALSE
