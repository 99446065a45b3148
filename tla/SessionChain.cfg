SPECIFICATION FairSpec
CONSTANTS
  k1 = k1
  k2 = k2
  k3 = k3
  s1 = s1
  s2 = s2
  s3 = s3
  Keys = {k1, k2, k3}
  Sessions = {s1, s2, s3}
  Resumable = {s1}
  Owner <- MCOwner
  Executions = {e1, e2}
  maxRecords = 2
  MaxConsecutiveFailures = 1
  MaxCreated = 3
INVARIANTS TypeOK IndexesAgree CapacityKept
PROPERTIES CurrentSurvives SealingEnds OrphanedTwoWays
