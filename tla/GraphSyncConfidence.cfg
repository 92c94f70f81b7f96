SPECIFICATION Spec
CONSTANTS
  Sessions = {s1, s2}
  Retriers = {}
  Commits = {c1}
  Names = {n1}
  None = None
  MaxExports = 1
  MaxRetries = 0
  MaxFaults = 0
INVARIANTS
  ConfidenceIsEarned
CHECK_DEADLOCK FALSE
