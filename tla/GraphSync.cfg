SPECIFICATION Spec
CONSTANTS
  Sessions = {s1, s2}
  Retriers = {r1}
  Commits = {c1, c2}
  Names = {n1}
  None = None
  MaxExports = 2
  MaxRetries = 1
  MaxFaults = 2
INVARIANTS
  TypeOK
  ActiveIsStored
  ProvenanceHolds
  ReadyIsPublished
CHECK_DEADLOCK FALSE
