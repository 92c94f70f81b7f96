SPECIFICATION Spec
CONSTANTS
  Preparers = {p1, p2}
  Closers = {c1}
  Invocations = {i1}
  Arguments = {"none", "text"}
  MaxVersion = 1
  MaxSyncs = 2
  MaxFaults = 2
SYMMETRY Alike
INVARIANTS
  TypeOK
  DeliveredIsExplained
  VerifiedHasEvidence
  LinksLeadToDiaries
  ReplaysReturnTheirBundle
CHECK_DEADLOCK FALSE
