SPECIFICATION Spec
CONSTANTS
  Proc = {p1, p2}
  Edits = {"edited"}
  None = None
  Closers = {p1, p2}
  Ends = TRUE
  CommentTouches = FALSE
  Reposts = TRUE
  MaxIssues = 3
  MaxComments = 2
  MaxEdits = 1
  MaxFaults = 1
SYMMETRY Interchangeable
INVARIANTS
  TypeOK
  EffectsAreAccountedFor
  ConflictHasEvidence
  CorrectionsSupersedeKept
  CorrectionsAreUnique
  DuplicatesCostFaults
PROPERTIES
  ImplementsObligation
CHECK_DEADLOCK FALSE
