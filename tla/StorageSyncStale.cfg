SPECIFICATION Spec
CONSTANTS
  Proc = {p1, p2}
  Edits = {"edited"}
  None = None
  Closers = {p1, p2}
  Ends = TRUE
  CommentTouches = FALSE
  Reposts = FALSE
  MaxIssues = 2
  MaxComments = 1
  MaxEdits = 1
  MaxFaults = 0
PROPERTIES ConflictsSettleExplicitly
CHECK_DEADLOCK FALSE
