SPECIFICATION Spec
CONSTANTS
  Proc = {p1}
  Edits = {"edited"}
  None = None
  Closers = {p1}
  Ends = TRUE
  CommentTouches = FALSE
  Reposts = FALSE
  MaxIssues = 2
  MaxComments = 1
  MaxEdits = 0
  MaxFaults = 1
INVARIANTS OneIssue
CHECK_DEADLOCK FALSE
