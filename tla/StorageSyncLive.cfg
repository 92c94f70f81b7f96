SPECIFICATION FairSpec
CONSTANTS
  Proc = {p1, p2}
  Edits = {"unmarked"}
  None = None
  Closers = {p1, p2}
  Ends = TRUE
  CommentTouches = FALSE
  Reposts = TRUE
  MaxIssues = 3
  MaxComments = 3
  MaxEdits = 0
  MaxFaults = 1
PROPERTIES ObligationsSettle
CHECK_DEADLOCK FALSE
