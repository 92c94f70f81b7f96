SPECIFICATION Spec
CONSTANTS
  Proc = {p1, p2}
  Edits = {"edited", "unmarked"}
  None = None
  Closers = {p1}
  Ends = FALSE
  MaxEdits = 1
  MaxFaults = 2
INVARIANTS
  TypeOK
  ReplacesOnlyKept
PROPERTIES
  BindingAdvances
  ImplementsObligation
  StrangersStayUnbound
CHECK_DEADLOCK FALSE
