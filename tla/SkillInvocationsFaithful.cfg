SPECIFICATION Spec
CONSTANTS
  Preparers = {p1}
  Closers = {c1}
  Invocations = {i1}
  Arguments = {"text", "number"}
  MaxVersion = 1
  MaxSyncs = 0
  MaxFaults = 0
INVARIANT FaithfulRecordsPass
CHECK_DEADLOCK FALSE
