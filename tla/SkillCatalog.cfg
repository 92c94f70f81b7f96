SPECIFICATION FairSpec
CONSTANTS
  Proc = {p1, p2, p3}
  OwnerId = {o1, o2}
  Package = {k1}
  MaxVersion = 2
  Broken = {2}
  None = None
  Syncers = {p1, p2}
  Recoverers = {p2, p3}
  MaxFaults = 1
INVARIANTS
  TypeOK
  IndexComplete
  StagingIsReachable
PROPERTIES
  IndexAdvances
  ImplementsOwnership
  OrphansRecovered
CHECK_DEADLOCK FALSE
