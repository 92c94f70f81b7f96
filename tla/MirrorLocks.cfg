SPECIFICATION FairSpec
CONSTANTS
  Proc = {p1, p2, p3}
  OwnerId = {o1, o2, o3}
  None = None
  Mirrorers = {p1, p2}
  Clearers = {p2, p3}
INVARIANTS
  TypeOK
  MutualExclusion
  ReleasesItsOwn
PROPERTIES
  ImplementsOwnership
  PreemptsOnlyInRaces
  CallsReturn
  OrphanCleared
CHECK_DEADLOCK FALSE
