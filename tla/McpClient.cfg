SPECIFICATION FairSpec
CONSTANTS
  MaxEra = 2
  Operations = 2
  Again = 3
  MaxNoise = 1
  Capacity = 1
  StdinPipe = 1
  StdoutPipe = 1
INVARIANTS
  TypeOK
  AnswersMatch
  EffectsNegotiated
  ChildrenReaped
PROPERTIES
  RequestsReturn
CHECK_DEADLOCK FALSE
