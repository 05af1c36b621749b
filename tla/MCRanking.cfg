SPECIFICATION Spec
CONSTANTS
  s1 = s1
  s2 = s2
  None = None
  Log <- MCLog
  Intent <- MCIntent
  Query <- MCQuery
  Size = 3
  Hideable = 1
  TopK = 2
  WideK = 3
  Radius = 1
  LexicalLimit = 3
  VectorLimit = None
INVARIANTS
  TypeOK
  StateInOrder
PROPERTIES
  FusionRespectsBoth
  ExactAheadOfSimilar
  OperandsSeated
CHECK_DEADLOCK FALSE
