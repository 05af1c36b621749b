SPECIFICATION Spec
CONSTANTS
  u1 = u1
  u2 = u2
  s1 = s1
  s2 = s2
  None = None
  User <- Users
  Session <- Sessions
  Memory <- Memories
  Query <- Queries
  MaxMessages = 3
  TopK = 2
  WideK = 3
  Radius = 1
  ChainDepth = 2
  Reserved = 1
INVARIANTS TypeOK OwnMessagesOnly HiddenStaysOut NeverBehindItself StateToldWhole
PROPERTIES ForgottenForGood
