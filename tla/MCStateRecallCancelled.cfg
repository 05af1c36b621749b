SPECIFICATION Spec
CONSTANTS
  u1 = u1
  u2 = u2
  s1 = s1
  s2 = s2
  None = None
  User <- Users
  Session <- Sessions
  Memory <- Memories
  Query <- OrdinaryQueries
  MaxMessages = 2
  TopK = 2
  WideK = 2
  Radius = 1
  ChainDepth = 8
  Reserved = 1
INVARIANTS CancelledOutOfRecall
