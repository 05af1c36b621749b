SPECIFICATION FairSpec
CONSTANTS
  Worker = {w1, w2}
  RequestId = {r1}
  Model = {m1, m2}
  short = short
  long = long
  None = None
  Payload <- MCPayload
  Size <- MCSize
  MaxSize <- MCMaxSize
INVARIANTS
  TypeOK
  CommittedWhole
PROPERTIES
  Linearizable
  CallsReturn
