SPECIFICATION Spec
CONSTANTS
  Loader = {l1, l2}
  Noter = n
  Searcher = {s}
  Connector = {c1}
  Restorer = restorer
  StoryLength = 3
  MaxClicks = 3
  MaxConn = 3
  None = None
SYMMETRY Interchangeable
CHECK_DEADLOCK FALSE
INVARIANTS
  TypeOK
  ShownIsStored
  TimelineOwn
  StoryResumable
  ClearedStaysCleared
