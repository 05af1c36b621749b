SPECIFICATION Spec
CONSTANTS
  Loader = {l1, l2}
  Noter = n
  Searcher = {s}
  Connector = {c1}
  Restorer = restorer
  StoryLength = 1
  MaxClicks = 2
  MaxConn = 3
  None = None
SYMMETRY Interchangeable
CHECK_DEADLOCK FALSE
INVARIANT DisconnectClears
