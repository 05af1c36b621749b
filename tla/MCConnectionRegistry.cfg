SPECIFICATION Spec
CONSTANTS
  Client = {c1, c2}
  ConnId = {i1, i2}
  TTL = 2
  MaxClock = 5
  None = None
SYMMETRY Interchangeable
INVARIANT TypeOK
PROPERTIES
  NeverRevived
  ServedWhileFresh
  LiveUntilDeadline
