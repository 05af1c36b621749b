SPECIFICATION FairSpec
CONSTANTS
  Caller = {c1, c2, c3}
  Threshold = 2
  Cooldown = 2
  MaxAttempts = 2
INVARIANTS
  TypeOK
  OpenIffThreshold
  OverrunBounded
  LateRequestsBounded
PROPERTIES
  CooldownEnds
  Recovers
