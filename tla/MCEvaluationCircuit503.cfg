SPECIFICATION Spec
CONSTANTS
  Caller = {c1, c2}
  Threshold = 2
  Cooldown = 2
  MaxAttempts = 2
INVARIANT FailuresAre503
