SPECIFICATION Spec
CONSTANTS
  Claim = {1, 2, 3}
  Timeout = 2
  Grace = 1
  Limits = {1, 2}
  Streak = 2
  MaxTime = 5
  MaxMishaps = 1
INVARIANTS
  NoLostWork
  SetAsideInTime
PROPERTIES
  SetAsideDeserved
CHECK_DEADLOCK FALSE
