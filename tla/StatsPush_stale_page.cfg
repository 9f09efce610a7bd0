SPECIFICATION Spec
CONSTANTS
  Page = {p1}
  MaxRounds = 2
  MaxChanges = 3
  MaxMishaps = 0
PROPERTIES
  PageCatchesUp
CHECK_DEADLOCK FALSE
