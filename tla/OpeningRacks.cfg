SPECIFICATION LiveSpec
CONSTANTS
  NumRacks = 3
  RacksPerTask = 2
  Window = 1
  Analyses = 2
  Setting <- Settings
  Identity = {w1, w2}
  Task = {t1, t2}
  NoRow = NoRow
  None = None
  MaxEdits = 1
  MaxMishaps = 1
INVARIANTS
  StandingInv
  OneTaskPerRack
PROPERTIES
  CompletesSettled
  RacksEnd
CHECK_DEADLOCK FALSE
