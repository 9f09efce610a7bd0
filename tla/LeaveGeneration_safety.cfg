SPECIFICATION LiveSpec
CONSTANTS
  NumRacks = 2
  Generations = 2
  Target = 1
  RacksPerTask = 1
  SweepBound = 1
  Passes = 2
  Task = {t1, t2}
  Runner = {x1, x2}
  Sweeper = Sweeper
  NoOne = NoOne
  NoKlv = NoKlv
  MaxMishaps = 1
PROPERTIES
  ClosesQuietly
  ImplementsLeaveTotals
  GenerationsEnd
CHECK_DEADLOCK FALSE
