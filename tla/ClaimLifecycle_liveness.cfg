SPECIFICATION LiveSpec
CONSTANTS
  Worker = {w1}
  Token = {c1}
  Handler = {h1, h2}
  Purger = Purger
  None = None
  MaxUnits = 1
  MaxHolds = 1
  MaxRestarts = 1
PROPERTIES
  DoneJobLeavesDispatch
  PurgeEnds
