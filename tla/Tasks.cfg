SPECIFICATION Spec
CONSTANTS
  Need = {"n1"}
  Builder = {"b1", "b2"}
  NoBuilder = "none"
  Versions = 2
  MaxAttempts = 2
  PerRun = 1
  BuildMishaps = 2
  Page = {"p1"}
  MaxRounds = 2
  MaxChanges = 4
  PushMishaps = 1
CHECK_DEADLOCK FALSE
INVARIANTS
  HandedOutIsBuilt
  KeptIsCurrent
PROPERTIES
  WaitsEnd
  EveryAskShows
