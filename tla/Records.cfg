SPECIFICATION Spec
CONSTANTS
  Export = {"e1", "e2"}
  ExportTurns = 1
  MaxCorpus = 2
  ExportMishaps = 1
  Config = {"a", "b", "c"}
  GameJob = {"ab", "bc", "bb"}
  Players <- PlayersOf
  MaxPairs = 1
  RatingMishaps = 2
  Account = {"u1", "u2"}
  Link = {"l1"}
  MaxKeys = 1
  MaxChanges = 1
  Import = {"i1", "i2"}
  InputFile = {"a1", "a2", "b"}
  Path <- PathOf
  Kept = {"a1", "a2"}
  Player = {"p1", "p2"}
  ImportMishaps = 2
  Name = {"a", "b", "c", "u"}
  Kind <- KindOf
  None = "none"
  Hops = 2
  MaxEntries = 4
  Request = {"r1", "r2", "r3"}
  Owner = {"o1", "o2"}
  Budget = 3
  Share = 2
  BodyTurns = 1
  KlvCheck = {"x1"}
  MaxRuns = 2
  MaxBuilder = 2
  KlvMishaps = 2
CHECK_DEADLOCK FALSE
INVARIANTS
  FinalIsCorpus
  ReadyHasObjects
  
  AnchorHolds
  SessionKnowsPassword
  DeletedHasNothing
  PinnedHasBytes
  PinnedIsUnpacked
  BudgetAddsUp
  ServedIsSound
PROPERTIES
  ConfirmedStays
  EndedStays
