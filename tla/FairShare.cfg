SPECIFICATION Spec
CONSTANTS
  Job = {1, 2, 3}
  Request = {"majority", "all"}
  CanRun <- Runs
  Admin = {a1, a2}
  Change <- Changes
  Initially <- Start
  Lead <- Ahead6
  Whole = 3
  Scale = 2
  Rounds = 3
  JoinSettle = 3
  MaxClaims = 6
  MaxEvents = 2
INVARIANTS
  WholeFleet
  NewcomerServed
  NoTakeover
PROPERTIES
  NoBurst
CHECK_DEADLOCK FALSE
