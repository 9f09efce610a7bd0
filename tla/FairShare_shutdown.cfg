SPECIFICATION Spec
CONSTANTS
  Job = {1, 2, 3}
  Request = {"majority", "all"}
  CanRun <- Runs
  Admin = {a1, a2}
  Change <- Activation
  Initially <- Parked
  Lead <- Ahead0
  Whole = 3
  Scale = 2
  Rounds = 3
  JoinSettle = 3
  MaxClaims = 2
  MaxEvents = 1
INVARIANTS
  ShutDownWhenRuledOut
CHECK_DEADLOCK FALSE
