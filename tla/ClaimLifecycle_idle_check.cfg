SPECIFICATION Spec
CONSTANTS
  Worker = {w1}
  Token = {c1, c2}
  Handler = {h1, h2}
  Purger = Purger
  None = None
  MaxUnits = 1
  MaxHolds = 1
  MaxRestarts = 0
SYMMETRY Symmetry
INVARIANTS
  FinishEvidence
