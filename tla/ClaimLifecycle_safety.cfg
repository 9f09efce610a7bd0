SPECIFICATION Spec
CONSTANTS
  Worker = {w1}
  Token = {c1, c2, c3}
  Handler = {h1, h2}
  Purger = Purger
  None = None
  MaxUnits = 2
  MaxHolds = 1
  MaxRestarts = 1
SYMMETRY Symmetry
INVARIANTS
  SlotInv
  CreditInv
  JobCountersInv
  FinishInv
  PurgeExclusive
  IInv
PROPERTIES
  ImplementsTaskSlots
  ClaimEndsOnce
