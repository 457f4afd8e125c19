SPECIFICATION Spec
CONSTANTS
  Alice = Alice
  Bob = Bob
  d1 = d1
  d2 = d2
  Defs = {d1, d2}
  MaxRuns = 2
  Terms <- OneSided
  Started = {"install"}
  Opening <- TwoProposed
  SharedLocks = TRUE
  Faults = {}
INVARIANTS
  AppsHaveConditional
CHECK_DEADLOCK FALSE
