SPECIFICATION FairSpec
CONSTANTS
  Alice = Alice
  Bob = Bob
  d1 = d1
  d2 = d2
  Defs = {d1, d2}
  MaxRuns = 2
  Terms <- OneSided
  Started = {"propose", "reject"}
  Opening <- OneProposed
  SharedLocks = TRUE
  Faults = {}
PROPERTIES
  NumProposedGrows
CHECK_DEADLOCK FALSE
