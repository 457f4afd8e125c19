SPECIFICATION FairSpec
CONSTANTS
  Alice = Alice
  Bob = Bob
  d1 = d1
  d2 = d1
  Defs = {d1}
  MaxRuns = 2
  Terms <- OneSided
  Started = {"propose", "install", "uninstall", "takeAction", "update", "reject"}
  Opening <- OneInstalled
  SharedLocks = TRUE
  Faults = {"loss", "late", "lapse", "crash"}
INVARIANTS
  Enforceable
PROPERTIES
  LocksComeFree
CHECK_DEADLOCK FALSE
