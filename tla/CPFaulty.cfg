SPECIFICATION Spec
CONSTANTS
  Alice = Alice
  Bob = Bob
  d1 = d1
  d2 = d1
  Defs = {d1}
  MaxRuns = 3
  Terms <- OneOrTwo
  Started = {"propose", "install", "uninstall", "takeAction"}
  Opening <- OneInstalled
  SharedLocks = TRUE
  Faults = {"loss", "crash"}
INVARIANTS
  TypeOK
  QuiescentAgreement
  NoFork
  BooksBalance
PROPERTIES
  StoresGoForward
  OneHistory
CHECK_DEADLOCK FALSE
