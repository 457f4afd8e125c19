SPECIFICATION Spec
CONSTANTS
  Alice = Alice
  Bob = Bob
  Ingrid = Ingrid
  MaxRuns = 2
  MaxPlays = 1
  Opening <- OneInstalled
  FaultCases <- OneFault
INVARIANTS
  SignsWhenCovered
  MediatorNeutral
  LinksBalance
CHECK_DEADLOCK FALSE
