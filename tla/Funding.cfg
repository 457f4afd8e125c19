SPECIFICATION Spec
CONSTANTS
  Alice = Alice
  Bob = Bob
  MaxRuns = 2
  MaxApps = 1
  Amounts = {1, 2}
  Calls = {"deposit", "withdrawCommitment"}
  Opening <- Funded
  FaultCases <- OneFault
INVARIANTS
  Solvent
  BooksAgree
  Accounted
PROPERTIES
  DepositCredited
CHECK_DEADLOCK FALSE
