SPECIFICATION FairSpec
CONSTANTS
  alice = alice
  bob = bob
  payment = payment
  None = None
  Users = {alice, bob}
  Payments = {payment}
  Sender <- AliceSends
  Recipient <- BobReceives
  Proposals <- GoodAndBad
  Funds <- NoCollateral
  Plans <- FivePlans
  MAX_WITHDRAWAL_RETRIES = 3
  MinimumMaintainedCollateral = 1
  AmountToCollateralize = 1
INVARIANTS
  TypeOK
  HubCovered
  PaidBeforeTaken
  StatusMeansPaid
  FlagMeansDeposit
  OneChannel
  RecordedUntilSent
PROPERTIES
  ReclaimsInTheEnd
  NobodyShutOut
  PaidInTheEnd
CHECK_DEADLOCK FALSE
