SPECIFICATION FairSpec
CONSTANTS
  P1 = P1
  P2 = P2
  FB = FB
  App = App
  None = None
  Period = 1
  Deposited = 4
  Amounts = {1}
  Numbers = {0, 1, 2}
  Hash <- MCHash
  Apps <- MCApps
  Histories <- AllHistories
  OwnOnly <- MCOwnOnly
  OtherStates <- MCOtherStates
  OtherOutcomes <- MCOtherOutcomes
INVARIANTS LatestIsFinal NoLessThanAgreed EffectsCovered
PROPERTIES OutcomeStands SettlesUnlessStalled
CHECK_DEADLOCK FALSE
