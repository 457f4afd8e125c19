\* Days in the life of a wallet; it may stop when the day is over.
SPECIFICATION Spec
CONSTANTS
  Swappers = {"poller", "detached", "cashout", "tips"}
  Senders = {"send"}
  Withdrawers = {"cashout", "sai"}
  ALLOWED_DISCREPANCY_PCT = 5
  MAX_CHANNEL_VALUE = 8
  MinDeposit = 1
  TipsRate = 2
  MaxTries = 2
  Plans <- Days
CHECK_DEADLOCK FALSE
INVARIANTS
  StakesComeBack
  CashoutCovered
  
PROPERTIES
  SwapsEnd
  DepositsGetMade
