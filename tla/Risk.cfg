CONSTANTS
  Amounts <- SomeAmounts
  MaxFunds = 3
  Prices = {2, 5, 9}
  Sizes = {1, 2}
  MaxSize = 3
  MaxInt = 40
  Leverage = 10
  Width = 4
  QtyScale = 2
  Rates = {100, 5000}
  Users = {1, 2}
  Token = 2
  GlobalRate = 2
  GlobalBurst = 4
  UserRate = 1
  UserBurst = 2
  PerMs = 2
  MaxClock = 6
  MaxCalls = 3
  Versions = {"V1", "V2"}
  Quotes <- SomeQuotes
  MaxRate = 75
  interest_rate_ = 1
  settlement_interval_ = 4
  CheckEvery = 2
  MaxLag = 1
  MaxHistory = 2
  MaxNow = 14
  MaxUpdates = 3
  Indexed = FALSE
SPECIFICATION Spec
INVARIANTS PositionSound CalculatorSound  FundingSound
PROPERTIES MoneyExplained
CHECK_DEADLOCK FALSE
