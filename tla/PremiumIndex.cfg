CONSTANTS
  Quotes <- SomeQuotes
  MaxRate = 75
  interest_rate_ = 1
  settlement_interval_ = 4
  CheckEvery = 2
  MaxLag = 1
  MaxHistory = 2
  MaxNow = 6
  MaxUpdates = 1
  Indexed = TRUE
SPECIFICATION IndexedSpec
PROPERTIES IndexUpdateReturns
CHECK_DEADLOCK FALSE
