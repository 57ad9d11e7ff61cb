CONSTANTS
  u1 = u1
  u2 = u2
  Users = {u1, u2}
  Instruments = {1}
  InstrumentId = 1
  Types = {"LIMIT", "MARKET", "FOK"}
  Prices = {1, 2}
  Quantities = {0, 1, 2}
  MaxOrders = 3
  MaxIterations = 3
  ClockTicks = {1}
  ReuseIds = FALSE
SPECIFICATION Spec
INVARIANTS TypeOK OrdersAccountedFor TradesSound TotalsCover BookUncrossed
PROPERTIES EndsRespected PriceTimePriority BookAsPromised
SYMMETRY UserSymmetry
CHECK_DEADLOCK FALSE
