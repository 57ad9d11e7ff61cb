CONSTANTS
  Users = {1}
  Threads = {1, 2}
  MaxBalance = 3
  Deployments = {"service", "cqrs"}
  Requests <- SomeOrders
  MaxOrders = 2
  MaxPayments = 2
  Payments <- InAndOut
  max_quantity_ = 3
  quantity_step_ = 1
  price_tick_ = 1
  default_limit_ = 2
SPECIFICATION FairSpec
INVARIANTS MarginExplained MarginCovered OrdersShown
PROPERTIES EveryRequestAnswered
CHECK_DEADLOCK FALSE
