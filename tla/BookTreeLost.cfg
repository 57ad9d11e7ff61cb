CONSTANTS
  PriceOf <- FivePrices
  IsBuy = FALSE
  Quantities = {1}
  MaxResting = 5
SPECIFICATION Spec
INVARIANTS BestOrderRight
CHECK_DEADLOCK FALSE
