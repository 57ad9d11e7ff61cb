CONSTANTS
  PriceOf <- ThreeAtAPrice
  IsBuy = FALSE
  Quantities = {1, 2}
  MaxResting = 5
  ArtOrders = {o1, o2, o3}
  ArtPrices = {0, 2, 3}
  ArtQuantities = {1, 2}
  Addresses = {1, 8, 9}
SPECIFICATION BooksSpec
INVARIANTS TreeSound 
  
SYMMETRY ArtSymmetry
CHECK_DEADLOCK FALSE
