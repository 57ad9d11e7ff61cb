-------------------------- MODULE MCOrderBookTree --------------------------
(* OrderBookTree for TLC: the prices of the orders. *)
EXTENDS OrderBookTree

\* Three of five orders share a price.
ThreeAtAPrice == <<1, 2, 2, 2, 3>>
\* One order at each of five prices: the fewest that lose an order.
FivePrices == <<1, 2, 3, 4, 5>>
=============================================================================
