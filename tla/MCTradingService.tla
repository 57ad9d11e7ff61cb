--------------------------- MODULE MCTradingService ---------------------------
(* TradingService for TLC: the orders clients send. *)
EXTENDS TradingService

Limit(p, q) == [user |-> 1, type |-> "LIMIT", price |-> p, quantity |-> q]

\* A small and a large order, one above the position limit, and a market order
\* without a price.  Together the first two need the whole balance.
SomeOrders == {Limit(1, 1), Limit(1, 2), Limit(1, 3), [Limit(0, 1) EXCEPT !.type = "MARKET"]}
InAndOut == {3, -1}
=============================================================================
