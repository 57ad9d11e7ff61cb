------------------------------- MODULE Orders -------------------------------
(***************************************************************************)
(* The vocabulary every engine of the exchange shares: the enumerations of *)
(* include/core/types.h, the Order of include/core/order.h, and the        *)
(* price-time order in which src/core/orderbook.cpp keeps resting orders.  *)
(* Then the lists of the orders at one price, which both books keep.       *)
(* There is no state here.                                                 *)
(***************************************************************************)
EXTENDS Integers, Sequences

OrderSide == {"BUY", "SELL"}
OrderType == {"LIMIT", "MARKET", "IOC", "FOK"}
OrderStatus == {"PENDING", "PARTIAL_FILLED", "FILLED", "CANCELLED", "REJECTED"}

Opposite(side) == IF side = "BUY" THEN "SELL" ELSE "BUY"

IsActive(o) == o.status \in {"PENDING", "PARTIAL_FILLED"}

(* Here and in the other modules a definition named ...Slip is its neighbour *)
(* with one plausible mistake; no specification uses it, mutation runs do.   *)
MinOfSlip(a, b) == a
MinOf(a, b) == IF b < a THEN b ELSE a

\* A level's total is clamped at zero when an order leaves it.
ClampedMinus(a, b) == IF a - b < 0 THEN 0 ELSE a - b

\* On the bid side the higher price is the better one, on the ask side the lower.
PriceBetter(side, a, b) == IF side = "BUY" THEN a > b ELSE a < b

\* Last in, first out among equal prices.
KeyBeforeSlip(a, b) ==
    \/ PriceBetter(a.side, a.price, b.price)
    \/ a.price = b.price /\ a.timestamp > b.timestamp

\* Order a stands strictly left of order b in the tree of their side.
KeyBefore(a, b) ==
    \/ PriceBetter(a.side, a.price, b.price)
    \/ a.price = b.price /\ a.timestamp < b.timestamp

\* Strict comparison: equal prices no longer trade.
CanMatchSlip(a, b) ==
    /\ a.side # b.side
    /\ \/ "MARKET" \in {a.type, b.type}
       \/ IF a.side = "BUY" THEN a.price > b.price ELSE b.price > a.price

\* MARKET orders match at any price, the others when buy price >= sell price.
CanMatch(a, b) ==
    /\ a.side # b.side
    /\ \/ "MARKET" \in {a.type, b.type}
       \/ IF a.side = "BUY" THEN a.price >= b.price ELSE b.price >= a.price

(* The orders of a price level: a doubly linked list in both books, joined   *)
(* at the end and left anywhere.                                             *)
Without(q, n) ==
    LET at == CHOOSE i \in DOMAIN q : q[i] = n
    IN  [i \in 1 .. Len(q) - 1 |-> q[IF i < at THEN i ELSE i + 1]]

\* The orders in a list, and which of two comes first.
Listed(q) == {q[i] : i \in DOMAIN q}
StandsBefore(q, a, b) == \E i, j \in DOMAIN q : i < j /\ q[i] = a /\ q[j] = b
=============================================================================
