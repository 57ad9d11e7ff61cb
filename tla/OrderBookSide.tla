---------------------------- MODULE OrderBookSide ----------------------------
(***************************************************************************)
(* What one side of the book promises (include/core/orderbook.h): a set of *)
(* resting orders from which best_order() is always the first one in       *)
(* price-time order.  Orders are numbered so that Ahead is a strict total  *)
(* order on them.                                                          *)
(***************************************************************************)
EXTENDS Integers, FiniteSets

CONSTANTS OrderSet, Ahead(_, _), NoOrder

VARIABLES resting, best

BestOf(S) == IF S = {} THEN NoOrder
             ELSE CHOOSE o \in S : \A p \in S \ {o} : Ahead(o, p)

Init == resting = {} /\ best = NoOrder

\* insert and remove, as their callers see them.
Insert(o) == /\ o \notin resting
             /\ resting' = resting \cup {o}
             /\ best' = BestOf(resting')

Remove(o) == /\ o \in resting
             /\ resting' = resting \ {o}
             /\ best' = BestOf(resting')

Next == \E o \in OrderSet : Insert(o) \/ Remove(o)

Spec == Init /\ [][Next]_<<resting, best>>
=============================================================================
