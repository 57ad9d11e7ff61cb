------------------------ MODULE MatchingEngineProofs ------------------------
(***************************************************************************)
(* Proofs about MatchingEngine, for any number of orders, users, prices    *)
(* and quantities.                                                         *)
(***************************************************************************)
EXTENDS MatchingEngine, SumTheorems, NaturalsInduction

Working == pc \in {"match", "done"}

\* What keeps every lookup of the engine inside its tables, whatever ids the
\* callers choose.
TypeInv ==
    /\ TypeOK
    /\ \A o \in 1 .. arrived : /\ order[o].order_id \in OrderIds
                               /\ order[o].user_id \in Users
                               /\ order[o].price \in Prices
    /\ \A s \in OrderSide : \A o \in book[s] :
          o \in 1 .. arrived /\ order[o].side = s /\ order[o].remaining > 0
    /\ \A id \in OrderIds : orders_[id] \in 0 .. arrived
    /\ Working => taker \in 1 .. arrived /\ ~Resting(taker)

\* Callers that never use an id again: object n carries id n.
IdsFresh == \A o \in 1 .. arrived : order[o].order_id = o

\* Every order that is not being processed has found its place.
Settled ==
    \A o \in 1 .. arrived :
        order[o].status # "REJECTED" /\ order[o].type = "LIMIT" /\ ~(Working /\ o = taker)
          => \/ Resting(o)
             \/ order[o].remaining = 0
             \/ order[o].status = "CANCELLED"

TakerInv ==
    Working =>
        /\ taker = arrived /\ taker \notin freed
        /\ order[taker].status # "REJECTED"
        /\ order[taker].type = "LIMIT" => order[taker].status = "PENDING" /\ pc = "match"

\* Later orders have later sequence numbers.
SeqInOrder ==
    /\ \A o \in 1 .. arrived : order[o].sequence_id <= trade_sequence_
    /\ \A o, p \in 1 .. arrived :
          o < p /\ order[p].status # "REJECTED"
            => order[o].sequence_id < order[p].sequence_id

\* Later orders have no earlier timestamps: the clock never steps back.
ClockInOrder ==
    /\ \A o \in 1 .. arrived : order[o].timestamp <= clock
    /\ \A o, p \in 1 .. arrived : o < p => order[o].timestamp <= order[p].timestamp

\* The loop of match_order cannot run into its limit.
LoopBounded ==
    pc = "match" /\ order[taker].remaining > 0 =>
        iteration_count + Cardinality(book[Opposite(order[taker].side)]) < MaxOrders

TradeKnown == trade # NoTrade => {trade.buy, trade.sell} \subseteq 1 .. arrived

TradeInv == /\ SeqInOrder /\ TradeKnown /\ TradeWithinLimits /\ TakerFlagRight
            /\ ~Working => iteration_count = 0

UncrossedInv == LoopBounded /\ BookUncrossed

CancelInv ==
    pc = "cancel" => \A o \in Objects :
        Resting(o) /\ order[o].user_id = canceller => order[o].order_id \in order_ids

\* What rests is what is owned, and every order is accounted for.
OwnInv ==
    /\ TypeInv /\ IdsFresh /\ BookOwned /\ NoDanglingOrder /\ TakerInv
    /\ QuantityConserved /\ Settled /\ UserIndexCoversBook /\ CancelInv
    /\ freed \subseteq 1 .. arrived

-----------------------------------------------------------------------------
(* What each action does to the order it is about, field by field.         *)

\* process_order gives the next object number a fresh, unfilled order.
LEMMA ProcessEffect ==
    ASSUME TypeInv, ProcessOrder
    PROVE  /\ arrived' = arrived + 1 /\ arrived' \in Objects /\ ~Working
           /\ order' \in [Objects -> Order]
           /\ \A o \in Objects \ {arrived'} : order'[o] = order[o]
           /\ LET new == order'[arrived']
              IN  /\ new.order_id \in OrderIds /\ new.order_id \in NewOrderId
                  /\ new.user_id \in Users /\ new.price \in Prices
                  /\ new.filled = 0 /\ new.remaining = new.quantity
                  /\ new.timestamp = clock'
                  /\ \/ /\ new.status = "REJECTED" /\ new.sequence_id = 0
                        /\ UNCHANGED <<pc, taker, trade_sequence_>>
                     \/ /\ new.status = "PENDING" /\ new.quantity > 0
                        /\ trade_sequence_' = trade_sequence_ + 1
                        /\ new.sequence_id = trade_sequence_'
                        /\ pc' = "match" /\ taker' = arrived'
           /\ \E d \in ClockTicks : clock' = clock + d
           /\ UNCHANGED <<bookVars, total_trades_, total_volume_, trade,
                          iteration_count, cancelVars>>
<1> DEFINE n == arrived + 1
<1>1. n \in Objects /\ arrived' = n /\ arrived \in Nat
  BY EngineAssumption DEF TypeInv, TypeOK, ProcessOrder, Objects
<1>2. PICK id \in NewOrderId, u \in Users, i \in Instruments, s \in OrderSide,
           ty \in Types, p \in Prices, q \in Quantities, d \in ClockTicks :
        /\ Accept(n,
              [order_id |-> id, user_id |-> u, instrument_id |-> i, side |-> s,
               type |-> ty, status |-> "PENDING", price |-> p, quantity |-> q,
               filled |-> 0, remaining |-> q, timestamp |-> clock + d,
               sequence_id |-> 0])
        /\ clock' = clock + d
  BY DEF ProcessOrder
<1> DEFINE new == [order_id |-> id, user_id |-> u, instrument_id |-> i, side |-> s,
               type |-> ty, status |-> "PENDING", price |-> p, quantity |-> q,
               filled |-> 0, remaining |-> q, timestamp |-> clock + d,
               sequence_id |-> 0]
<1>3. id \in OrderIds
  BY <1>1, EngineAssumption DEF NewOrderId, OrderIds, Objects
<1>4. new \in Order /\ [new EXCEPT !.status = "REJECTED"] \in Order
      /\ [new EXCEPT !.sequence_id = trade_sequence_ + 1] \in Order
  <2>1. /\ id \in 0 .. MaxOrders /\ ty \in OrderType /\ p \in Int /\ q \in Int
        /\ clock + d \in Int /\ trade_sequence_ + 1 \in Nat
        /\ {"PENDING", "REJECTED"} \subseteq OrderStatus
    BY <1>3, EngineAssumption DEF OrderStatus, OrderIds, TypeInv, TypeOK
  <2>2. new \in Order
    BY <2>1 DEF Order
  <2> HIDE DEF new
  <2> QED BY <2>1, <2>2 DEF Order
<1>5. order \in [Objects -> Order]
  BY DEF TypeInv, TypeOK
<1>6. ~Working
  BY DEF ProcessOrder, Working
<1>7. CASE /\ ~Valid(new) /\ UNCHANGED <<pc, taker, trade_sequence_>>
           /\ order' = [order EXCEPT ![n] = [new EXCEPT !.status = "REJECTED"]]
  <2>1. order'[n] = [new EXCEPT !.status = "REJECTED"]
    BY <1>1, <1>5, <1>7
  <2>2. order' \in [Objects -> Order] /\ \A o \in Objects \ {n} : order'[o] = order[o]
    BY <1>1, <1>4, <1>5, <1>7
  <2> QED BY <2>1, <2>2, <1>1, <1>2, <1>3, <1>6, <1>7 DEF ProcessOrder
<1>8. CASE /\ Valid(new) /\ trade_sequence_' = trade_sequence_ + 1
           /\ order' = [order EXCEPT ![n] = [new EXCEPT !.sequence_id = trade_sequence_ + 1]]
           /\ pc' = "match" /\ taker' = n
  <2>1. order'[n] = [new EXCEPT !.sequence_id = trade_sequence_ + 1]
    BY <1>1, <1>5, <1>8
  <2>2. order' \in [Objects -> Order] /\ \A o \in Objects \ {n} : order'[o] = order[o]
    BY <1>1, <1>4, <1>5, <1>8
  <2>3. q > 0
    BY <1>8 DEF Valid
  <2> QED BY <2>1, <2>2, <2>3, <1>1, <1>2, <1>3, <1>6, <1>8 DEF ProcessOrder
<1> QED BY <1>2, <1>7, <1>8 DEF Accept

\* The fields of an order that no action changes once it has arrived.
Fixed(o) ==
    /\ order'[o].order_id = order[o].order_id /\ order'[o].user_id = order[o].user_id
    /\ order'[o].side = order[o].side /\ order'[o].type = order[o].type
    /\ order'[o].price = order[o].price /\ order'[o].quantity = order[o].quantity
    /\ order'[o].timestamp = order[o].timestamp
    /\ order'[o].sequence_id = order[o].sequence_id

\* remove_order_from_book takes one order out of every table.
LEMMA RemoveEffect ==
    ASSUME TypeInv, NEW o \in 1 .. arrived, NEW rem \in Int, RemoveOrderFromBook(o, rem)
    PROVE  /\ book' = [book EXCEPT ![order[o].side] = @ \ {o}]
           /\ price_levels_' \in [OrderSide -> [Prices -> Nat]]
           /\ orders_' = [orders_ EXCEPT ![order[o].order_id] = 0]
           /\ orders_' \in [OrderIds -> 0 .. arrived]
           /\ freed' = freed \cup ({orders_[order[o].order_id]} \ {0})
           /\ freed' \subseteq Objects
           /\ user_orders_' \in [Users -> SUBSET OrderIds]
           /\ \A u \in Users : \A id \in user_orders_[u] \ {order[o].order_id} :
                 id \in user_orders_'[u]
<1>1. /\ order[o].order_id \in OrderIds /\ order[o].user_id \in Users
      /\ order[o].price \in Prices /\ order[o].side \in OrderSide
      /\ arrived \in 0 .. MaxOrders /\ o \in Objects
  BY EngineAssumption DEF TypeInv, TypeOK, Order, Objects
<1>2. /\ book' = [book EXCEPT ![order[o].side] = @ \ {o}]
      /\ orders_' = [orders_ EXCEPT ![order[o].order_id] = 0]
      /\ freed' = freed \cup ({orders_[order[o].order_id]} \ {0})
  BY DEF RemoveOrderFromBook, RemoveOrder
<1>3. orders_ \in [OrderIds -> 0 .. arrived]
  BY DEF TypeInv, TypeOK
<1>4. orders_' \in [OrderIds -> 0 .. arrived] /\ freed' \subseteq Objects
  <2>1. orders_' \in [OrderIds -> 0 .. arrived]
    BY <1>1, <1>2, <1>3, EngineAssumption
  <2>2. orders_[order[o].order_id] \in 0 .. arrived /\ freed \subseteq Objects
    BY <1>1, <1>3 DEF TypeInv, TypeOK
  <2>3. orders_[order[o].order_id] = 0 \/ orders_[order[o].order_id] \in Objects
    BY <1>1, <2>2, EngineAssumption DEF Objects
  <2> QED BY <1>2, <2>1, <2>2, <2>3
<1>5. price_levels_' \in [OrderSide -> [Prices -> Nat]]
  <2> DEFINE lev == price_levels_[order[o].side]
  <2>1. price_levels_ \in [OrderSide -> [Prices -> Nat]]
    BY DEF TypeInv, TypeOK
  <2>2. price_levels_' = [price_levels_ EXCEPT ![order[o].side][order[o].price]
                            = ClampedMinus(@, rem)]
    BY DEF RemoveOrderFromBook, RemoveOrder
  <2>3. \A a \in Nat : ClampedMinus(a, rem) \in Nat
    BY DEF ClampedMinus
  <2> QED BY <1>1, <2>1, <2>2, <2>3
<1>6. user_orders_ \in [Users -> SUBSET OrderIds]
  BY DEF TypeInv, TypeOK
<1>7. user_orders_' = user_orders_ \/ Purge(o)
  BY DEF RemoveOrderFromBook
<1>8. /\ user_orders_' \in [Users -> SUBSET OrderIds]
      /\ \A u \in Users : \A id \in user_orders_[u] \ {order[o].order_id} :
            id \in user_orders_'[u]
  BY <1>6, <1>7 DEF Purge
<1> QED BY <1>2, <1>4, <1>5, <1>8

\* A turn of match_order trades the smaller of two positive quantities.
LEMMA MatchEffect ==
    ASSUME TypeInv, NEW r \in Objects, Match(r)
    PROVE  LET t == order[taker]
               qty == MinOf(t.remaining, order[r].remaining)
           IN  /\ taker \in 1 .. arrived /\ r \in 1 .. arrived /\ r # taker /\ taker \in Objects
               /\ r \in book[Opposite(t.side)] /\ order[r].side = Opposite(t.side)
               /\ t.side \in OrderSide /\ Opposite(t.side) \in OrderSide
               /\ qty \in Nat \ {0} /\ qty <= t.remaining /\ qty <= order[r].remaining
               /\ qty = t.remaining \/ qty = order[r].remaining
               /\ order' \in [Objects -> Order] /\ \A o \in Objects : Fixed(o)
               /\ \A o \in Objects \ {taker, r} : order'[o] = order[o]
               /\ order'[taker].filled = t.filled + qty
               /\ order'[taker].remaining = t.remaining - qty
               /\ t.type = "LIMIT" => order'[taker].status = t.status /\ pc' = "match"
               /\ order'[taker].status \in {t.status, "CANCELLED"}
               /\ order'[r].filled = order[r].filled + qty
               /\ order'[r].remaining = order[r].remaining - qty
               /\ order'[r].status = order[r].status
               /\ \/ order'[r].remaining = 0 /\ RemoveOrderFromBook(r, 0)
                  \/ order'[r].remaining > 0 /\ UNCHANGED bookVars
<1> DEFINE t == order[taker]
           qty == MinOf(t.remaining, order[r].remaining)
           st == IF t.type \in {"IOC", "FOK"} /\ t.remaining # qty
                    /\ ~(order[r].remaining - qty = 0 /\ book[Opposite(t.side)] = {r})
                 THEN "CANCELLED" ELSE t.status
           newT == Fill(taker, qty, st)
           newR == Fill(r, qty, order[r].status)
<1>1. order \in [Objects -> Order] /\ arrived \in 0 .. MaxOrders
  BY DEF TypeInv, TypeOK
<1>2. Working /\ Meets(r)
  BY DEF Match, Meets, Working
<1>3. taker \in 1 .. arrived /\ taker \in Objects /\ ~Resting(taker)
  BY <1>1, <1>2, EngineAssumption DEF TypeInv, Objects
<1>4. t.side \in OrderSide /\ Opposite(t.side) \in OrderSide
  BY <1>1, <1>3 DEF Order, OrderSide, Opposite
<1>5. r \in book[Opposite(t.side)] /\ t.remaining > 0
  BY <1>2 DEF Meets, IsBest
<1>6. r \in 1 .. arrived /\ order[r].side = Opposite(t.side) /\ order[r].remaining > 0
  BY <1>4, <1>5 DEF TypeInv
<1>7. r # taker
  BY <1>3, <1>4, <1>5 DEF Resting, OrderSide
<1>8. t \in Order /\ order[r] \in Order
  BY <1>1, <1>3
<1>9. /\ t.remaining \in Int /\ order[r].remaining \in Int
      /\ t.filled \in Int /\ order[r].filled \in Int /\ t.status \in OrderStatus
  BY <1>8 DEF Order
<1>10. /\ qty \in Nat \ {0} /\ qty <= t.remaining /\ qty <= order[r].remaining
       /\ qty = t.remaining \/ qty = order[r].remaining
  BY <1>5, <1>6, <1>9 DEF MinOf
<1>11. st \in OrderStatus /\ st \in {t.status, "CANCELLED"}
       /\ (t.type = "LIMIT" => st = t.status)
  BY <1>9 DEF OrderStatus
<1>12. order' = [order EXCEPT ![taker] = newT, ![r] = newR]
  <2>1. ExecuteTrade(r, qty, st)
    BY DEF Match
  <2> HIDE DEF qty, st
  <2> QED BY <2>1 DEF ExecuteTrade
<1>13. newT \in Order /\ newR \in Order
  <2>1. /\ t.filled + qty \in Int /\ t.remaining - qty \in Int
        /\ order[r].filled + qty \in Int /\ order[r].remaining - qty \in Int
    BY <1>9, <1>10
  <2> HIDE DEF qty, st
  <2>2. newT \in Order
    BY <1>8, <1>11, <2>1 DEF Order, Fill
  <2>3. newR \in Order
    BY <1>8, <2>1 DEF Order, Fill
  <2> QED BY <2>2, <2>3
<1>14. /\ order' \in [Objects -> Order] /\ order'[taker] = newT /\ order'[r] = newR
       /\ \A o \in Objects \ {taker, r} : order'[o] = order[o]
  <2> HIDE DEF newT, newR
  <2> QED BY <1>1, <1>3, <1>7, <1>12, <1>13
<1>15. /\ newT.filled = t.filled + qty /\ newT.remaining = t.remaining - qty
       /\ newT.status = st
       /\ newR.filled = order[r].filled + qty /\ newR.status = order[r].status
       /\ newR.remaining = order[r].remaining - qty
  <2> HIDE DEF qty, st
  <2> QED BY <1>8 DEF Order, Fill
<1>16. \A o \in Objects : Fixed(o)
  <2>1. Fixed(taker) /\ Fixed(r)
    <3> HIDE DEF qty, st
    <3> QED BY <1>8, <1>14 DEF Fixed, Order, Fill
  <2> QED BY <2>1, <1>14 DEF Fixed
<1>17. t.type = "LIMIT" => pc' = "match"
  BY DEF Match
<1>18. \/ order'[r].remaining = 0 /\ RemoveOrderFromBook(r, 0)
       \/ order'[r].remaining > 0 /\ UNCHANGED bookVars
  <2>1. \/ order[r].remaining - qty = 0 /\ RemoveOrderFromBook(r, order[r].remaining - qty)
        \/ order[r].remaining - qty # 0 /\ UNCHANGED bookVars
    BY DEF Match
  <2> HIDE DEF qty, newR
  <2> QED BY <2>1, <1>9, <1>10, <1>14, <1>15
<1> HIDE DEF newT, newR, st
<1> QED BY <1>3, <1>4, <1>5, <1>6, <1>7, <1>10, <1>11, <1>14, <1>15, <1>16, <1>17, <1>18

\* The end of process_order changes the status of one order and may rest it.
LEMMA FinishEffect ==
    ASSUME TypeInv, FinishOrder
    PROVE  LET new == order'[taker]
           IN  /\ Working /\ taker \in 1 .. arrived /\ taker \in Objects
               /\ \A r \in Objects : ~Meets(r)
               /\ order' \in [Objects -> Order] /\ \A o \in Objects : Fixed(o)
               /\ \A o \in Objects \ {taker} : order'[o] = order[o]
               /\ new.filled = order[taker].filled /\ new.remaining = order[taker].remaining
               /\ new.status = FinalStatus(order[taker])
               /\ pc' = "idle" /\ taker' = 0 /\ iteration_count' = 0
               /\ price_levels_' \in [OrderSide -> [Prices -> Nat]]
               /\ \/ /\ Rests(new)
                     /\ book' = [book EXCEPT ![new.side] = @ \cup {taker}]
                     /\ price_levels_' = [price_levels_ EXCEPT ![new.side][new.price]
                                            = @ + new.remaining]
                     /\ \/ /\ orders_[new.order_id] = 0
                           /\ orders_' = [orders_ EXCEPT ![new.order_id] = taker]
                           /\ user_orders_' =
                                [user_orders_ EXCEPT ![new.user_id] = @ \cup {new.order_id}]
                        \/ /\ orders_[new.order_id] # 0
                           /\ UNCHANGED <<orders_, user_orders_>>
                  \/ /\ ~Rests(new) \/ orders_[new.order_id] # 0
                     /\ UNCHANGED <<book, price_levels_, orders_, user_orders_>>
               /\ UNCHANGED <<arrived, freed, statVars, clock, cancelVars>>
<1> DEFINE new == [order[taker] EXCEPT !.status = FinalStatus(order[taker])]
<1>1. order \in [Objects -> Order] /\ arrived \in 0 .. MaxOrders
      /\ price_levels_ \in [OrderSide -> [Prices -> Nat]]
  BY DEF TypeInv, TypeOK
<1>2. Working /\ (\A r \in Objects : ~Meets(r))
  BY DEF FinishOrder, Working
<1>3. taker \in 1 .. arrived /\ taker \in Objects
  BY <1>1, <1>2, EngineAssumption DEF TypeInv, Objects
<1>4. order[taker] \in Order /\ FinalStatus(order[taker]) \in OrderStatus
  BY <1>1, <1>3 DEF Order, FinalStatus, OrderStatus
<1>5. /\ new \in Order /\ new.filled = order[taker].filled
      /\ new.remaining = order[taker].remaining
      /\ new.status = FinalStatus(order[taker])
      /\ new.order_id = order[taker].order_id /\ new.user_id = order[taker].user_id
      /\ new.side = order[taker].side /\ new.type = order[taker].type
      /\ new.price = order[taker].price /\ new.quantity = order[taker].quantity
      /\ new.timestamp = order[taker].timestamp
      /\ new.sequence_id = order[taker].sequence_id
  <2> HIDE DEF FinalStatus
  <2> QED BY <1>4 DEF Order
<1>6. order' = [order EXCEPT ![taker] = new]
  BY DEF FinishOrder
<1> HIDE DEF new
<1>7. order' \in [Objects -> Order] /\ order'[taker] = new
      /\ (\A o \in Objects \ {taker} : order'[o] = order[o])
  BY <1>1, <1>3, <1>5, <1>6
<1>8. \A o \in Objects : Fixed(o)
  BY <1>5, <1>7 DEF Fixed
<1> USE DEF new
<1>9. \/ /\ Rests(new) /\ InsertOrder(taker, new)
         /\ orders_[new.order_id] = 0
         /\ orders_' = [orders_ EXCEPT ![new.order_id] = taker]
         /\ user_orders_' = [user_orders_ EXCEPT ![new.user_id] = @ \cup {new.order_id}]
      \/ /\ Rests(new) /\ InsertOrder(taker, new)
         /\ orders_[new.order_id] # 0
         /\ UNCHANGED <<orders_, user_orders_>>
      \/ /\ ~Rests(new) \/ orders_[new.order_id] # 0
         /\ UNCHANGED <<book, price_levels_, orders_, user_orders_>>
  BY DEF FinishOrder
<1> HIDE DEF new
<1>10. ASSUME Rests(new), InsertOrder(taker, new)
       PROVE  /\ book' = [book EXCEPT ![new.side] = @ \cup {taker}]
              /\ price_levels_' = [price_levels_ EXCEPT ![new.side][new.price]
                                     = @ + new.remaining]
              /\ price_levels_' \in [OrderSide -> [Prices -> Nat]]
  <2>1. new.remaining \in Nat /\ new.side \in OrderSide
    BY <1>5, <1>10 DEF Rests, Order
  <2>2. \A a \in Nat : a + new.remaining \in Nat
    BY <2>1
  <2>3. price_levels_' = [price_levels_ EXCEPT ![new.side][new.price] = @ + new.remaining]
    BY <1>10 DEF InsertOrder
  <2>4. new.price \in Prices
    BY <1>3, <1>5 DEF TypeInv
  <2>5. price_levels_' \in [OrderSide -> [Prices -> Nat]]
    BY <1>1, <2>1, <2>2, <2>3, <2>4
  <2> QED BY <1>10, <2>3, <2>5 DEF InsertOrder
<1>11. /\ pc' = "idle" /\ taker' = 0 /\ iteration_count' = 0
       /\ UNCHANGED <<arrived, freed, statVars, clock, cancelVars>>
  BY DEF FinishOrder
<1> QED BY <1>1, <1>2, <1>3, <1>5, <1>7, <1>8, <1>9, <1>10, <1>11

\* A cancellation changes one status and takes that order out of every table.
LEMMA CancelEffect ==
    ASSUME TypeInv, NEW id \in OrderIds, orders_[id] # 0, Cancel(id)
    PROVE  LET o == orders_[id]
           IN  /\ o \in 1 .. arrived /\ o \in Objects
               /\ order' \in [Objects -> Order] /\ \A p \in Objects : Fixed(p)
               /\ \A p \in Objects \ {o} : order'[p] = order[p]
               /\ \A p \in Objects : order'[p].filled = order[p].filled
                                  /\ order'[p].remaining = order[p].remaining
               /\ order'[o].status = "CANCELLED"
               /\ order[o].remaining \in Int /\ RemoveOrderFromBook(o, order[o].remaining)
<1> DEFINE o == orders_[id]
           new == [order[o] EXCEPT !.status = "CANCELLED"]
<1>1. order \in [Objects -> Order] /\ arrived \in 0 .. MaxOrders
  BY DEF TypeInv, TypeOK
<1>2. o \in 1 .. arrived /\ o \in Objects
  <2>1. o \in 0 .. arrived
    BY DEF TypeInv
  <2> QED BY <1>1, <2>1, EngineAssumption DEF Objects
<1>3. order[o] \in Order
  BY <1>1, <1>2
<1>4. /\ new \in Order /\ new.filled = order[o].filled /\ new.status = "CANCELLED"
      /\ new.remaining = order[o].remaining /\ order[o].remaining \in Int
      /\ new.order_id = order[o].order_id /\ new.user_id = order[o].user_id
      /\ new.side = order[o].side /\ new.type = order[o].type
      /\ new.price = order[o].price /\ new.quantity = order[o].quantity
      /\ new.timestamp = order[o].timestamp /\ new.sequence_id = order[o].sequence_id
  <2> HIDE DEF o
  <2> QED BY <1>3 DEF Order, OrderStatus
<1>5. order' = [order EXCEPT ![o] = new] /\ RemoveOrderFromBook(o, order[o].remaining)
  BY DEF Cancel
<1> HIDE DEF new
<1>6. order' \in [Objects -> Order] /\ order'[o] = new
      /\ (\A p \in Objects \ {o} : order'[p] = order[p])
  <2> HIDE DEF o
  <2> QED BY <1>1, <1>2, <1>4, <1>5
<1>7. \A p \in Objects : /\ Fixed(p) /\ order'[p].filled = order[p].filled
                         /\ order'[p].remaining = order[p].remaining
  <2> HIDE DEF o
  <2> QED BY <1>4, <1>6 DEF Fixed
<1> QED BY <1>2, <1>4, <1>5, <1>6, <1>7
-----------------------------------------------------------------------------
(* Type correctness. *)

LEMMA TypeInit == Init => TypeInv
<1> SUFFICES ASSUME Init PROVE TypeInv
  OBVIOUS
<1>1. Blank \in Order /\ NoTrade \in Trade
  BY EngineAssumption DEF Blank, Order, NoTrade, Trade, OrderSide, OrderType, OrderStatus
<1>2. TypeOK
  BY <1>1, EngineAssumption DEF Init, TypeOK, OrderIds, Objects
<1> QED BY <1>2 DEF Init, TypeInv, Working

\* What keeps TypeInv when the orders keep their fields and the book only shrinks.
LEMMA TypeInvKept ==
    ASSUME TypeInv, arrived' = arrived, TypeOK',
           \A o \in Objects : Fixed(o),
           \A s \in OrderSide : book'[s] \subseteq book[s],
           \A s \in OrderSide : \A o \in book'[s] : order'[o].remaining > 0,
           \A id \in OrderIds : orders_'[id] \in 0 .. arrived,
           Working' => Working /\ taker' = taker
    PROVE  TypeInv'
<1>1. arrived \in 0 .. MaxOrders /\ \A o \in 1 .. arrived : o \in Objects
  BY EngineAssumption DEF TypeInv, TypeOK, Objects
<1>2. \A o \in 1 .. arrived' : /\ order'[o].order_id \in OrderIds
                               /\ order'[o].user_id \in Users
                               /\ order'[o].price \in Prices
  BY <1>1 DEF TypeInv, Fixed
<1>3. \A s \in OrderSide : \A o \in book'[s] :
         o \in 1 .. arrived' /\ order'[o].side = s /\ order'[o].remaining > 0
  BY <1>1 DEF TypeInv, Fixed
<1>4. Working' => taker' \in 1 .. arrived' /\ ~Resting(taker)'
  BY DEF TypeInv, Resting, OrderSide
<1> QED BY <1>2, <1>3, <1>4 DEF TypeInv

LEMMA TypeRemove ==
    ASSUME TypeInv, NEW o \in 1 .. arrived, NEW rem \in Int, RemoveOrderFromBook(o, rem)
    PROVE  /\ book' \in [OrderSide -> SUBSET Objects]
           /\ \A s \in OrderSide : book'[s] \subseteq book[s] \ {o}
           /\ \A id \in OrderIds : orders_'[id] \in 0 .. arrived
           /\ orders_' \in [OrderIds -> 0 .. MaxOrders]
<1>1. book \in [OrderSide -> SUBSET Objects] /\ arrived \in 0 .. MaxOrders
      /\ order[o].side \in OrderSide
  <2>1. o \in Objects
    BY EngineAssumption DEF TypeInv, TypeOK, Objects
  <2> QED BY <2>1 DEF TypeInv, TypeOK, Order
<1>2. book' = [book EXCEPT ![order[o].side] = @ \ {o}]
      /\ orders_' \in [OrderIds -> 0 .. arrived]
  BY RemoveEffect
<1>3. \A s \in OrderSide : o \in book[s] => order[o].side = s
  BY DEF TypeInv
<1> QED BY <1>1, <1>2, <1>3, EngineAssumption

LEMMA TypeProcess == TypeInv /\ ProcessOrder => TypeInv'
<1> SUFFICES ASSUME TypeInv, ProcessOrder PROVE TypeInv'
  OBVIOUS
<1> DEFINE n == arrived'
<1>1. /\ n = arrived + 1 /\ n \in Objects /\ ~Working
      /\ order' \in [Objects -> Order]
      /\ \A o \in Objects \ {n} : order'[o] = order[o]
      /\ order'[n].order_id \in OrderIds /\ order'[n].user_id \in Users
      /\ order'[n].price \in Prices
      /\ \/ UNCHANGED <<pc, taker, trade_sequence_>>
         \/ trade_sequence_' = trade_sequence_ + 1 /\ pc' = "match" /\ taker' = n
      /\ \E d \in ClockTicks : clock' = clock + d
      /\ UNCHANGED <<bookVars, total_trades_, total_volume_, trade,
                     iteration_count, cancelVars>>
  BY ProcessEffect
<1>2. arrived \in 0 .. MaxOrders /\ (\A o \in 1 .. n : o = n \/ o \in 1 .. arrived)
      /\ (\A o \in 1 .. arrived : o \in Objects \ {n}) /\ n \in 1 .. n
      /\ (\A o \in 1 .. arrived : o \in 1 .. n) /\ n \in 0 .. MaxOrders
  BY <1>1, EngineAssumption DEF TypeInv, TypeOK, Objects
<1> HIDE DEF n
<1>3. TypeOK'
  BY <1>1, <1>2, EngineAssumption DEF TypeInv, TypeOK, bookVars, cancelVars, n
<1>4. \A o \in 1 .. n : /\ order'[o].order_id \in OrderIds
                        /\ order'[o].user_id \in Users
                        /\ order'[o].price \in Prices
  BY <1>1, <1>2 DEF TypeInv
<1>5. \A s \in OrderSide : \A o \in book'[s] :
         o \in 1 .. n /\ order'[o].side = s /\ order'[o].remaining > 0
  BY <1>1, <1>2 DEF TypeInv, bookVars
<1>6. \A id \in OrderIds : orders_'[id] \in 0 .. n
  BY <1>1, <1>2 DEF TypeInv, bookVars
<1>7. Working' => taker' \in 1 .. n /\ ~Resting(taker)'
  <2>1. n \notin 1 .. arrived
    BY <1>1, <1>2
  <2>2. CASE UNCHANGED pc
    BY <2>2, <1>1 DEF Working
  <2>3. CASE pc' = "match" /\ taker' = n
    BY <2>1, <2>3, <1>1, <1>2 DEF TypeInv, Resting, OrderSide, bookVars
  <2> QED BY <2>2, <2>3, <1>1
<1> QED BY <1>3, <1>4, <1>5, <1>6, <1>7 DEF TypeInv, n

LEMMA TypeMatch == ASSUME TypeInv, NEW r \in Objects, Match(r) PROVE TypeInv'
<1> DEFINE t == order[taker]
           qty == MinOf(t.remaining, order[r].remaining)
<1>1. /\ taker \in 1 .. arrived /\ taker \in Objects /\ r \in 1 .. arrived /\ r # taker
      /\ r \in book[order[r].side] /\ order[r].side \in OrderSide
      /\ qty \in Nat \ {0}
      /\ order' \in [Objects -> Order] /\ \A o \in Objects : Fixed(o)
      /\ \A o \in Objects \ {taker, r} : order'[o] = order[o]
      /\ \/ order'[r].remaining = 0 /\ RemoveOrderFromBook(r, 0)
         \/ order'[r].remaining > 0 /\ UNCHANGED bookVars
  BY MatchEffect
<1>2. /\ trade' = NewTrade(r, qty)
      /\ trade_sequence_' = trade_sequence_ + 1
      /\ total_trades_' = total_trades_ + 1
      /\ total_volume_' = total_volume_ + qty
      /\ iteration_count' = iteration_count + 1
      /\ pc' \in {"match", "done"}
      /\ UNCHANGED <<arrived, clock, taker, cancelVars>>
  BY DEF Match
<1>3. Working
  BY DEF Match, Meets, Working
<1> HIDE DEF qty
<1>4. trade' \in Trade
  <2>1. order[r] \in Order /\ trade_sequence_ + 1 \in Nat /\ qty \in Int
        /\ taker \in 0 .. MaxOrders /\ r \in 0 .. MaxOrders
    BY <1>1, EngineAssumption DEF TypeInv, TypeOK, Objects
  <2>2. order[r].price \in Int
    BY <2>1 DEF Order
  <2>3. \A b, c \in Objects : TakerBuys(b, c) \in BOOLEAN
    BY DEF TakerBuys
  <2> QED BY <1>1, <1>2, <2>1, <2>2, <2>3 DEF NewTrade, Trade, MatchPrice
<1>5. /\ trade_sequence_' \in Nat /\ total_trades_' \in Nat /\ total_volume_' \in Nat
      /\ iteration_count' \in Nat
  BY <1>1, <1>2 DEF TypeInv, TypeOK
<1>6. TypeInv /\ \A s \in OrderSide : \A o \in book[s] : o \in Objects /\ o # taker
                                                     /\ order[o].remaining > 0
  BY <1>1, <1>3, EngineAssumption DEF TypeInv, TypeOK, Resting, OrderSide, Objects
<1>7. CASE order'[r].remaining = 0 /\ RemoveOrderFromBook(r, 0)
  <2>1. /\ book' \in [OrderSide -> SUBSET Objects]
        /\ \A s \in OrderSide : book'[s] \subseteq book[s] \ {r}
        /\ \A id \in OrderIds : orders_'[id] \in 0 .. arrived
        /\ orders_' \in [OrderIds -> 0 .. MaxOrders]
    BY <1>1, <1>7, TypeRemove
  <2>2. price_levels_' \in [OrderSide -> [Prices -> Nat]] /\ freed' \subseteq Objects
        /\ user_orders_' \in [Users -> SUBSET OrderIds]
    BY <1>1, <1>7, RemoveEffect
  <2>3. TypeOK'
    BY <1>1, <1>2, <1>4, <1>5, <2>1, <2>2 DEF TypeInv, TypeOK, cancelVars
  <2>4. \A s \in OrderSide : \A o \in book'[s] : order'[o].remaining > 0
    BY <1>1, <1>6, <2>1
  <2> QED BY <1>1, <1>2, <1>3, <2>1, <2>3, <2>4, TypeInvKept
<1>8. CASE order'[r].remaining > 0 /\ UNCHANGED bookVars
  <2>1. TypeOK'
    BY <1>1, <1>2, <1>4, <1>5, <1>8 DEF TypeInv, TypeOK, bookVars, cancelVars
  <2>2. \A s \in OrderSide : \A o \in book'[s] : order'[o].remaining > 0
    BY <1>1, <1>6, <1>8 DEF bookVars
  <2>3. \A id \in OrderIds : orders_'[id] \in 0 .. arrived
    BY <1>8 DEF TypeInv, bookVars
  <2>4. \A s \in OrderSide : book'[s] \subseteq book[s]
    BY <1>8 DEF bookVars
  <2> QED BY <1>1, <1>2, <1>3, <2>1, <2>2, <2>3, <2>4, TypeInvKept
<1> QED BY <1>1, <1>7, <1>8

LEMMA TypeFinish == TypeInv /\ FinishOrder => TypeInv'
<1> SUFFICES ASSUME TypeInv, FinishOrder PROVE TypeInv'
  OBVIOUS
<1> DEFINE new == order'[taker]
<1>1. /\ Working /\ taker \in 1 .. arrived /\ taker \in Objects
      /\ order' \in [Objects -> Order] /\ \A o \in Objects : Fixed(o)
      /\ \A o \in Objects \ {taker} : order'[o] = order[o]
      /\ pc' = "idle" /\ taker' = 0 /\ iteration_count' = 0
      /\ price_levels_' \in [OrderSide -> [Prices -> Nat]]
      /\ UNCHANGED <<arrived, freed, statVars, clock, cancelVars>>
  BY FinishEffect
<1>2. \/ /\ Rests(new)
         /\ book' = [book EXCEPT ![new.side] = @ \cup {taker}]
         /\ \/ /\ orders_' = [orders_ EXCEPT ![new.order_id] = taker]
               /\ user_orders_' = [user_orders_ EXCEPT ![new.user_id] = @ \cup {new.order_id}]
            \/ UNCHANGED <<orders_, user_orders_>>
      \/ UNCHANGED <<book, orders_, user_orders_>>
  BY FinishEffect
<1>3. new \in Order /\ new.side \in OrderSide
      /\ arrived \in 0 .. MaxOrders /\ taker \in 0 .. MaxOrders
  <2>1. new \in Order
    BY <1>1
  <2> QED BY <1>1, <2>1, EngineAssumption DEF Order, TypeInv, TypeOK
<1>4. new.order_id \in OrderIds /\ new.user_id \in Users
  BY <1>1 DEF TypeInv, Fixed
<1> HIDE DEF new
<1>5. book' \in [OrderSide -> SUBSET Objects]
  <2>1. book \in [OrderSide -> SUBSET Objects]
    BY DEF TypeInv, TypeOK
  <2>2. CASE book' = [book EXCEPT ![new.side] = @ \cup {taker}]
    BY <1>1, <1>3, <2>1, <2>2
  <2> QED BY <1>2, <2>1, <2>2
<1>6. orders_' \in [OrderIds -> 0 .. MaxOrders] /\ \A id \in OrderIds : orders_'[id] \in 0 .. arrived
  <2>1. orders_ \in [OrderIds -> 0 .. MaxOrders] /\ \A id \in OrderIds : orders_[id] \in 0 .. arrived
    BY DEF TypeInv, TypeOK
  <2>2. taker \in 0 .. arrived
    BY <1>1, <1>3
  <2>3. CASE orders_' = [orders_ EXCEPT ![new.order_id] = taker]
    BY <1>3, <1>4, <2>1, <2>2, <2>3
  <2> QED BY <1>2, <2>1, <2>3
<1>7. user_orders_' \in [Users -> SUBSET OrderIds]
  BY <1>2, <1>4 DEF TypeInv, TypeOK
<1>8. TypeOK'
  BY <1>1, <1>5, <1>6, <1>7, EngineAssumption DEF TypeInv, TypeOK, statVars, cancelVars
<1>9. \A s \in OrderSide : \A o \in book'[s] : o \in 1 .. arrived /\ order'[o].side = s
                                                /\ order'[o].remaining > 0
  <2> SUFFICES ASSUME NEW s \in OrderSide, NEW o \in book'[s]
               PROVE  o \in 1 .. arrived /\ order'[o].side = s /\ order'[o].remaining > 0
    OBVIOUS
  <2>1. CASE o \in book[s]
    <3>1. o \in 1 .. arrived /\ o \in Objects /\ o # taker
      BY <1>1, <2>1, EngineAssumption DEF TypeInv, TypeOK, Resting, OrderSide, Objects
    <3> QED BY <1>1, <2>1, <3>1 DEF TypeInv
  <2>2. CASE o \notin book[s]
    <3>1. Rests(new) /\ o = taker /\ s = new.side
      BY <1>2, <1>3, <2>2 DEF TypeInv, TypeOK
    <3> QED BY <1>1, <3>1 DEF Rests, new
  <2> QED BY <2>1, <2>2
<1>10. \A o \in 1 .. arrived : /\ order'[o].order_id \in OrderIds
                               /\ order'[o].user_id \in Users
                               /\ order'[o].price \in Prices
  <2>1. \A o \in 1 .. arrived : o \in Objects
    BY <1>3, EngineAssumption DEF Objects
  <2> QED BY <1>1, <2>1 DEF TypeInv, Fixed
<1> QED BY <1>1, <1>6, <1>8, <1>9, <1>10 DEF TypeInv, Working

LEMMA TypeCancel ==
    ASSUME TypeInv, NEW id \in OrderIds, orders_[id] # 0, Cancel(id),
           UNCHANGED <<arrived, statVars, clock, taker, iteration_count>>,
           pc \in {"idle", "cancel"}, pc' \in {"idle", "cancel"},
           canceller' \in Users \cup {0}, order_ids' \subseteq OrderIds
    PROVE  TypeInv'
<1> DEFINE o == orders_[id]
<1>1. /\ o \in 1 .. arrived /\ o \in Objects
      /\ order' \in [Objects -> Order] /\ \A p \in Objects : Fixed(p)
      /\ \A p \in Objects : order'[p].remaining = order[p].remaining
      /\ order[o].remaining \in Int /\ RemoveOrderFromBook(o, order[o].remaining)
  BY CancelEffect
<1>2. /\ book' \in [OrderSide -> SUBSET Objects]
      /\ \A s \in OrderSide : book'[s] \subseteq book[s] \ {o}
      /\ \A i \in OrderIds : orders_'[i] \in 0 .. arrived
      /\ orders_' \in [OrderIds -> 0 .. MaxOrders]
  BY <1>1, TypeRemove
<1>3. price_levels_' \in [OrderSide -> [Prices -> Nat]] /\ freed' \subseteq Objects
      /\ user_orders_' \in [Users -> SUBSET OrderIds]
  BY <1>1, RemoveEffect
<1>4. TypeOK'
  BY <1>1, <1>2, <1>3 DEF TypeInv, TypeOK, statVars
<1>5. \A s \in OrderSide : \A p \in book'[s] : order'[p].remaining > 0
  BY <1>1, <1>2 DEF TypeInv, TypeOK
<1>6. ~Working' /\ \A s \in OrderSide : book'[s] \subseteq book[s]
  BY <1>2 DEF Working
<1> QED BY <1>1, <1>2, <1>4, <1>5, <1>6, TypeInvKept

LEMMA TypeStep == TypeInv /\ [Next]_vars => TypeInv'
<1> SUFFICES ASSUME TypeInv, [Next]_vars PROVE TypeInv'
  OBVIOUS
<1>1. CASE ProcessOrder
  BY <1>1, TypeProcess
<1>2. ASSUME NEW r \in Objects, Match(r) PROVE TypeInv'
  BY <1>2, TypeMatch
<1>3. CASE FinishOrder
  BY <1>3, TypeFinish
<1>4. ASSUME NEW id \in OrderIds, NEW u \in Users, CancelOrder(id, u) PROVE TypeInv'
  <2>1. /\ orders_[id] # 0 /\ Cancel(id)
        /\ UNCHANGED <<arrived, statVars, clock, taker, iteration_count, pc, cancelVars>>
        /\ pc = "idle"
    BY <1>4 DEF CancelOrder, Cancellable
  <2>2. canceller' \in Users \cup {0} /\ order_ids' \subseteq OrderIds
        /\ pc' \in {"idle", "cancel"}
    BY <2>1 DEF TypeInv, TypeOK, cancelVars
  <2> QED BY <2>1, <2>2, TypeCancel
<1>5. ASSUME NEW u \in Users, CancelAllOrders(u) PROVE TypeInv'
  <2>1. TypeOK'
    BY <1>5 DEF CancelAllOrders, TypeInv, TypeOK, bookVars, statVars
  <2>2. ~Working'
    BY <1>5 DEF CancelAllOrders, Working
  <2> QED BY <1>5, <2>1, <2>2 DEF CancelAllOrders, TypeInv, bookVars
<1>6. ASSUME NEW id \in OrderIds, CancelNext(id) PROVE TypeInv'
  <2>1. /\ canceller' \in Users \cup {0} /\ order_ids' \subseteq OrderIds
        /\ pc = "cancel" /\ pc' \in {"idle", "cancel"}
        /\ UNCHANGED <<arrived, statVars, clock, taker, iteration_count>>
    BY <1>6 DEF CancelNext, Advance, TypeInv, TypeOK
  <2>2. CASE Cancellable(id, canceller) /\ Cancel(id)
    BY <2>1, <2>2, TypeCancel DEF Cancellable
  <2>3. CASE UNCHANGED <<order, bookVars>>
    <3>1. TypeOK'
      BY <2>1, <2>3 DEF TypeInv, TypeOK, bookVars, statVars
    <3> QED BY <2>1, <2>3, <3>1 DEF TypeInv, bookVars, Working
  <2> QED BY <1>6, <2>2, <2>3 DEF CancelNext
<1>7. CASE UNCHANGED vars
  BY <1>7 DEF vars, bookVars, statVars, cancelVars, TypeInv, TypeOK, Working, Resting
<1> QED BY <1>1, <1>2, <1>3, <1>4, <1>5, <1>6, <1>7 DEF Next

\* The engine's state stays within its types, whatever the callers send, reused
\* ids included: no lookup of process_order or cancel_order leaves its table.
THEOREM TypeCorrect == Spec => []TypeOK
<1>1. TypeInv => TypeOK
  BY DEF TypeInv
<1> QED BY <1>1, TypeInit, TypeStep, PTL DEF Spec
-----------------------------------------------------------------------------
(* Ownership, for callers that never use an order_id again.                *)

\* Under OwnInv a resting order is the one owned under its own number.
LEMMA OwnedByNumber ==
    ASSUME TypeInv, IdsFresh, BookOwned, NEW o, Resting(o)
    PROVE  /\ o \in 1 .. arrived /\ o \in Objects /\ o \in OrderIds
           /\ order[o].order_id = o /\ orders_[o] = o
           /\ order[o].user_id \in Users /\ order[o].side \in OrderSide
           /\ o \in book[order[o].side] /\ order[o].remaining > 0
           /\ IsActive(order[o]) /\ order[o].type = "LIMIT" /\ o \notin {0, arrived + 1}
<1>1. PICK s \in OrderSide : o \in book[s]
  BY DEF Resting, OrderSide
<1>2. o \in 1 .. arrived /\ order[o].side = s /\ order[o].remaining > 0
  BY <1>1 DEF TypeInv
<1>3. arrived \in 0 .. MaxOrders
  BY DEF TypeInv, TypeOK
<1>4. o \in Objects /\ o \in OrderIds /\ o \notin {0, arrived + 1}
  BY <1>2, <1>3, EngineAssumption DEF Objects, OrderIds
<1>5. order[o].order_id = o /\ order[o].user_id \in Users
  BY <1>2 DEF IdsFresh, TypeInv
<1> QED BY <1>1, <1>2, <1>4, <1>5 DEF BookOwned

\* Taking a resting order out of the book leaves the others owned and indexed.
LEMMA OwnShrink ==
    ASSUME TypeInv, IdsFresh, BookOwned, NoDanglingOrder, UserIndexCoversBook,
           NEW o, Resting(o), NEW rem \in Int, RemoveOrderFromBook(o, rem),
           \A p \in Objects : Fixed(p), arrived' = arrived,
           \A p \in Objects : Resting(p) /\ p # o => order'[p] = order[p]
    PROVE  /\ IdsFresh' /\ BookOwned' /\ NoDanglingOrder' /\ UserIndexCoversBook'
           /\ \A p : Resting(p)' <=> Resting(p) /\ p # o
           /\ freed' = freed \cup {o}
<1>1. /\ o \in 1 .. arrived /\ o \in Objects /\ o \in OrderIds /\ o # 0
      /\ order[o].order_id = o /\ orders_[o] = o /\ order[o].side \in OrderSide
  BY OwnedByNumber
<1>2. /\ book' = [book EXCEPT ![order[o].side] = @ \ {o}]
      /\ orders_' = [orders_ EXCEPT ![o] = 0]
      /\ freed' = freed \cup {o}
      /\ \A u \in Users : \A id \in user_orders_[u] \ {o} : id \in user_orders_'[u]
  BY <1>1, RemoveEffect
<1>3. book \in [OrderSide -> SUBSET Objects] /\ arrived \in 0 .. MaxOrders
      /\ orders_ \in [OrderIds -> 0 .. MaxOrders]
  BY DEF TypeInv, TypeOK
<1>4. \A s \in OrderSide : book'[s] = book[s] \ {o}
  <2> SUFFICES ASSUME NEW s \in OrderSide PROVE book'[s] = book[s] \ {o}
    OBVIOUS
  <2>1. CASE s = order[o].side
    BY <1>2, <1>3, <2>1
  <2>2. CASE s # order[o].side
    <3>1. o \notin book[s]
      BY <2>2 DEF TypeInv
    <3> QED BY <1>2, <1>3, <2>2, <3>1
  <2> QED BY <2>1, <2>2
<1>5. \A p : Resting(p)' <=> Resting(p) /\ p # o
  BY <1>4 DEF Resting, OrderSide
<1>6. \A p : Resting(p)' => /\ Resting(p) /\ p # o /\ p \in Objects /\ p \in OrderIds
                            /\ order'[p] = order[p] /\ order[p].order_id = p
                            /\ orders_[p] = p /\ order[p].user_id \in Users
  BY <1>5, OwnedByNumber
<1>7. IdsFresh'
  BY <1>3, EngineAssumption DEF IdsFresh, Fixed, Objects
<1>8. BookOwned'
  <2>1. ASSUME NEW id \in OrderIds, orders_'[id] # 0
        PROVE  (Resting(orders_[id]) /\ order[orders_[id]].order_id = id)'
    <3>1. id # o /\ orders_'[id] = orders_[id]
      BY <1>2, <1>3, <2>1
    <3>2. Resting(orders_[id]) /\ order[orders_[id]].order_id = id
      BY <2>1, <3>1 DEF BookOwned
    <3>3. orders_[id] = id
      BY <3>2, OwnedByNumber
    <3>4. Resting(orders_[id])'
      BY <1>5, <3>1, <3>2, <3>3
    <3> QED BY <1>6, <3>1, <3>2, <3>3, <3>4
  <2>2. ASSUME NEW s \in OrderSide, NEW p \in book'[s]
        PROVE  /\ orders_'[order'[p].order_id] = p /\ order'[p].side = s
               /\ order'[p].type = "LIMIT" /\ IsActive(order'[p])
               /\ order'[p].remaining > 0
    <3>1. Resting(p)'
      BY <2>2 DEF Resting, OrderSide
    <3>2. p \in book[s]
      BY <1>4
    <3>3. orders_'[p] = orders_[p]
      BY <1>2, <1>3, <1>6, <3>1
    <3> QED BY <1>6, <3>1, <3>2, <3>3 DEF BookOwned
  <2> QED BY <2>1, <2>2 DEF BookOwned
<1>9. NoDanglingOrder'
  BY <1>2, <1>4 DEF NoDanglingOrder, Defined
<1>10. UserIndexCoversBook'
  BY <1>2, <1>5, <1>6 DEF UserIndexCoversBook
<1> QED BY <1>2, <1>5, <1>7, <1>8, <1>9, <1>10

LEMMA OwnInit == Init => OwnInv
<1> SUFFICES ASSUME Init PROVE OwnInv
  OBVIOUS
<1>1. TypeInv
  BY TypeInit
<1>2. \A o : ~Resting(o)
  BY DEF Init, Resting, OrderSide
<1> QED BY <1>1, <1>2, EngineAssumption DEF Init, OwnInv, IdsFresh, BookOwned, NoDanglingOrder, Defined, TakerInv,
        Working, QuantityConserved, Accepted, Settled, UserIndexCoversBook, CancelInv

LEMMA OwnProcess == ASSUME ~ReuseIds, OwnInv, ProcessOrder PROVE OwnInv'
<1> DEFINE n == arrived'
<1>1. /\ n = arrived + 1 /\ n \in Objects /\ ~Working
      /\ \A o \in Objects \ {n} : order'[o] = order[o]
      /\ order'[n].order_id \in NewOrderId
      /\ order'[n].filled = 0 /\ order'[n].remaining = order'[n].quantity
      /\ \/ order'[n].status = "REJECTED" /\ UNCHANGED <<pc, taker>>
         \/ /\ order'[n].status = "PENDING" /\ order'[n].quantity > 0
            /\ pc' = "match" /\ taker' = n
      /\ UNCHANGED <<bookVars, cancelVars>>
  BY ProcessEffect DEF OwnInv
<1>2. arrived \in 0 .. MaxOrders /\ (\A o \in 1 .. n : o = n \/ o \in 1 .. arrived)
      /\ (\A o \in 1 .. arrived : o \in Objects \ {n} /\ o \in 1 .. n)
      /\ order'[n].quantity \in Int /\ pc = "idle" /\ n \notin 1 .. arrived
  <2>1. arrived \in 0 .. MaxOrders
    BY DEF OwnInv, TypeInv, TypeOK
  <2>2. order'[n] \in Order
    BY <1>1, ProcessEffect DEF OwnInv
  <2> QED BY <1>1, <2>1, <2>2, EngineAssumption DEF Objects, Order, ProcessOrder
<1> HIDE DEF n
<1>3. TypeInv' /\ \A o : Resting(o)' <=> Resting(o)
  BY <1>1, TypeProcess DEF OwnInv, bookVars, Resting
<1>4. \A o : Resting(o) => o \in 1 .. arrived /\ o \in Objects \ {n} /\ order'[o] = order[o]
  BY <1>1, <1>2, OwnedByNumber DEF OwnInv
<1>5. IdsFresh'
  BY <1>1, <1>2 DEF OwnInv, IdsFresh, NewOrderId, n
<1>6. BookOwned'
  <2>1. \A s \in OrderSide : \A o \in book[s] : Resting(o)
    BY DEF Resting, OrderSide
  <2>2. book' = book /\ orders_' = orders_
    BY <1>1 DEF bookVars
  <2> QED BY <1>3, <1>4, <2>1, <2>2 DEF OwnInv, BookOwned
<1>7. NoDanglingOrder' /\ freed' \subseteq 1 .. n
  BY <1>1, <1>2 DEF OwnInv, NoDanglingOrder, Defined, bookVars
<1>8. TakerInv'
  BY <1>1, <1>2 DEF TakerInv, Working, OwnInv, bookVars, n
<1>9. QuantityConserved'
  BY <1>1, <1>2 DEF OwnInv, QuantityConserved, Accepted, n
<1>10. Settled'
  BY <1>1, <1>2, <1>3 DEF OwnInv, Settled, Working, n
<1>11. UserIndexCoversBook'
  BY <1>1, <1>3, <1>4 DEF OwnInv, UserIndexCoversBook, bookVars
<1>12. CancelInv'
  BY <1>1, <1>2 DEF CancelInv
<1> QED BY <1>3, <1>5, <1>6, <1>7, <1>8, <1>9, <1>10, <1>11, <1>12 DEF OwnInv, n

LEMMA OwnMatch == ASSUME OwnInv, NEW r \in Objects, Match(r) PROVE OwnInv'
<1> DEFINE t == order[taker]
           qty == MinOf(t.remaining, order[r].remaining)
<1>1. /\ taker \in 1 .. arrived /\ taker \in Objects /\ r \in 1 .. arrived /\ r # taker
      /\ r \in book[order[r].side] /\ order[r].side \in OrderSide
      /\ qty \in Nat \ {0} /\ qty <= t.remaining /\ qty <= order[r].remaining
      /\ \A o \in Objects : Fixed(o)
      /\ \A o \in Objects \ {taker, r} : order'[o] = order[o]
      /\ order'[taker].filled = t.filled + qty
      /\ order'[taker].remaining = t.remaining - qty
      /\ t.type = "LIMIT" => order'[taker].status = t.status /\ pc' = "match"
      /\ order'[taker].status \in {t.status, "CANCELLED"}
      /\ order'[r].filled = order[r].filled + qty
      /\ order'[r].remaining = order[r].remaining - qty
      /\ order'[r].status = order[r].status
      /\ \/ order'[r].remaining = 0 /\ RemoveOrderFromBook(r, 0)
         \/ order'[r].remaining > 0 /\ UNCHANGED bookVars
  BY MatchEffect DEF OwnInv
<1>2. UNCHANGED <<arrived, taker, cancelVars>> /\ Working /\ Working' /\ pc # "cancel"
      /\ pc' # "cancel"
  BY DEF Match, Meets, Working
<1>3. Resting(r) /\ ~Resting(taker) /\ TypeInv /\ IdsFresh /\ BookOwned
      /\ NoDanglingOrder /\ UserIndexCoversBook
  BY <1>1, <1>2 DEF OwnInv, Resting, OrderSide, TypeInv
<1> HIDE DEF qty
<1>4. TypeInv'
  BY TypeMatch DEF OwnInv
<1>5. /\ IdsFresh' /\ BookOwned' /\ NoDanglingOrder' /\ UserIndexCoversBook'
      /\ \A p : Resting(p)' => Resting(p)
      /\ \A p \in Objects \ {r} : Resting(p) => Resting(p)'
      /\ order'[r].remaining = 0 \/ Resting(r)'
      /\ freed' \subseteq freed \cup {r}
  <2>1. CASE order'[r].remaining = 0 /\ RemoveOrderFromBook(r, 0)
    <3>1. \A p \in Objects : Resting(p) /\ p # r => order'[p] = order[p]
      BY <1>1, <1>3
    <3>2. /\ IdsFresh' /\ BookOwned' /\ NoDanglingOrder' /\ UserIndexCoversBook'
          /\ \A p : Resting(p)' <=> Resting(p) /\ p # r
          /\ freed' = freed \cup {r}
      BY <1>1, <1>2, <1>3, <2>1, <3>1, OwnShrink
    <3> QED BY <2>1, <3>2
  <2>2. CASE order'[r].remaining > 0 /\ UNCHANGED bookVars
    <3>1. \A p : Resting(p)' <=> Resting(p)
      BY <2>2 DEF bookVars, Resting
    <3>2. \A p : Resting(p) => p \in Objects /\ p # taker
      BY <1>3, OwnedByNumber
    <3>3. \A o \in 1 .. arrived : o \in Objects
      BY EngineAssumption DEF OwnInv, TypeInv, TypeOK, Objects
    <3>4. IdsFresh'
      BY <1>1, <1>2, <1>3, <3>3 DEF IdsFresh, Fixed
    <3>5. \A p \in Objects : Resting(p) => /\ order'[p].remaining > 0
                                           /\ order'[p].status = order[p].status
                                           /\ Fixed(p)
      BY <1>1, <1>3, <2>2, <3>2, OwnedByNumber
    <3>6. BookOwned'
      <4>1. \A s \in OrderSide : \A o \in book[s] : Resting(o)
        BY DEF Resting, OrderSide
      <4>2. book' = book /\ orders_' = orders_
        BY <2>2 DEF bookVars
      <4> QED BY <1>3, <3>1, <3>2, <3>5, <4>1, <4>2 DEF BookOwned, Fixed, IsActive
    <3>7. NoDanglingOrder' /\ UserIndexCoversBook'
      BY <1>1, <1>3, <2>2, <3>1 DEF NoDanglingOrder, Defined, UserIndexCoversBook, bookVars, Fixed
    <3> QED BY <1>3, <2>2, <3>1, <3>4, <3>6, <3>7 DEF bookVars
  <2> QED BY <1>1, <2>1, <2>2
<1>6. TakerInv'
  BY <1>1, <1>2, <1>5 DEF OwnInv, TakerInv, Fixed
<1>7. QuantityConserved'
  <2>1. Accepted(taker) /\ Accepted(r)
    BY <1>1, <1>2, <1>3 DEF OwnInv, TakerInv, Accepted, Resting, BookOwned, IsActive, OrderSide
  <2>2. order \in [Objects -> Order]
    BY DEF OwnInv, TypeInv, TypeOK
  <2>3. /\ t.filled \in Int /\ t.remaining \in Int /\ t.quantity \in Int
        /\ order[r].filled \in Int /\ order[r].remaining \in Int /\ order[r].quantity \in Int
    BY <1>1, <2>2 DEF Order
  <2>4. \A o \in {taker, r} : /\ order'[o].filled + order'[o].remaining = order'[o].quantity
                              /\ order'[o].filled >= 0 /\ order'[o].remaining >= 0
    BY <1>1, <2>1, <2>3 DEF OwnInv, QuantityConserved, Fixed
  <2> QED BY <1>1, <1>2, <2>4 DEF OwnInv, QuantityConserved, Accepted
<1>8. Settled'
  <2>1. \A o \in 1 .. arrived : o \in Objects
    BY EngineAssumption DEF OwnInv, TypeInv, TypeOK, Objects
  <2> QED BY <1>1, <1>2, <1>5, <2>1 DEF OwnInv, Settled, Fixed
<1>9. CancelInv' /\ freed' \subseteq 1 .. arrived'
  BY <1>1, <1>2, <1>5 DEF OwnInv, CancelInv
<1> QED BY <1>4, <1>5, <1>6, <1>7, <1>8, <1>9 DEF OwnInv

LEMMA OwnFinish == ASSUME OwnInv, FinishOrder PROVE OwnInv'
<1>0. PICK m \in Objects : m = taker
  BY FinishEffect DEF OwnInv
<1> DEFINE new == order'[m]
<1>1. /\ Working /\ m = taker /\ m \in 1 .. arrived /\ m \in Objects
      /\ \A o \in Objects : Fixed(o)
      /\ \A o \in Objects \ {m} : order'[o] = order[o]
      /\ new.filled = order[m].filled /\ new.remaining = order[m].remaining
      /\ new.status = FinalStatus(order[m])
      /\ pc' = "idle" /\ UNCHANGED <<arrived, freed, cancelVars>>
  BY <1>0, FinishEffect DEF OwnInv
<1>2. \/ /\ Rests(new)
         /\ book' = [book EXCEPT ![new.side] = @ \cup {m}]
         /\ \/ /\ orders_[new.order_id] = 0
               /\ orders_' = [orders_ EXCEPT ![new.order_id] = m]
               /\ user_orders_' = [user_orders_ EXCEPT ![new.user_id] = @ \cup {new.order_id}]
            \/ orders_[new.order_id] # 0 /\ UNCHANGED <<orders_, user_orders_>>
      \/ /\ ~Rests(new) \/ orders_[new.order_id] # 0
         /\ UNCHANGED <<book, orders_, user_orders_>>
  BY <1>0, FinishEffect DEF OwnInv
<1>3. TypeInv' /\ TypeInv /\ IdsFresh /\ BookOwned
  BY TypeFinish DEF OwnInv
<1>4. /\ arrived \in 0 .. MaxOrders /\ \A o \in 1 .. arrived : o \in Objects
      /\ m \in OrderIds
  BY <1>1, EngineAssumption DEF OwnInv, TypeInv, TypeOK, Objects, OrderIds
<1>5. /\ new.order_id = m /\ new.user_id \in Users /\ new.side \in OrderSide
      /\ new.side = order[m].side /\ new.user_id = order[m].user_id
  <2>1. order[m] \in Order
    BY <1>1 DEF OwnInv, TypeInv, TypeOK
  <2> QED BY <1>1, <2>1 DEF OwnInv, IdsFresh, TypeInv, Fixed, Order
\* The id of the object at work is not taken: its owner would be at rest.
<1>6. orders_[m] = 0 /\ ~Resting(m)
  <2>1. ~Resting(m)
    BY <1>1 DEF OwnInv, TypeInv
  <2>2. ASSUME orders_[m] # 0 PROVE FALSE
    <3>1. Resting(orders_[m]) /\ order[orders_[m]].order_id = m
      BY <1>4, <2>2 DEF OwnInv, BookOwned
    <3>2. orders_[m] = m
      BY <1>3, <3>1, OwnedByNumber
    <3> QED BY <2>1, <3>1, <3>2
  <2> QED BY <2>1, <2>2
<1> HIDE DEF new
<1>7. \A p : Resting(p) => /\ p \in Objects /\ p \in OrderIds /\ p # m
                           /\ order'[p] = order[p] /\ orders_[p] = p
                           /\ order[p].order_id = p /\ order[p].user_id \in Users
  BY <1>1, <1>3, <1>6, OwnedByNumber
<1>8. IdsFresh'
  BY <1>1, <1>3, <1>4 DEF IdsFresh, Fixed
<1>9. ASSUME /\ Rests(new)
             /\ book' = [book EXCEPT ![new.side] = @ \cup {m}]
             /\ orders_' = [orders_ EXCEPT ![m] = m]
             /\ user_orders_' = [user_orders_ EXCEPT ![new.user_id] = @ \cup {m}]
      PROVE  BookOwned' /\ NoDanglingOrder' /\ UserIndexCoversBook'
  <2>1. /\ book \in [OrderSide -> SUBSET Objects] /\ orders_ \in [OrderIds -> 0 .. MaxOrders]
        /\ user_orders_ \in [Users -> SUBSET OrderIds]
    BY <1>3 DEF TypeInv, TypeOK
  <2>2. \A p : Resting(p)' <=> Resting(p) \/ p = m
    BY <1>5, <1>9, <2>1 DEF Resting, OrderSide
  <2>3. orders_'[m] = m /\ \A id \in OrderIds \ {m} : orders_'[id] = orders_[id]
    BY <1>4, <1>9, <2>1
  <2>4. BookOwned'
    <3>1. ASSUME NEW id \in OrderIds, orders_'[id] # 0
          PROVE  (Resting(orders_[id]) /\ order[orders_[id]].order_id = id)'
      <4>1. CASE id = m
        <5>1. Resting(m)' /\ order'[m].order_id = m
          BY <1>5, <2>2 DEF new
        <5>2. orders_'[id] = m
          BY <2>3, <4>1
        <5> QED BY <4>1, <5>1, <5>2
      <4>2. CASE id # m
        <5>1. orders_'[id] = orders_[id] /\ Resting(orders_[id])
              /\ order[orders_[id]].order_id = id
          BY <2>3, <3>1, <4>2 DEF OwnInv, BookOwned
        <5>2. orders_[id] = id /\ order'[id] = order[id]
          BY <1>7, <5>1
        <5>3. Resting(id)'
          BY <2>2, <5>1, <5>2
        <5>4. orders_'[id] = id
          BY <5>1, <5>2
        <5> QED BY <5>1, <5>2, <5>3, <5>4
      <4> QED BY <4>1, <4>2
    <3>2. ASSUME NEW s \in OrderSide, NEW p \in book'[s]
          PROVE  /\ orders_'[order'[p].order_id] = p /\ order'[p].side = s
                 /\ order'[p].type = "LIMIT" /\ IsActive(order'[p])
                 /\ order'[p].remaining > 0
      <4>1. CASE p \in book[s]
        <5>1. Resting(p)
          BY <4>1 DEF Resting, OrderSide
        <5> QED BY <1>3, <1>7, <2>3, <4>1, <5>1 DEF BookOwned
      <4>2. CASE p \notin book[s]
        <5>1. p = m /\ s = new.side
          BY <1>5, <1>9, <2>1, <4>2
        <5> QED BY <1>5, <1>9, <2>3, <5>1 DEF Rests, new
      <4> QED BY <4>1, <4>2
    <3> QED BY <3>1, <3>2 DEF BookOwned
  <2>5. NoDanglingOrder'
    BY <1>1, <1>5, <1>9, <2>1 DEF OwnInv, TakerInv, NoDanglingOrder, Defined
  <2>6. UserIndexCoversBook'
    BY <1>1, <1>5, <1>7, <1>9, <2>1, <2>2 DEF OwnInv, UserIndexCoversBook, new
  <2> QED BY <2>4, <2>5, <2>6
<1>10. ASSUME ~Rests(new), UNCHANGED <<book, orders_, user_orders_>>
       PROVE  BookOwned' /\ NoDanglingOrder' /\ UserIndexCoversBook'
  <2>1. \A p : Resting(p)' <=> Resting(p)
    BY <1>10 DEF Resting
  <2>2. BookOwned'
    <3>1. \A s \in OrderSide : \A o \in book[s] : Resting(o)
      BY DEF Resting, OrderSide
    <3> QED BY <1>3, <1>7, <1>10, <2>1, <3>1 DEF BookOwned
  <2>3. NoDanglingOrder' /\ UserIndexCoversBook'
    BY <1>1, <1>7, <1>10, <2>1 DEF OwnInv, NoDanglingOrder, Defined, UserIndexCoversBook
  <2> QED BY <2>2, <2>3
<1>11. BookOwned' /\ NoDanglingOrder' /\ UserIndexCoversBook'
       /\ (\A p : Resting(p) => Resting(p)') /\ (Rests(new) => Resting(m)')
  <2>1. \A p : Resting(p) => Resting(p)'
    BY <1>2, <1>5, <1>7 DEF OwnInv, TypeInv, TypeOK, Resting, OrderSide
  <2>2. Rests(new) => Resting(m)'
    BY <1>2, <1>5, <1>6 DEF OwnInv, TypeInv, TypeOK, Resting, OrderSide
  <2> QED BY <1>2, <1>5, <1>6, <1>9, <1>10, <2>1, <2>2
<1>12. QuantityConserved'
  <2>1. order[m].status # "REJECTED"
    BY <1>1 DEF OwnInv, TakerInv
  <2> QED BY <1>1, <2>1 DEF OwnInv, QuantityConserved, Accepted, Fixed, new
<1>13. Settled'
  <2>1. ASSUME order[m].type = "LIMIT"
        PROVE  Resting(m)' \/ order'[m].remaining = 0
    <3>1. order[m].status = "PENDING" /\ order[m].remaining >= 0
          /\ order[m].remaining \in Int
      BY <1>1, <2>1 DEF OwnInv, TakerInv, QuantityConserved, Accepted, TypeInv, TypeOK, Order
    <3>2. new.remaining # 0 => Rests(new)
      BY <1>1, <2>1, <3>1 DEF Rests, FinalStatus, IsActive, Fixed, new
    <3> QED BY <1>11, <3>2 DEF new
  <2> QED BY <1>1, <1>4, <1>11, <2>1 DEF OwnInv, Settled, Working, Fixed
<1>14. TakerInv' /\ CancelInv' /\ freed' \subseteq 1 .. arrived'
  BY <1>1 DEF OwnInv, TakerInv, CancelInv, Working
<1> QED BY <1>3, <1>8, <1>11, <1>12, <1>13, <1>14 DEF OwnInv

LEMMA OwnCancel ==
    ASSUME OwnInv, NEW id \in OrderIds, orders_[id] # 0, Cancel(id), TypeInv',
           UNCHANGED <<arrived, taker>>, ~Working, ~Working'
    PROVE  /\ IdsFresh' /\ BookOwned' /\ NoDanglingOrder' /\ TakerInv'
           /\ QuantityConserved' /\ Settled' /\ UserIndexCoversBook'
           /\ freed' \subseteq 1 .. arrived'
           /\ orders_[id] = id /\ \A p : Resting(p)' <=> Resting(p) /\ p # id
           /\ \A p \in Objects : Fixed(p)
<1> DEFINE o == orders_[id]
<1>1. /\ o \in 1 .. arrived /\ \A p \in Objects : Fixed(p)
      /\ \A p \in Objects \ {o} : order'[p] = order[p]
      /\ \A p \in Objects : order'[p].filled = order[p].filled
                         /\ order'[p].remaining = order[p].remaining
      /\ order'[o].status = "CANCELLED" /\ o \in Objects
      /\ order[o].remaining \in Int /\ RemoveOrderFromBook(o, order[o].remaining)
  BY CancelEffect DEF OwnInv
<1>2. Resting(o) /\ order[o].order_id = id
  BY DEF OwnInv, BookOwned
<1>3. o = id
  BY <1>2, OwnedByNumber DEF OwnInv
<1>4. order[o].status # "REJECTED"
  BY <1>2, OwnedByNumber DEF OwnInv, IsActive
<1> HIDE DEF o
<1>5. /\ IdsFresh' /\ BookOwned' /\ NoDanglingOrder' /\ UserIndexCoversBook'
      /\ \A p : Resting(p)' <=> Resting(p) /\ p # o
      /\ freed' = freed \cup {o}
  BY <1>1, <1>2, OwnShrink DEF OwnInv
<1>6. \A p \in 1 .. arrived : p \in Objects
  BY EngineAssumption DEF OwnInv, TypeInv, TypeOK, Objects
<1>7. QuantityConserved'
  BY <1>1, <1>4, <1>6 DEF OwnInv, QuantityConserved, Accepted, Fixed
<1>8. Settled'
  BY <1>1, <1>5, <1>6 DEF OwnInv, Settled, Fixed
<1>9. TakerInv' /\ freed' \subseteq 1 .. arrived'
  BY <1>1, <1>5 DEF OwnInv, TakerInv
<1> QED BY <1>1, <1>3, <1>5, <1>7, <1>8, <1>9 DEF o

LEMMA OwnCancelNext ==
    ASSUME OwnInv, NEW id \in OrderIds, CancelNext(id)
    PROVE  /\ OwnInv'
           /\ \A o \in Objects : Resting(o)' /\ order'[o].user_id = canceller
                => order'[o].order_id \in order_ids'
<1>1. /\ ~Working /\ ~Working' /\ pc = "cancel" /\ id \in order_ids
      /\ UNCHANGED <<arrived, statVars, clock, taker, iteration_count>>
      /\ order_ids' = order_ids \ {id}
      /\ pc' = "cancel" => canceller' = canceller
  BY DEF CancelNext, Advance, Working
<1>2. TypeInv'
  BY TypeStep DEF OwnInv, Next
<1>3. CASE Cancellable(id, canceller) /\ Cancel(id)
  <2>1. /\ IdsFresh' /\ BookOwned' /\ NoDanglingOrder' /\ TakerInv'
        /\ QuantityConserved' /\ Settled' /\ UserIndexCoversBook'
        /\ freed' \subseteq 1 .. arrived'
        /\ \A p : Resting(p)' <=> Resting(p) /\ p # id
        /\ \A p \in Objects : Fixed(p)
    BY <1>1, <1>2, <1>3, OwnCancel DEF Cancellable
  <2>2. \A p : Resting(p) => order[p].order_id = p
    BY OwnedByNumber DEF OwnInv
  <2>3. \A o \in Objects : Resting(o)' /\ order'[o].user_id = canceller
           => order'[o].order_id \in order_ids'
    BY <1>1, <2>1, <2>2 DEF OwnInv, CancelInv, Fixed
  <2> QED BY <1>1, <1>2, <2>1, <2>3 DEF OwnInv, CancelInv
<1>4. CASE ~Cancellable(id, canceller) /\ UNCHANGED <<order, bookVars>>
  <2>1. \A p : Resting(p)' <=> Resting(p)
    BY <1>4 DEF bookVars, Resting
  \* An id that cannot be cancelled is not the id of a resting order of this user.
  <2>2. ASSUME NEW p, Resting(p), order[p].user_id = canceller
        PROVE  order[p].order_id # id
    <3>1. orders_[p] = p /\ order[p].order_id = p /\ IsActive(order[p]) /\ p # 0
      BY <2>2, OwnedByNumber DEF OwnInv
    <3> QED BY <1>4, <2>2, <3>1 DEF Cancellable
  <2>3. \A o \in Objects : Resting(o)' /\ order'[o].user_id = canceller
           => order'[o].order_id \in order_ids'
    BY <1>1, <1>4, <2>1, <2>2 DEF OwnInv, CancelInv
  <2>4. /\ IdsFresh' /\ BookOwned' /\ NoDanglingOrder' /\ TakerInv'
        /\ QuantityConserved' /\ UserIndexCoversBook' /\ freed' \subseteq 1 .. arrived'
    BY <1>1, <1>4, <2>1 DEF OwnInv, IdsFresh, BookOwned, NoDanglingOrder, Defined,
       TakerInv, QuantityConserved, Accepted, UserIndexCoversBook, bookVars
  <2>5. Settled'
    BY <1>1, <1>4, <2>1 DEF OwnInv, Settled
  <2> QED BY <1>1, <1>2, <2>3, <2>4, <2>5 DEF OwnInv, CancelInv
<1> QED BY <1>3, <1>4 DEF CancelNext

\* Steps that leave the orders and the book alone.
LEMMA OwnIdle ==
    ASSUME OwnInv, TypeInv', UNCHANGED <<order, arrived, bookVars, taker>>,
           UNCHANGED pc \/ (~Working /\ ~Working'), CancelInv'
    PROVE  OwnInv'
<1>1. \A p : Resting(p)' <=> Resting(p)
  BY DEF bookVars, Resting
<1>2. Working' <=> Working
  BY DEF Working
<1>3. /\ IdsFresh' /\ BookOwned' /\ NoDanglingOrder'
      /\ QuantityConserved' /\ UserIndexCoversBook' /\ freed' \subseteq 1 .. arrived'
  BY <1>1 DEF OwnInv, IdsFresh, BookOwned, NoDanglingOrder, Defined,
     QuantityConserved, Accepted, UserIndexCoversBook, bookVars
<1>4. TakerInv' /\ Settled'
  BY <1>1, <1>2 DEF OwnInv, TakerInv, Settled, Working, bookVars
<1> QED BY <1>3, <1>4 DEF OwnInv

LEMMA OwnStep == ASSUME ~ReuseIds, OwnInv, [Next]_vars PROVE OwnInv'
<1>1. TypeInv'
  BY TypeStep DEF OwnInv
<1>2. CASE ProcessOrder
  BY <1>2, OwnProcess
<1>3. ASSUME NEW r \in Objects, Match(r) PROVE OwnInv'
  BY <1>3, OwnMatch
<1>4. CASE FinishOrder
  BY <1>4, OwnFinish
<1>5. ASSUME NEW id \in OrderIds, NEW u \in Users, CancelOrder(id, u) PROVE OwnInv'
  <2>1. /\ orders_[id] # 0 /\ Cancel(id) /\ UNCHANGED <<arrived, taker>>
        /\ ~Working /\ ~Working' /\ pc' = "idle"
    BY <1>5 DEF CancelOrder, Cancellable, Working
  <2>2. CancelInv'
    BY <2>1 DEF CancelInv
  <2> QED BY <1>1, <2>1, <2>2, OwnCancel DEF OwnInv
<1>6. ASSUME NEW u \in Users, CancelAllOrders(u) PROVE OwnInv'
  <2>1. /\ UNCHANGED <<order, arrived, bookVars, taker>> /\ ~Working /\ ~Working'
        /\ canceller' = u /\ order_ids' = user_orders_[u]
    BY <1>6 DEF CancelAllOrders, Working
  <2>2. CancelInv'
    BY <2>1 DEF OwnInv, UserIndexCoversBook, CancelInv, Resting, bookVars
  <2> QED BY <1>1, <2>1, <2>2, OwnIdle
<1>7. ASSUME NEW id \in OrderIds, CancelNext(id) PROVE OwnInv'
  BY <1>7, OwnCancelNext
<1>8. CASE UNCHANGED vars
  <2>1. UNCHANGED <<order, arrived, bookVars, taker, pc, cancelVars>>
    BY <1>8 DEF vars
  <2>2. CancelInv'
    BY <2>1 DEF OwnInv, CancelInv, Resting, bookVars, cancelVars
  <2> QED BY <1>1, <2>1, <2>2, OwnIdle
<1> QED BY <1>2, <1>3, <1>4, <1>5, <1>6, <1>7, <1>8 DEF Next

\* For callers that never use an order_id again: the book holds exactly the
\* orders orders_ owns, links none that has been destroyed, indexes each under
\* its user, and never loses a limit order.
THEOREM BookConsistent == ASSUME ~ReuseIds PROVE Spec => []OrdersAccountedFor
<1>1. OwnInv => OrdersAccountedFor
  BY DEF OrdersAccountedFor, OwnInv, Settled, NoLimitOrderLost, Accepted, Working
<1>2. OwnInv /\ [Next]_vars => OwnInv'
  BY OwnStep
<1> QED BY <1>1, <1>2, OwnInit, PTL DEF Spec

\* An order that has come to its end never changes again: neither a match nor a
\* cancellation reaches it, though its owner still knows its order_id.
THEOREM EndedOrdersRest == ASSUME ~ReuseIds PROVE Spec => EndIsFinal
<1> DEFINE Same == \A o \in 1 .. arrived :
              o # taker /\ (order[o].remaining = 0 \/ ~IsActive(order[o]))
                => order'[o] = order[o]
<1>1. ASSUME OwnInv, Next PROVE Same
  <2> SUFFICES ASSUME NEW o \in 1 .. arrived, o # taker,
                      order[o].remaining = 0 \/ ~IsActive(order[o])
               PROVE  order'[o] = order[o]
    OBVIOUS
  <2>1. arrived \in 0 .. MaxOrders /\ o \in Objects /\ o # arrived + 1
    BY <1>1, EngineAssumption DEF OwnInv, TypeInv, TypeOK, Objects
  <2>2. ~Resting(o)
    <3>1. Resting(o) => IsActive(order[o]) /\ order[o].remaining > 0
      BY <1>1, OwnedByNumber DEF OwnInv
    <3> QED BY <3>1
  <2>3. CASE ProcessOrder
    BY <1>1, <2>1, <2>3, ProcessEffect DEF OwnInv
  <2>4. ASSUME NEW r \in Objects, Match(r) PROVE order'[o] = order[o]
    <3>1. /\ r \in book[Opposite(order[taker].side)]
          /\ Opposite(order[taker].side) \in OrderSide
          /\ \A p \in Objects \ {taker, r} : order'[p] = order[p]
      BY <1>1, <2>4, MatchEffect DEF OwnInv
    <3> QED BY <2>1, <2>2, <3>1 DEF Resting, OrderSide
  <2>5. CASE FinishOrder
    BY <1>1, <2>1, <2>5, FinishEffect DEF OwnInv
  <2>6. ASSUME NEW id \in OrderIds, orders_[id] # 0, Cancel(id) PROVE order'[o] = order[o]
    <3>1. Resting(orders_[id])
      BY <1>1, <2>6 DEF OwnInv, BookOwned
    <3>2. \A p \in Objects \ {orders_[id]} : order'[p] = order[p]
      BY <1>1, <2>6, CancelEffect DEF OwnInv
    <3> QED BY <2>1, <2>2, <3>1, <3>2
  <2>7. ASSUME NEW id \in OrderIds, NEW u \in Users, CancelOrder(id, u)
        PROVE  order'[o] = order[o]
    BY <2>6, <2>7 DEF CancelOrder, Cancellable
  <2>8. ASSUME NEW u \in Users, CancelAllOrders(u) PROVE order'[o] = order[o]
    BY <2>8 DEF CancelAllOrders
  <2>9. ASSUME NEW id \in OrderIds, CancelNext(id) PROVE order'[o] = order[o]
    BY <2>6, <2>9 DEF CancelNext, Cancellable
  <2> QED BY <1>1, <2>3, <2>4, <2>5, <2>7, <2>8, <2>9 DEF Next
<1>2. OwnInv /\ [Next]_vars => OwnInv'
  BY OwnStep
<1>3. OwnInv /\ [Next]_vars => [Same]_vars
  BY <1>1
<1> QED BY <1>2, <1>3, OwnInit, PTL DEF Spec, EndIsFinal

\* When cancel_all_orders returns nothing of its user rests: the copied index
\* had every resting order, and each turn deals with one id for good.
THEOREM CancelAllEmpties == ASSUME ~ReuseIds PROVE Spec => CancelAllComplete
<1> DEFINE Emptied == pc = "cancel" /\ pc' = "idle" =>
              \A o \in Objects : (Resting(o))' => order'[o].user_id # canceller
<1>1. ASSUME OwnInv, Next PROVE Emptied
  <2> SUFFICES ASSUME pc = "cancel", pc' = "idle" PROVE Emptied
    OBVIOUS
  <2>1. PICK id \in OrderIds : CancelNext(id)
    BY <1>1 DEF Next, ProcessOrder, Match, Meets, FinishOrder, CancelOrder, CancelAllOrders
  <2>2. order_ids' = {}
    BY <2>1 DEF CancelNext, Advance
  <2> QED BY <1>1, <2>1, <2>2, OwnCancelNext
<1>2. OwnInv /\ [Next]_vars => OwnInv'
  BY OwnStep
<1>3. OwnInv /\ [Next]_vars => [Emptied]_vars
  BY <1>1
<1> QED BY <1>2, <1>3, OwnInit, PTL DEF Spec, CancelAllComplete

\* Ends are final, for a single order and for all the orders of a user who
\* cancelled them.
THEOREM EndsKept == ASSUME ~ReuseIds PROVE Spec => EndsRespected
<1>1. Spec => EndIsFinal
  BY EndedOrdersRest
<1>2. Spec => CancelAllComplete
  BY CancelAllEmpties
<1> QED BY <1>1, <1>2 DEF EndsRespected
-----------------------------------------------------------------------------
(* Trades: their price, their taker, their priority. *)

\* Only process_order makes an order; no other step touches what is fixed of one,
\* and a rejected order stays rejected.
LEMMA StepFixed ==
    ASSUME OwnInv, [Next]_vars, arrived' = arrived
    PROVE  \A o \in Objects :
              Fixed(o) /\ (order[o].status = "REJECTED" => order'[o].status = "REJECTED")
<1>1. CASE UNCHANGED order
  BY <1>1 DEF Fixed
<1>2. ASSUME NEW id \in OrderIds, orders_[id] # 0, Cancel(id)
      PROVE  \A o \in Objects : Fixed(o) /\ (order[o].status = "REJECTED" => order'[o].status = "REJECTED")
  <2>1. Resting(orders_[id])
    BY <1>2 DEF OwnInv, BookOwned
  <2>2. order[orders_[id]].status # "REJECTED"
    BY <2>1, OwnedByNumber DEF OwnInv, IsActive
  <2> QED BY <1>2, <2>2, CancelEffect DEF OwnInv
<1>3. ASSUME NEW r \in Objects, Match(r)
      PROVE  \A o \in Objects : Fixed(o) /\ (order[o].status = "REJECTED" => order'[o].status = "REJECTED")
  <2>1. order[taker].status # "REJECTED"
    BY <1>3 DEF Match, Meets, Working, OwnInv, TakerInv
  <2> QED BY <1>3, <2>1, MatchEffect DEF OwnInv
<1>4. CASE FinishOrder
  <2>1. order[taker].status # "REJECTED"
    BY <1>4 DEF FinishOrder, Working, OwnInv, TakerInv
  <2> QED BY <1>4, <2>1, FinishEffect DEF OwnInv
<1>5. CASE ProcessOrder
  <2>1. arrived' = arrived + 1 /\ arrived \in Nat
    BY <1>5 DEF ProcessOrder, OwnInv, TypeInv, TypeOK
  <2> QED BY <2>1
<1>6. CASE \E id \in OrderIds, u \in Users : CancelOrder(id, u)
  BY <1>2, <1>6 DEF CancelOrder, Cancellable
<1>7. CASE \E u \in Users : CancelAllOrders(u)
  BY <1>1, <1>7 DEF CancelAllOrders
<1>8. CASE \E id \in OrderIds : CancelNext(id)
  BY <1>1, <1>2, <1>8 DEF CancelNext, Cancellable
<1>9. CASE UNCHANGED vars
  BY <1>1, <1>9 DEF vars
<1> QED BY <1>3, <1>4, <1>5, <1>6, <1>7, <1>8, <1>9 DEF Next

\* The numbering of the orders survives every step that makes no order.
LEMMA SeqKept ==
    ASSUME OwnInv, SeqInOrder, [Next]_vars, arrived' = arrived,
           trade_sequence_' \in {trade_sequence_, trade_sequence_ + 1}
    PROVE  SeqInOrder'
<1>1. \A o \in 1 .. arrived : o \in Objects /\ order[o].sequence_id \in Nat
  BY EngineAssumption DEF OwnInv, TypeInv, TypeOK, Objects, Order
<1>2. trade_sequence_ \in Nat
  BY DEF OwnInv, TypeInv, TypeOK
<1> QED BY <1>1, <1>2, StepFixed DEF SeqInOrder, Fixed

LEMMA TradeKept ==
    ASSUME OwnInv, TradeInv, [Next]_vars, arrived' = arrived,
           UNCHANGED <<trade, trade_sequence_>>, pc' # "match",
           Working' \/ iteration_count' = 0
    PROVE  TradeInv'
<1>1. \A o \in 1 .. arrived : o \in Objects /\ Fixed(o)
  BY StepFixed, EngineAssumption DEF OwnInv, TypeInv, TypeOK, Objects
<1>2. SeqInOrder'
  BY SeqKept DEF TradeInv
<1>3. TradeKnown' /\ TradeWithinLimits' /\ TakerFlagRight'
  BY <1>1 DEF TradeInv, TradeKnown, TradeWithinLimits, TakerFlagRight, Fixed
<1> QED BY <1>2, <1>3 DEF TradeInv

LEMMA TradeInit == Init => TradeInv
<1> SUFFICES ASSUME Init PROVE TradeInv
  OBVIOUS
<1> QED BY DEF Init, TradeInv, SeqInOrder, TradeKnown, TradeWithinLimits, TakerFlagRight, Working

LEMMA TradeProcess == ASSUME OwnInv, TradeInv, ProcessOrder PROVE TradeInv'
<1> DEFINE n == arrived'
<1>1. /\ n = arrived + 1 /\ n \in Objects /\ ~Working
      /\ order' \in [Objects -> Order]
      /\ \A o \in Objects \ {n} : order'[o] = order[o]
      /\ \/ /\ order'[n].status = "REJECTED" /\ order'[n].sequence_id = 0
            /\ UNCHANGED <<pc, trade_sequence_>>
         \/ /\ trade_sequence_' = trade_sequence_ + 1
            /\ order'[n].sequence_id = trade_sequence_'
      /\ UNCHANGED <<trade, iteration_count>>
  BY ProcessEffect DEF OwnInv
<1>2. /\ arrived \in 0 .. MaxOrders /\ (\A o \in 1 .. n : o = n \/ o \in 1 .. arrived)
      /\ (\A o \in 1 .. arrived : o \in Objects \ {n} /\ o \in 1 .. n /\ o < n)
      /\ trade_sequence_ \in Nat /\ iteration_count = 0 /\ n \in 1 .. n
  <2>1. arrived \in 0 .. MaxOrders /\ trade_sequence_ \in Nat
    BY DEF OwnInv, TypeInv, TypeOK
  <2> QED BY <1>1, <2>1, EngineAssumption DEF Objects, TradeInv
<1>3. \A o \in 1 .. n : order'[o].sequence_id \in Nat
  BY <1>1, <1>2 DEF Order
<1>4. SeqInOrder'
  <2>1. \A o \in 1 .. n : order'[o].sequence_id <= trade_sequence_'
    <3>1. trade_sequence_ <= trade_sequence_' /\ trade_sequence_' \in Nat
          /\ order'[n].sequence_id <= trade_sequence_'
      BY <1>1, <1>2
    <3>2. \A o \in 1 .. arrived : order'[o].sequence_id <= trade_sequence_
      BY <1>1, <1>2 DEF TradeInv, SeqInOrder
    <3> QED BY <1>2, <1>3, <3>1, <3>2
  <2>2. ASSUME NEW o \in 1 .. n, NEW p \in 1 .. n, o < p, order'[p].status # "REJECTED"
        PROVE  order'[o].sequence_id < order'[p].sequence_id
    <3>1. o \in 1 .. arrived /\ order'[o] = order[o]
      BY <1>1, <1>2, <2>2
    <3>2. CASE p = n
      BY <1>1, <1>2, <1>3, <2>2, <3>1, <3>2 DEF TradeInv, SeqInOrder
    <3>3. CASE p # n
      BY <1>1, <1>2, <2>2, <3>1, <3>3 DEF TradeInv, SeqInOrder
    <3> QED BY <3>2, <3>3
  <2> QED BY <2>1, <2>2 DEF SeqInOrder
<1>5. TradeKnown'
  BY <1>1, <1>2 DEF TradeInv, TradeKnown
<1>6. TradeWithinLimits'
  BY <1>1, <1>2 DEF TradeInv, TradeKnown, TradeWithinLimits
<1>7. TakerFlagRight' /\ (~Working' => iteration_count' = 0)
  BY <1>1, <1>2 DEF TakerFlagRight
<1> QED BY <1>4, <1>5, <1>6, <1>7 DEF TradeInv

LEMMA TradeMatch == ASSUME OwnInv, TradeInv, NEW r \in Objects, Match(r) PROVE TradeInv'
<1> DEFINE t == order[taker]
           qty == MinOf(t.remaining, order[r].remaining)
<1>1. /\ taker \in 1 .. arrived /\ taker \in Objects /\ r \in 1 .. arrived /\ r # taker
      /\ order[r].side = Opposite(t.side) /\ t.side \in OrderSide
      /\ r \in book[Opposite(t.side)] /\ Opposite(t.side) \in OrderSide
      /\ \A o \in Objects : Fixed(o)
  BY MatchEffect DEF OwnInv
<1>2. /\ trade' = NewTrade(r, qty) /\ trade_sequence_' = trade_sequence_ + 1
      /\ UNCHANGED <<arrived, taker>> /\ CanMatch(t, order[r]) /\ Working /\ Working'
  BY DEF Match, Meets, Working
<1> HIDE DEF qty
<1>3. SeqInOrder'
  BY <1>2, SeqKept DEF TradeInv, Next
<1>4. r < taker /\ order[r].sequence_id < order[taker].sequence_id
      /\ order[r].sequence_id \in Nat /\ order[taker].sequence_id \in Nat
  <2>1. taker = arrived /\ order[taker].status # "REJECTED"
    BY <1>2 DEF OwnInv, TakerInv
  <2>2. r < taker
    BY <1>1, <2>1 DEF OwnInv, TypeInv, TypeOK
  <2>3. order[r] \in Order /\ order[taker] \in Order
    BY <1>1 DEF OwnInv, TypeInv, TypeOK
  <2> QED BY <1>1, <2>1, <2>2, <2>3 DEF TradeInv, SeqInOrder, Order
<1>5. order[r].price \in Int /\ t.price \in Int
  <2>1. order[r] \in Order /\ order[taker] \in Order
    BY <1>1 DEF OwnInv, TypeInv, TypeOK
  <2> QED BY <2>1 DEF Order
<1>6. order[r].type # "MARKET"
  <2>1. Resting(r)
    BY <1>1 DEF Resting, OrderSide
  <2> QED BY <2>1, OwnedByNumber DEF OwnInv
<1>7. CASE t.side = "BUY"
  <2>1. /\ trade'.buy = taker /\ trade'.sell = r /\ trade'.price = order[r].price
        /\ trade'.is_taker_buy = TakerBuys(taker, r)
    BY <1>2, <1>7 DEF NewTrade, MatchPrice
  <2>2. trade'.is_taker_buy
    BY <1>4, <2>1 DEF TakerBuys
  <2>3. t.type # "MARKET" /\ order[r].type # "MARKET" => order[r].price <= t.price
    BY <1>2, <1>5, <1>7 DEF CanMatch
  <2> QED BY <1>1, <1>2, <1>3, <1>5, <1>6, <2>1, <2>2, <2>3
          DEF TradeInv, TradeKnown, TradeWithinLimits, TakerFlagRight, Fixed
<1>8. CASE t.side = "SELL"
  <2>1. /\ trade'.buy = r /\ trade'.sell = taker /\ trade'.price = order[r].price
        /\ trade'.is_taker_buy = TakerBuys(r, taker)
    BY <1>2, <1>8 DEF NewTrade, MatchPrice
  <2>2. ~trade'.is_taker_buy
    <3>1. TakerBuys(r, taker) = FALSE
      BY <1>4 DEF TakerBuys
    <3> QED BY <2>1, <3>1
  <2>3. t.type # "MARKET" /\ order[r].type # "MARKET" => order[r].price >= t.price
    BY <1>2, <1>5, <1>8 DEF CanMatch
  <2> QED BY <1>1, <1>2, <1>3, <1>5, <1>6, <2>1, <2>2, <2>3
          DEF TradeInv, TradeKnown, TradeWithinLimits, TakerFlagRight, Fixed
<1> QED BY <1>1, <1>7, <1>8 DEF OrderSide

LEMMA TradeStep == ASSUME OwnInv, TradeInv, [Next]_vars PROVE TradeInv'
<1>1. CASE ProcessOrder
  BY <1>1, TradeProcess
<1>2. ASSUME NEW r \in Objects, Match(r) PROVE TradeInv'
  BY <1>2, TradeMatch
<1>3. CASE FinishOrder
  BY <1>3, TradeKept DEF FinishOrder, statVars
<1>4. ASSUME NEW id \in OrderIds, NEW u \in Users, CancelOrder(id, u) PROVE TradeInv'
  BY <1>4, TradeKept DEF CancelOrder, statVars, TradeInv, Working
<1>5. ASSUME NEW u \in Users, CancelAllOrders(u) PROVE TradeInv'
  BY <1>5, TradeKept DEF CancelAllOrders, statVars, TradeInv, Working
<1>6. ASSUME NEW id \in OrderIds, CancelNext(id) PROVE TradeInv'
  BY <1>6, TradeKept DEF CancelNext, Advance, statVars, TradeInv, Working
<1>7. CASE UNCHANGED vars
  BY <1>7 DEF vars, statVars, TradeInv, SeqInOrder, TradeKnown, TradeWithinLimits,
     TakerFlagRight, Working
<1> QED BY <1>1, <1>2, <1>3, <1>4, <1>5, <1>6, <1>7 DEF Next

\* A trade conserves quantities, respects the limits of both its orders, and its
\* flag names the taker.
THEOREM TradesFair == ASSUME ~ReuseIds PROVE Spec => []TradesSound
<1>1. OwnInv /\ TradeInv => TradesSound
  BY DEF TradesSound, OwnInv, TradeInv
<1>2. OwnInv /\ TradeInv /\ [Next]_vars => OwnInv' /\ TradeInv'
  BY OwnStep, TradeStep
<1> QED BY <1>1, <1>2, OwnInit, TradeInit, PTL DEF Spec
-----------------------------------------------------------------------------
(* The order in which the book offers its orders. *)

LEMMA AheadIsOrder ==
    ASSUME TypeInv, NEW s \in OrderSide,
           NEW a \in book[s], NEW b \in book[s], NEW c \in book[s]
    PROVE  /\ ~Ahead(a, a)
           /\ a # b => Ahead(a, b) \/ Ahead(b, a)
           /\ Ahead(a, b) /\ Ahead(b, c) => Ahead(a, c)
<1>1. \A o \in {a, b, c} : /\ o \in Int /\ order[o].side = s
                           /\ order[o].price \in Int /\ order[o].timestamp \in Int
  <2> SUFFICES ASSUME NEW o \in {a, b, c}
               PROVE  /\ o \in Int /\ order[o].side = s
                      /\ order[o].price \in Int /\ order[o].timestamp \in Int
    OBVIOUS
  <2>1. o \in 1 .. arrived /\ order[o].side = s
    BY DEF TypeInv
  <2>2. order[o] \in Order
    BY <2>1, EngineAssumption DEF TypeInv, TypeOK, Objects
  <2> QED BY <2>1, <2>2 DEF Order
<1>2. CASE s = "BUY"
  BY <1>1, <1>2 DEF Ahead, KeyBefore, PriceBetter
<1>3. CASE s # "BUY"
  BY <1>1, <1>3 DEF Ahead, KeyBefore, PriceBetter
<1> QED BY <1>2, <1>3

\* A side that is not empty offers an order: the one with the fewest ahead of it.
LEMMA BestExists ==
    ASSUME TypeInv, NEW s \in OrderSide, book[s] # {}
    PROVE  \E o \in Objects : IsBest(s, o)
<1> DEFINE Before(o) == {p \in book[s] : Ahead(p, o)}
           Befores == {Before(o) : o \in book[s]}
           R == StrictSubsetOrdering(Objects)
<1>1. book[s] \subseteq Objects
  BY DEF TypeInv, TypeOK
<1>2. IsFiniteSet(Objects)
  BY EngineAssumption, FS_Interval DEF Objects
<1>3. IsWellFoundedOn(R, SUBSET Objects)
  BY <1>2, FS_StrictSubsetOrderingWellFounded, FS_FiniteSubsetsOfFinite
<1>4. Befores \subseteq SUBSET Objects /\ Befores # {}
  BY <1>1
<1>5. PICK B \in Befores : \A C \in Befores : ~(<<C, B>> \in R)
  <2> HIDE DEF Befores, R
  <2> QED BY <1>3, <1>4, WFMin
<1>6. PICK o \in book[s] : B = Before(o)
  OBVIOUS
<1>7. ASSUME NEW p \in book[s] \ {o} PROVE Ahead(o, p)
  <2>1. CASE Ahead(p, o)
    <3>1. Before(p) \subseteq Before(o)
      BY <2>1, AheadIsOrder
    <3>2. p \in Before(o) /\ p \notin Before(p)
      BY <2>1, AheadIsOrder
    <3>3. Before(p) \in SUBSET Objects /\ Before(o) \in SUBSET Objects
      BY <1>1
    <3>4. <<Before(p), Before(o)>> \in R
      BY <3>1, <3>2, <3>3 DEF StrictSubsetOrdering
    <3> QED BY <1>5, <1>6, <3>4
  <2> QED BY <2>1, AheadIsOrder
<1> QED BY <1>1, <1>7 DEF IsBest

-----------------------------------------------------------------------------
(* The two sides of the book never overlap. *)

LEMMA BookFinite ==
    ASSUME TypeInv, NEW s \in OrderSide
    PROVE  IsFiniteSet(book[s]) /\ Cardinality(book[s]) \in Nat /\ Cardinality(book[s]) <= arrived
<1>1. arrived \in Nat /\ book[s] \in SUBSET (1 .. arrived)
  BY EngineAssumption DEF TypeInv, TypeOK
<1>2. IsFiniteSet(1 .. arrived) /\ Cardinality(1 .. arrived) = arrived
  BY <1>1, FS_Interval
<1> QED BY <1>1, <1>2, FS_Subset, FS_CardinalityType

\* A book that only loses orders stays uncrossed.
LEMMA UncrossedKept ==
    ASSUME OwnInv, BookUncrossed, [Next]_vars, arrived' = arrived,
           \A s \in OrderSide : book'[s] \subseteq book[s]
    PROVE  BookUncrossed'
<1>1. \A s \in OrderSide : \A o \in book[s] : o \in Objects
  BY DEF OwnInv, TypeInv, TypeOK
<1> QED BY <1>1, StepFixed DEF BookUncrossed, Fixed, OrderSide

LEMMA UncrossedProcess ==
    ASSUME OwnInv, TradeInv, UncrossedInv, ProcessOrder PROVE UncrossedInv'
<1> DEFINE n == arrived'
<1>1. /\ n = arrived + 1 /\ n \in Objects /\ ~Working
      /\ order' \in [Objects -> Order]
      /\ \A o \in Objects \ {n} : order'[o] = order[o]
      /\ UNCHANGED pc \/ taker' = n
      /\ UNCHANGED <<book, iteration_count>>
  BY ProcessEffect DEF OwnInv, bookVars
<1>2. arrived \in Nat /\ iteration_count = 0 /\ n \in Nat /\ n <= MaxOrders
      /\ \A s \in OrderSide : \A o \in book[s] : o \in Objects \ {n}
  <2>1. arrived \in 0 .. MaxOrders /\ iteration_count = 0
    BY <1>1 DEF OwnInv, TypeInv, TypeOK, TradeInv
  <2> QED BY <1>1, <2>1, EngineAssumption DEF OwnInv, TypeInv, TypeOK, Objects
<1>3. LoopBounded'
  <2> SUFFICES ASSUME pc' = "match"
               PROVE  (iteration_count + Cardinality(book[Opposite(order[taker].side)]) < MaxOrders)'
    BY DEF LoopBounded
  <2>1. order'[taker'].side \in OrderSide
    BY <1>1 DEF Order, Working
  <2>2. Opposite(order'[taker'].side) \in OrderSide
    BY <2>1 DEF Opposite, OrderSide
  <2> DEFINE opp == Opposite(order'[taker'].side)
  <2>3. Cardinality(book[opp]) \in Nat /\ Cardinality(book[opp]) <= arrived
    BY <2>2, BookFinite DEF OwnInv
  <2> HIDE DEF opp
  <2>4. iteration_count' + Cardinality(book'[opp]) < MaxOrders
    BY <1>1, <1>2, <2>3, EngineAssumption
  <2> QED BY <2>4 DEF opp
<1>4. BookUncrossed'
  BY <1>1, <1>2 DEF UncrossedInv, BookUncrossed, OrderSide
<1> QED BY <1>3, <1>4 DEF UncrossedInv

LEMMA UncrossedMatch ==
    ASSUME OwnInv, UncrossedInv, NEW r \in Objects, Match(r) PROVE UncrossedInv'
<1> DEFINE t == order[taker]
           qty == MinOf(t.remaining, order[r].remaining)
           opp == Opposite(t.side)
<1>1. /\ taker \in Objects /\ r \in Objects /\ r \in book[opp] /\ order[r].side = opp /\ opp \in OrderSide
      /\ qty = t.remaining \/ qty = order[r].remaining
      /\ \A o \in Objects : Fixed(o)
      /\ order'[taker].remaining = t.remaining - qty
      /\ order'[r].remaining = order[r].remaining - qty
      /\ \/ order'[r].remaining = 0 /\ RemoveOrderFromBook(r, 0)
         \/ order'[r].remaining > 0 /\ UNCHANGED bookVars
      /\ t \in Order /\ order[r] \in Order
  BY MatchEffect DEF OwnInv, TypeInv, TypeOK
<1>2. /\ UNCHANGED <<arrived, taker>> /\ iteration_count' = iteration_count + 1
      /\ pc = "match" /\ t.remaining > 0 /\ iteration_count \in Nat
  BY DEF Match, Meets, OwnInv, TypeInv, TypeOK
<1>3. t.remaining \in Int /\ order[r].remaining \in Int
  BY <1>1 DEF Order
<1> HIDE DEF qty, opp
<1>4. \A s \in OrderSide : book'[s] \subseteq book[s]
  <2>1. CASE order'[r].remaining = 0 /\ RemoveOrderFromBook(r, 0)
    BY <2>1 DEF RemoveOrderFromBook, RemoveOrder, OwnInv, TypeInv, TypeOK
  <2> QED BY <1>1, <2>1 DEF bookVars
<1>5. BookUncrossed'
  BY <1>2, <1>4, UncrossedKept DEF UncrossedInv, Next
<1>6. LoopBounded'
  <2> SUFFICES ASSUME order'[taker'].remaining > 0
               PROVE  (iteration_count + Cardinality(book[Opposite(order[taker].side)]) < MaxOrders)'
    BY DEF LoopBounded
  <2>1. order'[r].remaining = 0 /\ RemoveOrderFromBook(r, 0)
    BY <1>1, <1>2, <1>3
  <2>2. book'[opp] = book[opp] \ {r}
    BY <1>1, <2>1 DEF RemoveOrderFromBook, RemoveOrder, OwnInv, TypeInv, TypeOK
  <2>3. /\ IsFiniteSet(book[opp]) /\ Cardinality(book[opp]) \in Nat
        /\ Cardinality(book'[opp]) = Cardinality(book[opp]) - 1
    BY <1>1, <2>2, BookFinite, FS_RemoveElement DEF OwnInv
  <2>4. iteration_count + Cardinality(book[opp]) < MaxOrders
    BY <1>2 DEF UncrossedInv, LoopBounded, opp
  <2>5. Opposite(order'[taker'].side) = opp
    BY <1>1, <1>2 DEF Fixed, opp
  <2> QED BY <1>2, <2>3, <2>4, <2>5, EngineAssumption
<1> QED BY <1>5, <1>6 DEF UncrossedInv

LEMMA UncrossedFinish ==
    ASSUME MaxOrders <= MaxIterations, OwnInv, UncrossedInv, FinishOrder
    PROVE  UncrossedInv'
<1>0. PICK m \in Objects : m = taker
  BY FinishEffect DEF OwnInv
<1> DEFINE new == order'[m]
           opp == Opposite(order[m].side)
<1>1. /\ Working /\ m = taker /\ pc' = "idle" /\ arrived' = arrived
      /\ \A r \in Objects : ~Meets(r)
      /\ \A o \in Objects : Fixed(o)
      /\ new.remaining = order[m].remaining
      /\ \/ Rests(new) /\ book' = [book EXCEPT ![new.side] = @ \cup {m}]
         \/ book' = book
  BY <1>0, FinishEffect DEF OwnInv
<1>2. LoopBounded'
  BY <1>1 DEF LoopBounded
<1>3. CASE book' = book
  BY <1>1, <1>2, <1>3, UncrossedKept DEF UncrossedInv, Next
<1>4. CASE Rests(new) /\ book' = [book EXCEPT ![new.side] = @ \cup {m}]
  <2>1. /\ order[m].type = "LIMIT" /\ order[m].remaining > 0 /\ pc = "match"
        /\ new.side = order[m].side
    BY <1>1, <1>4 DEF Rests, Fixed, OwnInv, TakerInv
  <2>2. order[m].side \in OrderSide /\ opp \in OrderSide /\ opp # order[m].side
        /\ order[m].price \in Int
    <3>1. order[m] \in Order
      BY DEF OwnInv, TypeInv, TypeOK
    <3> QED BY <3>1 DEF Order, OrderSide, Opposite
  <2> HIDE DEF opp
  <2>3. iteration_count < MaxIterations
    <3>1. iteration_count + Cardinality(book[opp]) < MaxOrders
      BY <1>1, <2>1 DEF UncrossedInv, LoopBounded, opp
    <3>2. iteration_count \in Nat /\ Cardinality(book[opp]) \in Nat
      BY <2>2, BookFinite DEF OwnInv, TypeInv, TypeOK
    <3> QED BY <3>1, <3>2, EngineAssumption
  \* The best order of the other side does not match, so none does.
  <2>4. \A a \in book[opp] : /\ a \in Objects
                             /\ IF order[m].side = "BUY" THEN order[m].price < order[a].price
                                ELSE order[a].price < order[m].price
    <3> SUFFICES ASSUME NEW a \in book[opp]
                 PROVE  /\ a \in Objects
                        /\ IF order[m].side = "BUY" THEN order[m].price < order[a].price
                           ELSE order[a].price < order[m].price
      OBVIOUS
    <3>1. PICK r \in Objects : IsBest(opp, r)
      BY <2>2, BestExists DEF OwnInv
    <3>2. \A o \in {a, r} : /\ o \in Objects /\ order[o].side = opp
                            /\ order[o].type = "LIMIT" /\ order[o].price \in Int
      <4>1. a \in book[opp] /\ r \in book[opp]
        BY <3>1 DEF IsBest
      <4>2. \A o \in {a, r} : o \in Objects /\ order[o].side = opp /\ order[o].type = "LIMIT"
        BY <2>2, <4>1 DEF OwnInv, TypeInv, TypeOK, BookOwned
      <4>3. \A o \in {a, r} : order[o] \in Order
        BY <4>2 DEF OwnInv, TypeInv, TypeOK
      <4> QED BY <4>2, <4>3 DEF Order
    <3>3. ~CanMatch(order[m], order[r])
      BY <1>1, <2>1, <2>3, <3>1 DEF Meets, opp
    <3>4. IF order[m].side = "BUY" THEN order[m].price < order[r].price
          ELSE order[r].price < order[m].price
      BY <2>1, <2>2, <3>2, <3>3 DEF CanMatch
    <3>5. a = r \/ Ahead(r, a)
      BY <3>1 DEF IsBest
    <3>6. a = r \/ (IF opp = "BUY" THEN order[r].price >= order[a].price
                                   ELSE order[r].price <= order[a].price)
      BY <3>2, <3>5 DEF Ahead, KeyBefore, PriceBetter
    <3> QED BY <2>2, <3>2, <3>4, <3>6 DEF OrderSide
  <2>5. BookUncrossed'
    <3> SUFFICES ASSUME NEW b \in book'["BUY"], NEW a \in book'["SELL"]
                 PROVE  order'[b].price < order'[a].price
      BY DEF BookUncrossed
    <3>1. book \in [OrderSide -> SUBSET Objects]
      BY DEF OwnInv, TypeInv, TypeOK
    <3>2. a \in Objects /\ b \in Objects
      BY <1>4, <2>1, <2>2, <3>1 DEF OrderSide
    <3>3. order'[a].price = order[a].price /\ order'[b].price = order[b].price
      BY <1>1, <3>2 DEF Fixed
    <3>4. CASE b \in book["BUY"] /\ a \in book["SELL"]
      BY <3>3, <3>4 DEF UncrossedInv, BookUncrossed
    <3>5. CASE b \notin book["BUY"]
      <4>1. b = m /\ order[m].side = "BUY" /\ opp = "SELL" /\ a \in book["SELL"]
        BY <1>4, <2>1, <2>2, <3>1, <3>5 DEF OrderSide, opp, Opposite
      <4> QED BY <2>4, <3>3, <4>1
    <3>6. CASE a \notin book["SELL"]
      <4>1. a = m /\ order[m].side = "SELL" /\ opp = "BUY" /\ b \in book["BUY"]
        BY <1>4, <2>1, <2>2, <3>1, <3>6 DEF OrderSide, opp, Opposite
      <4> QED BY <2>4, <3>3, <4>1
    <3> QED BY <3>4, <3>5, <3>6
  <2> QED BY <1>2, <2>5 DEF UncrossedInv
<1> QED BY <1>1, <1>3, <1>4

LEMMA UncrossedStep ==
    ASSUME MaxOrders <= MaxIterations, OwnInv, TradeInv, UncrossedInv, [Next]_vars
    PROVE  UncrossedInv'
<1>1. ASSUME NEW o \in Objects, NEW rem, RemoveOrderFromBook(o, rem)
      PROVE  \A s \in OrderSide : book'[s] \subseteq book[s]
  BY <1>1 DEF RemoveOrderFromBook, RemoveOrder, OwnInv, TypeInv, TypeOK
<1>2. ASSUME NEW id \in OrderIds, orders_[id] # 0, Cancel(id)
      PROVE  \A s \in OrderSide : book'[s] \subseteq book[s]
  BY <1>1, <1>2, CancelEffect DEF OwnInv
<1>3. CASE ProcessOrder
  BY <1>3, UncrossedProcess
<1>4. ASSUME NEW r \in Objects, Match(r) PROVE UncrossedInv'
  BY <1>4, UncrossedMatch
<1>5. CASE FinishOrder
  BY <1>5, UncrossedFinish
<1>6. ASSUME NEW id \in OrderIds, NEW u \in Users, CancelOrder(id, u) PROVE UncrossedInv'
  <2>1. \A s \in OrderSide : book'[s] \subseteq book[s]
    BY <1>2, <1>6 DEF CancelOrder, Cancellable
  <2> QED BY <1>6, <2>1, UncrossedKept DEF CancelOrder, UncrossedInv, LoopBounded
<1>7. ASSUME NEW u \in Users, CancelAllOrders(u) PROVE UncrossedInv'
  BY <1>7 DEF CancelAllOrders, UncrossedInv, LoopBounded, BookUncrossed, bookVars
<1>8. ASSUME NEW id \in OrderIds, CancelNext(id) PROVE UncrossedInv'
  <2>1. \A s \in OrderSide : book'[s] \subseteq book[s]
    BY <1>2, <1>8 DEF CancelNext, Cancellable, bookVars
  <2> QED BY <1>8, <2>1, UncrossedKept DEF CancelNext, Advance, UncrossedInv, LoopBounded
<1>9. CASE UNCHANGED vars
  BY <1>9 DEF vars, bookVars, UncrossedInv, LoopBounded, BookUncrossed
<1> QED BY <1>3, <1>4, <1>5, <1>6, <1>7, <1>8, <1>9 DEF Next

\* Bids and asks never overlap, between calls or between two trades of one call,
\* as long as no order meets more than max_iterations resting orders.
THEOREM BookStaysUncrossed ==
    ASSUME ~ReuseIds, MaxOrders <= MaxIterations
    PROVE  Spec => []BookUncrossed
<1>1. Init => UncrossedInv
  BY DEF Init, UncrossedInv, LoopBounded, BookUncrossed, OrderSide
<1>2. UncrossedInv => BookUncrossed
  BY DEF UncrossedInv
<1>3. OwnInv /\ TradeInv /\ UncrossedInv /\ [Next]_vars => OwnInv' /\ TradeInv' /\ UncrossedInv'
  BY OwnStep, TradeStep, UncrossedStep
<1> QED BY <1>1, <1>2, <1>3, OwnInit, TradeInit, PTL DEF Spec

-----------------------------------------------------------------------------
(* Price-time priority. *)

LEMMA ClockStep ==
    ASSUME ClockTicks \subseteq Nat, OwnInv, ClockInOrder, [Next]_vars PROVE ClockInOrder'
<1>1. CASE ProcessOrder
  <2> DEFINE n == arrived'
  <2>1. /\ n = arrived + 1 /\ order'[n].timestamp = clock'
        /\ \A o \in Objects \ {n} : order'[o] = order[o]
        /\ \E d \in ClockTicks : clock' = clock + d
    BY <1>1, ProcessEffect DEF OwnInv
  <2>2. /\ arrived \in Nat /\ clock \in Int /\ n \in Nat
        /\ \A o \in 1 .. n : o = n \/ o \in 1 .. arrived
        /\ \A o \in 1 .. arrived : o \in Objects \ {n} /\ order[o].timestamp \in Int
    BY <2>1, EngineAssumption DEF OwnInv, TypeInv, TypeOK, Objects, Order
  <2>3. clock <= clock' /\ clock' \in Int
    BY <2>1, <2>2
  <2> HIDE DEF n
  <2>4. \A o \in 1 .. n : order'[o].timestamp <= clock'
    BY <2>1, <2>2, <2>3 DEF ClockInOrder
  <2>5. ASSUME NEW o \in 1 .. n, NEW p \in 1 .. n, o < p
        PROVE  order'[o].timestamp <= order'[p].timestamp
    <3>1. o \in 1 .. arrived
      BY <2>1, <2>2, <2>5
    <3>2. CASE p = n
      BY <2>1, <2>4, <2>5, <3>2
    <3>3. CASE p # n
      BY <2>1, <2>2, <2>5, <3>1, <3>3 DEF ClockInOrder
    <3> QED BY <3>2, <3>3
  <2> QED BY <2>4, <2>5 DEF ClockInOrder, n
<1>2. CASE UNCHANGED <<arrived, clock>>
  <2>1. \A o \in 1 .. arrived : o \in Objects
    BY EngineAssumption DEF OwnInv, TypeInv, TypeOK, Objects
  <2> QED BY <1>2, <2>1, StepFixed DEF ClockInOrder, Fixed
<1> QED BY <1>1, <1>2 DEF Next, Match, FinishOrder, CancelOrder, CancelAllOrders,
           CancelNext, vars

\* While the wall clock does not step back, a resting order trades only when no
\* order of its side has a better price, or the same price and came before it.
THEOREM PriorityKept ==
    ASSUME ~ReuseIds, ClockTicks \subseteq Nat
    PROVE  Spec => PriceTimePriority
<1> DEFINE Fair == \A s \in OrderSide : \A o, p \in book[s] :
              order'[o].filled # order[o].filled =>
                 /\ ~PriceBetter(s, order[p].price, order[o].price)
                 /\ order[p].price = order[o].price =>
                      order[o].sequence_id <= order[p].sequence_id
<1>1. ASSUME OwnInv, TradeInv, ClockInOrder, Next PROVE Fair
  <2> SUFFICES ASSUME NEW s \in OrderSide, NEW o \in book[s], NEW p \in book[s],
                      order'[o].filled # order[o].filled
               PROVE  /\ ~PriceBetter(s, order[p].price, order[o].price)
                      /\ order[p].price = order[o].price =>
                           order[o].sequence_id <= order[p].sequence_id
    OBVIOUS
  <2>1. \A q \in {o, p} : /\ Resting(q) /\ q \in 1 .. arrived /\ q \in Objects /\ order[q].side = s
                          /\ order[q].status # "REJECTED"
                          /\ order[q].price \in Int /\ order[q].timestamp \in Int
                          /\ order[q].sequence_id \in Nat
    <3>1. \A q \in {o, p} : Resting(q)
      BY DEF Resting, OrderSide
    <3>2. \A q \in {o, p} : q \in 1 .. arrived /\ q \in Objects /\ IsActive(order[q])
      BY <1>1, <3>1, OwnedByNumber DEF OwnInv
    <3>3. \A q \in {o, p} : order[q] \in Order /\ order[q].side = s
      BY <1>1, <3>2 DEF OwnInv, TypeInv, TypeOK
    <3> QED BY <3>1, <3>2, <3>3 DEF Order, IsActive
  <2>2. PICK r \in Objects : Match(r)
    <3>1. ~ProcessOrder
      BY <1>1, <2>1, ProcessEffect DEF OwnInv, TypeInv, TypeOK
    <3>2. ~FinishOrder
      BY <1>1, <2>1, FinishEffect DEF OwnInv
    <3>3. \A id \in OrderIds : ~(orders_[id] # 0 /\ Cancel(id))
      BY <1>1, <2>1, CancelEffect DEF OwnInv
    <3> QED BY <1>1, <3>1, <3>2, <3>3 DEF Next, CancelOrder, CancelAllOrders, CancelNext, Cancellable
  <2>3. r = o /\ IsBest(s, o)
    <3>1. /\ \A q \in Objects \ {taker, r} : order'[q] = order[q]
          /\ order[r].side = Opposite(order[taker].side)
      BY <1>1, <2>2, MatchEffect DEF OwnInv
    <3>2. ~Resting(taker) /\ IsBest(Opposite(order[taker].side), r)
      BY <1>1, <2>2 DEF Match, Meets, Working, OwnInv, TypeInv
    <3>3. r = o
      BY <2>1, <3>1, <3>2
    <3> QED BY <2>1, <3>1, <3>2, <3>3
  <2>4. CASE p = o
    BY <2>1, <2>4 DEF PriceBetter
  <2>5. CASE Ahead(o, p)
    <3>1. ~PriceBetter(s, order[p].price, order[o].price)
      BY <2>1, <2>5 DEF Ahead, KeyBefore, PriceBetter
    <3>2. ASSUME order[p].price = order[o].price, p < o PROVE FALSE
      <4>1. order[p].timestamp <= order[o].timestamp
        BY <1>1, <2>1, <3>2 DEF ClockInOrder
      <4> QED BY <2>1, <2>5, <3>2, <4>1 DEF Ahead, KeyBefore, PriceBetter
    <3>3. ASSUME order[p].price = order[o].price PROVE order[o].sequence_id <= order[p].sequence_id
      <4>1. o < p \/ o = p
        BY <2>1, <3>2, <3>3
      <4> QED BY <1>1, <2>1, <4>1 DEF TradeInv, SeqInOrder
    <3> QED BY <3>1, <3>3
  <2> QED BY <2>3, <2>4, <2>5 DEF IsBest
<1>2. Init => ClockInOrder
  BY DEF Init, ClockInOrder
<1>3. OwnInv /\ TradeInv /\ ClockInOrder /\ [Next]_vars => OwnInv' /\ TradeInv' /\ ClockInOrder'
  BY OwnStep, TradeStep, ClockStep
<1>4. OwnInv /\ TradeInv /\ ClockInOrder /\ [Next]_vars => [Fair]_vars
  BY <1>1
<1> QED BY <1>2, <1>3, <1>4, OwnInit, TradeInit, PTL DEF Spec, PriceTimePriority

-----------------------------------------------------------------------------
(* Totals.                                                                 *)

\* The orders of one side that have arrived: finitely many whole quantities.
SideOrders(s) == {o \in 1 .. arrived : order[o].side = s}

LEMMA SideOrdersFinite ==
    ASSUME TypeInv, NEW s
    PROVE  /\ IsFiniteSet(SideOrders(s)) /\ SideOrders(s) \subseteq Objects
           /\ \A o \in Objects : Filled[o] = order[o].filled /\ Filled[o] \in Int
           /\ FilledOn(s) = SumFunctionOnSet(Filled, SideOrders(s))
<1>1. arrived \in 0 .. MaxOrders /\ order \in [Objects -> Order]
  BY DEF TypeInv, TypeOK
<1>2. IsFiniteSet(1 .. arrived)
  BY <1>1, FS_Interval
<1>3. IsFiniteSet(SideOrders(s))
  BY <1>2, FS_Subset DEF SideOrders
<1>4. SideOrders(s) \subseteq Objects
  BY <1>1, EngineAssumption DEF SideOrders, Objects
<1>5. \A o \in Objects : Filled[o] = order[o].filled /\ Filled[o] \in Int
  BY <1>1 DEF Filled, Order
<1> QED BY <1>3, <1>4, <1>5 DEF FilledOn, SideOrders

\* Steps that fill nothing leave the sums alone.
LEMMA FilledSame ==
    ASSUME TypeInv, TypeInv', NEW s, arrived' = arrived,
           \A o \in Objects : /\ order'[o].filled = order[o].filled
                              /\ order'[o].side = order[o].side
    PROVE  FilledOn(s)' = FilledOn(s)
<1>1. SideOrders(s)' = SideOrders(s)
  <2>1. 1 .. arrived \subseteq Objects
    BY EngineAssumption DEF TypeInv, TypeOK, Objects
  <2> QED BY <2>1 DEF SideOrders
<1>2. \A o \in SideOrders(s) : Filled'[o] = Filled[o]
  BY SideOrdersFinite DEF Filled
<1>3. SumFunctionOnSet(Filled', SideOrders(s)) = SumFunctionOnSet(Filled, SideOrders(s))
  BY <1>2, SideOrdersFinite, SumSame
<1>4. FilledOn(s)' = SumFunctionOnSet(Filled', SideOrders(s)')
  BY DEF FilledOn, SideOrders
<1> QED BY <1>1, <1>3, <1>4, SideOrdersFinite

\* One order of a side is filled by qty more.
LEMMA FilledMore ==
    ASSUME TypeInv, TypeInv', NEW s, arrived' = arrived, NEW qty \in Int, NEW y \in SideOrders(s),
           \A o \in Objects : order'[o].side = order[o].side,
           order'[y].filled = order[y].filled + qty,
           \A o \in SideOrders(s) \ {y} : order'[o].filled = order[o].filled
    PROVE  FilledOn(s)' = FilledOn(s) + qty
<1>1. SideOrders(s)' = SideOrders(s)
  <2>1. 1 .. arrived \subseteq Objects
    BY EngineAssumption DEF TypeInv, TypeOK, Objects
  <2> QED BY <2>1 DEF SideOrders
<1>2. order' \in [Objects -> Order]
  BY DEF TypeInv, TypeOK
<1>3. \A o \in SideOrders(s) : Filled'[o] = order'[o].filled /\ Filled'[o] \in Int
  BY <1>2, SideOrdersFinite DEF Filled, Order
<1>4. \A o \in SideOrders(s) \ {y} : Filled[o] = Filled'[o]
  BY <1>3, SideOrdersFinite
<1>5. SumFunctionOnSet(Filled', SideOrders(s))
        = SumFunctionOnSet(Filled, SideOrders(s)) - Filled[y] + Filled'[y]
  BY <1>3, <1>4, SideOrdersFinite, SumUpdate
<1>6. FilledOn(s)' = SumFunctionOnSet(Filled', SideOrders(s)')
  BY DEF FilledOn, SideOrders
<1>7. SumFunctionOnSet(Filled, SideOrders(s)) \in Int
  BY SideOrdersFinite, SumType
<1>8. Filled'[y] = Filled[y] + qty /\ Filled[y] \in Int
  BY <1>3, SideOrdersFinite
<1> QED BY <1>1, <1>5, <1>6, <1>7, <1>8, SideOrdersFinite

LEMMA VolumeStep ==
    ASSUME TypeInv, TypeInv', VolumeConserved, [Next]_vars
    PROVE  VolumeConserved'
<1>1. CASE ProcessOrder
  <2> DEFINE n == arrived + 1
  <2>1. /\ arrived' = n /\ n \in Objects /\ order'[n].filled = 0 /\ total_volume_' = total_volume_
        /\ \A o \in Objects \ {n} : order'[o] = order[o]
    BY <1>1, ProcessEffect
  <2>2. ASSUME NEW s PROVE FilledOn(s)' = FilledOn(s)
    <3>1. arrived \in Nat /\ n \notin SideOrders(s) /\ IsFiniteSet(SideOrders(s))
      <4>1. arrived \in Nat /\ IsFiniteSet(SideOrders(s))
        BY SideOrdersFinite DEF TypeInv, TypeOK
      <4> QED BY <4>1 DEF SideOrders
    <3>2. \A o \in SideOrders(s) : o # n /\ o \in Objects
      BY <3>1, SideOrdersFinite
    <3>3. SideOrders(s)' = SideOrders(s) \/ SideOrders(s)' = SideOrders(s) \cup {n}
      <4>1. 1 .. arrived' = (1 .. arrived) \cup {n}
        BY <2>1, <3>1
      <4>2. \A o \in 1 .. arrived : order'[o] = order[o]
        <5>1. 1 .. arrived \subseteq Objects \ {n}
          BY <2>1, <3>1, EngineAssumption DEF Objects
        <5> QED BY <2>1, <5>1
      <4> QED BY <4>1, <4>2 DEF SideOrders
    <3>4. /\ \A o \in SideOrders(s) \cup {n} : Filled'[o] \in Int
          /\ \A o \in SideOrders(s) : Filled'[o] = Filled[o]
          /\ Filled'[n] = 0
      <4>1. order' \in [Objects -> Order]
        BY DEF TypeInv, TypeOK
      <4> QED BY <4>1, <2>1, <3>2 DEF Filled, Order
    <3>5. SumFunctionOnSet(Filled', SideOrders(s)) = SumFunctionOnSet(Filled, SideOrders(s))
      BY <3>1, <3>4, SumSame
    <3>6. SumFunctionOnSet(Filled', SideOrders(s)') = SumFunctionOnSet(Filled, SideOrders(s))
      <4>1. CASE SideOrders(s)' = SideOrders(s)
        BY <4>1, <3>5
      <4>2. CASE SideOrders(s)' = SideOrders(s) \cup {n}
        <5>1. SumFunctionOnSet(Filled', SideOrders(s) \cup {n})
                = 0 + SumFunctionOnSet(Filled', SideOrders(s))
          BY <3>1, <3>4, SumAdd
        <5>2. SumFunctionOnSet(Filled, SideOrders(s)) \in Int
          BY SideOrdersFinite, SumType
        <5> QED BY <4>2, <5>1, <5>2, <3>5
      <4> QED BY <3>3, <4>1, <4>2
    <3>7. FilledOn(s)' = SumFunctionOnSet(Filled', SideOrders(s)')
      BY DEF FilledOn, SideOrders
    <3> QED BY <3>6, <3>7, SideOrdersFinite
  <2> QED BY <2>1, <2>2 DEF VolumeConserved
<1>2. ASSUME NEW r \in Objects, Match(r) PROVE VolumeConserved'
  <2>1. PICK side \in OrderSide, other \in OrderSide, qty \in Nat :
          /\ side = order[taker].side /\ other = Opposite(side)
          /\ qty = MinOf(order[taker].remaining, order[r].remaining)
    BY <1>2, MatchEffect
  <2>2. /\ taker \in 1 .. arrived /\ r \in 1 .. arrived /\ order[r].side = other
        /\ \A o \in Objects : Fixed(o)
        /\ \A o \in Objects \ {taker, r} : order'[o] = order[o]
        /\ order'[taker].filled = order[taker].filled + qty
        /\ order'[r].filled = order[r].filled + qty
    BY <1>2, <2>1, MatchEffect
  <2>3. arrived' = arrived /\ total_volume_' = total_volume_ + qty
    BY <1>2, <2>1 DEF Match
  <2>4. side # other /\ {side, other} = OrderSide
    BY <2>1 DEF Opposite, OrderSide
  <2>5. \A o \in Objects : order'[o].side = order[o].side
    BY <2>2 DEF Fixed
  <2>6. /\ taker \in SideOrders(side) /\ r \in SideOrders(other)
        /\ \A o \in SideOrders(side) \ {taker} : order'[o].filled = order[o].filled
        /\ \A o \in SideOrders(other) \ {r} : order'[o].filled = order[o].filled
    <3>1. SideOrders(side) \subseteq Objects /\ SideOrders(other) \subseteq Objects
      BY SideOrdersFinite
    <3>2. /\ taker \in SideOrders(side) /\ r \in SideOrders(other)
          /\ taker \notin SideOrders(other) /\ r \notin SideOrders(side)
      BY <2>1, <2>2, <2>4 DEF SideOrders
    <3> QED BY <2>2, <3>1, <3>2
  <2>7. FilledOn(side)' = FilledOn(side) + qty
    BY <2>2, <2>3, <2>5, <2>6, FilledMore
  <2>8. FilledOn(other)' = FilledOn(other) + qty
    BY <2>2, <2>3, <2>5, <2>6, FilledMore
  <2> QED BY <2>1, <2>3, <2>4, <2>7, <2>8 DEF VolumeConserved, OrderSide
<1>3. ASSUME arrived' = arrived, total_volume_' = total_volume_,
             \A o \in Objects : /\ order'[o].filled = order[o].filled
                                /\ order'[o].side = order[o].side
      PROVE  VolumeConserved'
  BY <1>3, FilledSame DEF VolumeConserved
<1>4. CASE FinishOrder
  <2>1. /\ taker \in Objects /\ (\A o \in Objects : Fixed(o))
        /\ \A o \in Objects \ {taker} : order'[o] = order[o]
        /\ order'[taker].filled = order[taker].filled
        /\ UNCHANGED <<arrived, statVars>>
    BY <1>4, FinishEffect
  <2> QED BY <2>1, <1>3 DEF Fixed, statVars
<1>5. ASSUME NEW id \in OrderIds, orders_[id] # 0, Cancel(id), UNCHANGED <<arrived, statVars>>
      PROVE  VolumeConserved'
  <2>1. \A o \in Objects : Fixed(o) /\ order'[o].filled = order[o].filled
    BY <1>5, CancelEffect
  <2> QED BY <2>1, <1>3, <1>5 DEF Fixed, statVars
<1>6. ASSUME NEW id \in OrderIds, NEW u \in Users, CancelOrder(id, u) PROVE VolumeConserved'
  BY <1>5, <1>6 DEF CancelOrder, Cancellable
<1>7. ASSUME NEW u \in Users, CancelAllOrders(u) PROVE VolumeConserved'
  BY <1>3, <1>7 DEF CancelAllOrders, statVars
<1>8. ASSUME NEW id \in OrderIds, CancelNext(id) PROVE VolumeConserved'
  <2>1. CASE Cancellable(id, canceller) /\ Cancel(id)
    BY <2>1, <1>5, <1>8 DEF CancelNext, Cancellable
  <2>2. CASE UNCHANGED <<order, bookVars>>
    BY <2>2, <1>3, <1>8 DEF CancelNext, statVars
  <2> QED BY <1>8, <2>1, <2>2 DEF CancelNext
<1>9. CASE UNCHANGED vars
  BY <1>9, <1>3 DEF vars, statVars
<1> QED BY <1>1, <1>2, <1>4, <1>6, <1>7, <1>8, <1>9 DEF Next

\* What rests at one price: finitely many orders with something left.
LevelFine(s, p) ==
    /\ IsFiniteSet(RestingAt(s, p))
    /\ \A o \in RestingAt(s, p) :
          /\ o \in 1 .. arrived /\ o \in Objects /\ o \in book[s]
          /\ order[o].side = s /\ order[o].price = p
          /\ Remaining[o] = order[o].remaining /\ Remaining[o] \in Nat
    /\ RestingQuantity(s, p) \in Nat

LevelsFine == \A s \in OrderSide, p \in Prices : LevelFine(s, p)

LEMMA LevelFacts == TypeInv => LevelsFine
<1> SUFFICES ASSUME TypeInv, NEW s \in OrderSide, NEW p \in Prices PROVE LevelFine(s, p)
  BY DEF LevelsFine
<1>1. /\ order \in [Objects -> Order] /\ book[s] \subseteq Objects /\ MaxOrders \in Nat
  BY EngineAssumption DEF TypeInv, TypeOK
<1>2. IsFiniteSet(RestingAt(s, p))
  <2>1. IsFiniteSet(Objects)
    BY <1>1, FS_Interval DEF Objects
  <2> QED BY <1>1, <2>1, FS_Subset DEF RestingAt
<1>3. ASSUME NEW o \in RestingAt(s, p)
      PROVE  /\ o \in 1 .. arrived /\ o \in Objects /\ o \in book[s]
             /\ order[o].side = s /\ order[o].price = p
             /\ Remaining[o] = order[o].remaining /\ Remaining[o] \in Nat
  <2>1. o \in book[s] /\ o \in Objects /\ order[o].price = p
    BY <1>1 DEF RestingAt
  <2>2. o \in 1 .. arrived /\ order[o].side = s /\ order[o].remaining > 0
    BY <2>1 DEF TypeInv
  <2>3. order[o].remaining \in Int
    BY <1>1, <2>1 DEF Order
  <2> QED BY <2>1, <2>2, <2>3 DEF Remaining
<1>4. RestingQuantity(s, p) \in Nat
  BY <1>2, <1>3, SumType DEF RestingQuantity
<1> QED BY <1>2, <1>3, <1>4 DEF LevelFine

\* A level that is left alone stays above what rests there as long as nothing is added.
LEMMA LevelShrinks ==
    ASSUME TypeInv, TypeInv', LevelCoversOrders, NEW s \in OrderSide, NEW p \in Prices,
           RestingAt(s, p)' \subseteq RestingAt(s, p),
           \A o \in RestingAt(s, p)' : order'[o].remaining <= order[o].remaining,
           price_levels_'[s][p] = price_levels_[s][p]
    PROVE  price_levels_'[s][p] >= RestingQuantity(s, p)'
<1> DEFINE R == RestingAt(s, p)
           RR == RestingAt(s, p)'
<1>1. IsFiniteSet(R) /\ \A o \in R : Remaining[o] = order[o].remaining /\ Remaining[o] \in Nat
  BY LevelFacts DEF LevelsFine, LevelFine
<1>2. /\ \A o \in RR : Remaining'[o] = order'[o].remaining /\ Remaining'[o] \in Nat
      /\ RestingQuantity(s, p)' \in Nat /\ RestingQuantity(s, p) \in Nat
  <2>1. LevelsFine'
    BY LevelFacts, PTL
  <2> QED BY <2>1, LevelFacts DEF LevelsFine, LevelFine
<1>3. SumFunctionOnSet(Remaining', RR) <= SumFunctionOnSet(Remaining, R)
  <2>1. \A o \in RR : Remaining'[o] \in Int /\ Remaining'[o] <= Remaining[o]
    BY <1>1, <1>2
  <2>2. RR \in SUBSET R
    OBVIOUS
  <2> HIDE DEF R, RR
  <2> QED BY <1>1, <2>1, <2>2, SumShrinks
<1>4. RestingQuantity(s, p)' <= RestingQuantity(s, p)
  BY <1>3 DEF RestingQuantity
<1>5. price_levels_[s][p] >= RestingQuantity(s, p) /\ price_levels_[s][p] \in Nat
  BY DEF LevelCoversOrders, TypeInv, TypeOK
<1> QED BY <1>2, <1>4, <1>5

\* remove_order takes no more from the level than leaves the tree.
LEMMA LevelsRemove ==
    ASSUME TypeInv, TypeInv', LevelCoversOrders,
           NEW o \in 1 .. arrived, o \in book[order[o].side],
           NEW rem \in Nat, rem <= order[o].remaining, RemoveOrderFromBook(o, rem),
           \A q \in Objects : Fixed(q),
           \A q \in Objects \ {o} : Resting(q) => order'[q].remaining <= order[q].remaining
    PROVE  LevelCoversOrders'
<1>1. /\ book \in [OrderSide -> SUBSET Objects] /\ order \in [Objects -> Order]
      /\ price_levels_ \in [OrderSide -> [Prices -> Nat]]
      /\ order[o].side \in OrderSide /\ order[o].price \in Prices
  <2>1. o \in Objects
    BY EngineAssumption DEF TypeInv, TypeOK, Objects
  <2> QED BY <2>1 DEF TypeInv, TypeOK, Order
<1>2. /\ book' = [book EXCEPT ![order[o].side] = @ \ {o}]
      /\ price_levels_' = [price_levels_ EXCEPT
           ![order[o].side][order[o].price] = ClampedMinus(@, rem)]
  BY DEF RemoveOrderFromBook, RemoveOrder
<1> SUFFICES ASSUME NEW s \in OrderSide, NEW p \in Prices
             PROVE  price_levels_'[s][p] >= RestingQuantity(s, p)'
  BY DEF LevelCoversOrders
<1>3. book'[s] \subseteq book[s] /\ book[s] \subseteq Objects /\ o \notin book'[s]
  <2>1. s # order[o].side => o \notin book[s]
    BY DEF TypeInv
  <2> QED BY <1>1, <1>2, <2>1
<1>4. /\ RestingAt(s, p)' \subseteq RestingAt(s, p) \ {o}
      /\ \A q \in RestingAt(s, p)' : order'[q].remaining <= order[q].remaining
  <2>1. \A q \in book[s] : Resting(q)
    BY DEF Resting, OrderSide
  <2> QED BY <1>3, <2>1 DEF RestingAt, Fixed
<1>5. CASE s = order[o].side /\ p = order[o].price
  <2> DEFINE R == RestingAt(s, p)
             RR == RestingAt(s, p)'
  <2>1. /\ IsFiniteSet(R) /\ RestingQuantity(s, p) \in Nat
        /\ \A q \in R : Remaining[q] = order[q].remaining /\ Remaining[q] \in Nat
    BY LevelFacts DEF LevelsFine, LevelFine
  <2>2. /\ \A q \in RestingAt(s, p)' : Remaining'[q] = order'[q].remaining /\ Remaining'[q] \in Nat
        /\ RestingQuantity(s, p)' \in Nat
    <3>1. LevelsFine'
      BY LevelFacts, PTL
    <3> QED BY <3>1 DEF LevelsFine, LevelFine
  <2>3. o \in R
    BY <1>5 DEF RestingAt
  <2>4. IsFiniteSet(R \ {o}) /\ RR \in SUBSET (R \ {o})
    BY <1>4, <2>1, FS_Subset
  <2>5. \A q \in RR : Remaining'[q] \in Int /\ Remaining'[q] <= Remaining[q]
    BY <1>4, <2>1, <2>2
  <2>6. SumFunctionOnSet(Remaining', RR) <= SumFunctionOnSet(Remaining, R \ {o})
    <3>1. \A q \in R \ {o} : Remaining[q] \in Nat
      BY <2>1
    <3> HIDE DEF R, RR
    <3> QED BY <3>1, <2>4, <2>5, SumShrinks
  <2>7. SumFunctionOnSet(Remaining, R) = Remaining[o] + SumFunctionOnSet(Remaining, R \ {o})
    <3>1. \A q \in R : Remaining[q] \in Int
      BY <2>1
    <3> HIDE DEF R
    <3> QED BY <3>1, <2>1, <2>3, SumRemove
  <2>8. SumFunctionOnSet(Remaining, R \ {o}) \in Nat
    <3>1. \A q \in R \ {o} : Remaining[q] \in Nat
      BY <2>1
    <3> HIDE DEF R
    <3> QED BY <3>1, <2>4, SumType
  <2>9. /\ RestingQuantity(s, p) = SumFunctionOnSet(Remaining, R)
        /\ RestingQuantity(s, p)' = SumFunctionOnSet(Remaining', RR)
    BY DEF RestingQuantity
  <2>10. Remaining[o] = order[o].remaining /\ Remaining[o] \in Nat
    BY <2>1, <2>3
  <2>11. /\ price_levels_[s][p] \in Nat /\ price_levels_[s][p] >= RestingQuantity(s, p)
         /\ price_levels_'[s][p] = ClampedMinus(price_levels_[s][p], rem)
    BY <1>1, <1>2, <1>5 DEF LevelCoversOrders
  <2> HIDE DEF R, RR
  <2> QED BY <2>1, <2>2, <2>6, <2>7, <2>8, <2>9, <2>10, <2>11 DEF ClampedMinus
<1>6. CASE ~(s = order[o].side /\ p = order[o].price)
  <2>1. price_levels_'[s][p] = price_levels_[s][p]
    BY <1>1, <1>2, <1>6
  <2> QED BY <1>4, <2>1, LevelShrinks
<1> QED BY <1>5, <1>6

\* What is owned rests under its id, whatever ids the callers choose.
OwnerRests ==
    \A id \in OrderIds : orders_[id] # 0 =>
        Resting(orders_[id]) /\ order[orders_[id]].order_id = id

TotalsInv == TypeInv /\ VolumeConserved /\ LevelCoversOrders /\ OwnerRests

LEMMA OwnerRemove ==
    ASSUME TypeInv, OwnerRests, NEW o \in 1 .. arrived, NEW rem \in Int,
           RemoveOrderFromBook(o, rem), \A q \in Objects : Fixed(q)
    PROVE  OwnerRests'
<1>1. /\ book' = [book EXCEPT ![order[o].side] = @ \ {o}]
      /\ orders_' = [orders_ EXCEPT ![order[o].order_id] = 0]
  BY RemoveEffect
<1>2. /\ book \in [OrderSide -> SUBSET Objects] /\ orders_ \in [OrderIds -> 0 .. MaxOrders]
  BY DEF TypeInv, TypeOK
<1> SUFFICES ASSUME NEW id \in OrderIds, orders_'[id] # 0
             PROVE  Resting(orders_[id])' /\ order'[orders_'[id]].order_id = id
  BY DEF OwnerRests
<1>3. orders_'[id] = orders_[id] /\ id # order[o].order_id
  BY <1>1, <1>2
<1>4. Resting(orders_[id]) /\ order[orders_[id]].order_id = id
  BY <1>3 DEF OwnerRests
<1>5. orders_[id] # o /\ orders_[id] \in Objects
  BY <1>2, <1>3, <1>4 DEF Resting, OrderSide
<1>6. order'[orders_[id]].order_id = id
  BY <1>4, <1>5 DEF Fixed
<1>7. Resting(orders_[id])'
  BY <1>1, <1>2, <1>3, <1>4, <1>5 DEF Resting, OrderSide
<1> QED BY <1>3, <1>6, <1>7

\* An order that comes to rest adds to its level what it adds to the tree.
LEMMA LevelsInsert ==
    ASSUME TypeInv, TypeInv', LevelCoversOrders, NEW o \in Objects, NEW new \in Order,
           new = order'[o], o \notin book[new.side],
           new.side \in OrderSide, new.price \in Prices,
           book' = [book EXCEPT ![new.side] = @ \cup {o}],
           price_levels_' = [price_levels_ EXCEPT ![new.side][new.price] = @ + new.remaining],
           \A q \in Objects : Fixed(q), \A q \in Objects : order'[q].remaining = order[q].remaining
    PROVE  LevelCoversOrders'
<1>1. /\ book \in [OrderSide -> SUBSET Objects] /\ order \in [Objects -> Order]
      /\ price_levels_ \in [OrderSide -> [Prices -> Nat]]
      /\ \A s \in OrderSide : \A q \in book[s] : order[q].remaining \in Int
  BY DEF TypeInv, TypeOK, Order
<1> SUFFICES ASSUME NEW s \in OrderSide, NEW p \in Prices
             PROVE  price_levels_'[s][p] >= RestingQuantity(s, p)'
  BY DEF LevelCoversOrders
<1>2. CASE s = new.side /\ p = new.price
  <2> DEFINE R == RestingAt(s, p)
  <2>1. /\ IsFiniteSet(R) /\ RestingQuantity(s, p) \in Nat /\ o \notin R
        /\ \A q \in R : q \in Objects /\ Remaining[q] = order[q].remaining /\ Remaining[q] \in Nat
    BY <1>2, LevelFacts DEF LevelsFine, LevelFine
  <2>2. RestingAt(s, p)' = R \cup {o}
    BY <1>1, <1>2 DEF RestingAt, Fixed
  <2>3. \A q \in R \cup {o} : Remaining'[q] = order'[q].remaining /\ Remaining'[q] \in Int
    <3>1. order' \in [Objects -> Order]
      BY DEF TypeInv, TypeOK
    <3> QED BY <2>1, <3>1 DEF Remaining, Order
  <2>4. SumFunctionOnSet(Remaining', R \cup {o})
          = Remaining'[o] + SumFunctionOnSet(Remaining', R)
    <3> HIDE DEF R
    <3> QED BY <2>1, <2>3, SumAdd
  <2>5. SumFunctionOnSet(Remaining', R) = SumFunctionOnSet(Remaining, R)
    <3>1. \A q \in R : Remaining'[q] = Remaining[q]
      BY <2>1, <2>3
    <3> HIDE DEF R
    <3> QED BY <2>1, <3>1, SumSame
  <2>6. /\ RestingQuantity(s, p) = SumFunctionOnSet(Remaining, R)
        /\ RestingQuantity(s, p)' = SumFunctionOnSet(Remaining', RestingAt(s, p)')
    BY DEF RestingQuantity
  <2>7. Remaining'[o] = new.remaining /\ new.remaining \in Int
    BY <2>3
  <2>8. /\ price_levels_[s][p] \in Nat /\ price_levels_[s][p] >= RestingQuantity(s, p)
        /\ price_levels_'[s][p] = price_levels_[s][p] + new.remaining
    BY <1>1, <1>2 DEF LevelCoversOrders
  <2> HIDE DEF R
  <2> QED BY <2>1, <2>2, <2>4, <2>5, <2>6, <2>7, <2>8
<1>3. CASE ~(s = new.side /\ p = new.price)
  <2>1. price_levels_'[s][p] = price_levels_[s][p]
    BY <1>1, <1>3
  <2>2. /\ RestingAt(s, p)' \subseteq RestingAt(s, p)
        /\ \A q \in RestingAt(s, p)' : order'[q].remaining <= order[q].remaining
    BY <1>1, <1>3 DEF RestingAt, Fixed
  <2> QED BY <2>1, <2>2, LevelShrinks
<1> QED BY <1>2, <1>3

LEMMA LevelsStep ==
    ASSUME TypeInv, TypeInv', LevelCoversOrders, OwnerRests, [Next]_vars
    PROVE  LevelCoversOrders' /\ OwnerRests'
<1>1. \A s \in OrderSide : book[s] \subseteq Objects \cap (1 .. arrived)
  BY DEF TypeInv, TypeOK
<1>2. ASSUME UNCHANGED <<book, price_levels_>>,
             \A q \in Objects : q \in 1 .. arrived => Fixed(q),
             \A q \in Objects : Resting(q) => order'[q].remaining <= order[q].remaining
      PROVE  LevelCoversOrders'
  <2> SUFFICES ASSUME NEW s \in OrderSide, NEW p \in Prices
               PROVE  price_levels_'[s][p] >= RestingQuantity(s, p)'
    BY DEF LevelCoversOrders
  <2>1. /\ RestingAt(s, p)' \subseteq RestingAt(s, p)
        /\ \A q \in RestingAt(s, p)' : order'[q].remaining <= order[q].remaining
    BY <1>1, <1>2 DEF RestingAt, Resting, Fixed, OrderSide
  <2> QED BY <1>2, <2>1, LevelShrinks
<1>3. ASSUME UNCHANGED <<book, orders_>>, \A q \in Objects : q \in 1 .. arrived => Fixed(q)
      PROVE  OwnerRests'
  BY <1>1, <1>3 DEF OwnerRests, Resting, Fixed, OrderSide
<1>4. \A q \in Objects : order[q].remaining \in Int
  <2>1. order \in [Objects -> Order]
    BY DEF TypeInv, TypeOK
  <2> QED BY <2>1 DEF Order
<1>5. CASE ProcessOrder
  <2>1. \A q \in Objects : q \in 1 .. arrived => order'[q] = order[q]
    <3>1. /\ arrived' = arrived + 1 /\ arrived \in Nat
          /\ \A q \in Objects \ {arrived'} : order'[q] = order[q]
      BY <1>5, ProcessEffect DEF TypeInv, TypeOK
    <3>2. arrived' \notin 1 .. arrived
      BY <3>1
    <3> QED BY <3>1, <3>2
  <2>2. UNCHANGED bookVars
    BY <1>5 DEF ProcessOrder
  <2>3. \A q \in Objects : Resting(q) => q \in 1 .. arrived
    BY <1>1 DEF Resting, OrderSide
  <2> QED BY <1>2, <1>3, <1>4, <2>1, <2>2, <2>3 DEF bookVars, Fixed
<1>6. ASSUME NEW r \in Objects, Match(r) PROVE LevelCoversOrders' /\ OwnerRests'
  <2>1. PICK side \in OrderSide, qty \in Nat :
          /\ side = order[taker].side /\ r \in book[Opposite(side)]
          /\ order[r].side = Opposite(side)
          /\ qty = MinOf(order[taker].remaining, order[r].remaining)
    BY <1>6, MatchEffect
  <2>2. /\ taker \in 1 .. arrived /\ r \in 1 .. arrived /\ \A o \in Objects : Fixed(o)
        /\ \A o \in Objects \ {taker, r} : order'[o] = order[o]
        /\ order'[r].remaining = order[r].remaining - qty
        /\ \/ order'[r].remaining = 0 /\ RemoveOrderFromBook(r, 0)
           \/ order'[r].remaining > 0 /\ UNCHANGED bookVars
    BY <1>6, <2>1, MatchEffect
  <2>3. ~Resting(taker) /\ r \in book[order[r].side] /\ 0 <= order[r].remaining
        /\ order[r].remaining \in Int
    <3>1. Working
      BY <1>6 DEF Match, Meets, Working
    <3>2. r \in book[order[r].side] /\ order[r].side \in OrderSide
      BY <2>1 DEF Opposite, OrderSide
    <3>3. order[r].remaining > 0 /\ order[r].remaining \in Int
      BY <3>2, <1>6 DEF TypeInv, TypeOK, Order
    <3> QED BY <3>1, <3>2, <3>3 DEF TypeInv
  <2>4. ASSUME NEW q \in Objects, Resting(q) PROVE order'[q].remaining <= order[q].remaining
    <3>1. CASE q = r
      BY <3>1, <1>4, <2>1, <2>2
    <3>2. CASE q # r
      <4>1. order'[q] = order[q]
        BY <2>2, <2>3, <2>4, <3>2
      <4> QED BY <1>4, <4>1
    <3> QED BY <3>1, <3>2
  <2>5. CASE RemoveOrderFromBook(r, 0)
    <3>1. LevelCoversOrders'
      BY <2>2, <2>3, <2>4, <2>5, LevelsRemove
    <3>2. OwnerRests'
      BY <2>2, <2>5, OwnerRemove
    <3> QED BY <3>1, <3>2
  <2>6. CASE UNCHANGED bookVars
    BY <1>2, <1>3, <2>2, <2>4, <2>6 DEF bookVars
  <2> QED BY <2>2, <2>5, <2>6
<1>7. CASE FinishOrder
  <2>1. /\ taker \in 1 .. arrived /\ taker \in Objects /\ \A r \in Objects : Fixed(r)
        /\ \A o \in Objects \ {taker} : order'[o] = order[o]
        /\ order'[taker].remaining = order[taker].remaining
        /\ order' \in [Objects -> Order]
        /\ Working
    BY <1>7, FinishEffect
  <2>2. \A q \in Objects : order'[q].remaining = order[q].remaining
    BY <2>1
  <2>3. PICK new \in Order : new = order'[taker]
    BY <2>1
  <2>4. CASE UNCHANGED <<book, price_levels_, orders_, user_orders_>>
    BY <1>2, <1>3, <1>4, <2>1, <2>2, <2>4
  <2>5. CASE /\ book' = [book EXCEPT ![new.side] = @ \cup {taker}]
             /\ price_levels_' = [price_levels_ EXCEPT ![new.side][new.price]
                                    = @ + new.remaining]
             /\ \/ orders_' = [orders_ EXCEPT ![new.order_id] = taker]
                \/ UNCHANGED orders_
    <3>1. /\ new.side = order[taker].side /\ new.price = order[taker].price
          /\ new.order_id = order[taker].order_id
          /\ new.remaining = order[taker].remaining /\ ~Resting(taker)
          /\ new.side \in OrderSide /\ new.price \in Prices
          /\ new.order_id \in OrderIds
      BY <2>1, <2>2, <2>3 DEF Fixed, TypeInv, Order
    <3>2. LevelCoversOrders'
      <4>1. taker \notin book[new.side]
        BY <3>1 DEF Resting, OrderSide
      <4>2. PICK o \in Objects : o = taker
        BY <2>1
      <4> QED BY <2>1, <2>2, <2>3, <2>5, <3>1, <4>1, <4>2, LevelsInsert
    <3>3. OwnerRests'
      <4>1. /\ book \in [OrderSide -> SUBSET Objects] /\ orders_ \in [OrderIds -> 0 .. MaxOrders]
        BY DEF TypeInv, TypeOK
      <4>z. PICK o \in Objects : o = taker
        BY <2>1
      <4>2. Resting(o)'
        BY <2>5, <3>1, <4>1, <4>z DEF Resting, OrderSide
      <4>3. \A q \in Objects : Resting(q) => Resting(q)'
        BY <2>5, <3>1, <4>1 DEF Resting, OrderSide
      <4>4. order'[taker].order_id = new.order_id
        BY <2>3
      <4> SUFFICES ASSUME NEW id \in OrderIds, orders_'[id] # 0
                   PROVE  Resting(orders_[id])' /\ order'[orders_'[id]].order_id = id
        BY DEF OwnerRests
      <4>5. CASE orders_'[id] = taker /\ id = new.order_id
        BY <4>2, <4>4, <4>5, <4>z DEF Resting
      <4>6. CASE orders_'[id] = orders_[id]
        <5>1. Resting(orders_[id]) /\ order[orders_[id]].order_id = id /\ orders_[id] \in Objects
          BY <1>1, <4>6 DEF OwnerRests, Resting, OrderSide
        <5> QED BY <2>1, <4>3, <4>6, <5>1 DEF Fixed, Resting
      <4> QED BY <2>5, <3>1, <4>1, <4>5, <4>6
    <3> QED BY <3>2, <3>3
  <2>6. \/ UNCHANGED <<book, price_levels_, orders_, user_orders_>>
        \/ /\ book' = [book EXCEPT ![new.side] = @ \cup {taker}]
           /\ price_levels_' = [price_levels_ EXCEPT ![new.side][new.price]
                                  = @ + new.remaining]
           /\ \/ orders_' = [orders_ EXCEPT ![new.order_id] = taker]
              \/ UNCHANGED orders_
    BY <1>7, <2>3, FinishEffect
  <2> QED BY <2>4, <2>5, <2>6
<1>8. ASSUME NEW id \in OrderIds, orders_[id] # 0, Cancel(id)
      PROVE  LevelCoversOrders' /\ OwnerRests'
  <2>1. PICK o \in 1 .. arrived : o = orders_[id]
    BY <1>8, CancelEffect
  <2>2. /\ o \in Objects /\ (\A q \in Objects : Fixed(q))
        /\ \A q \in Objects : order'[q].remaining = order[q].remaining
        /\ RemoveOrderFromBook(o, order[o].remaining)
    BY <1>8, <2>1, CancelEffect
  <2>3. o \in book[order[o].side] /\ order[o].remaining \in Nat
    <3>1. Resting(o)
      BY <1>8, <2>1 DEF OwnerRests
    <3>2. PICK s \in OrderSide : o \in book[s]
      BY <3>1 DEF Resting, OrderSide
    <3>3. order[o].side = s /\ order[o].remaining > 0 /\ order[o].remaining \in Int
      BY <1>4, <2>2, <3>1, <3>2 DEF TypeInv
    <3> QED BY <3>2, <3>3
  <2>4. \A q \in Objects : order'[q].remaining <= order[q].remaining
    BY <1>4, <2>2
  <2>5. LevelCoversOrders'
    <3>1. PICK rem \in Nat : rem = order[o].remaining
      BY <2>3
    <3>2. RemoveOrderFromBook(o, rem) /\ rem <= order[o].remaining
      BY <2>2, <3>1
    <3> QED BY <2>2, <2>3, <2>4, <3>2, LevelsRemove
  <2>6. OwnerRests'
    <3>1. PICK rem \in Int : rem = order[o].remaining
      BY <2>3
    <3>2. RemoveOrderFromBook(o, rem)
      BY <2>2, <3>1
    <3> QED BY <2>2, <3>2, OwnerRemove
  <2> QED BY <2>5, <2>6
<1>9. ASSUME NEW id \in OrderIds, NEW u \in Users, CancelOrder(id, u)
      PROVE  LevelCoversOrders' /\ OwnerRests'
  BY <1>8, <1>9 DEF CancelOrder, Cancellable
<1>10. ASSUME UNCHANGED <<order, bookVars>> PROVE LevelCoversOrders' /\ OwnerRests'
  BY <1>2, <1>3, <1>4, <1>10 DEF bookVars, Fixed
<1>11. ASSUME NEW u \in Users, CancelAllOrders(u) PROVE LevelCoversOrders' /\ OwnerRests'
  BY <1>10, <1>11 DEF CancelAllOrders
<1>12. ASSUME NEW id \in OrderIds, CancelNext(id) PROVE LevelCoversOrders' /\ OwnerRests'
  BY <1>8, <1>10, <1>12 DEF CancelNext, Cancellable
<1>13. CASE UNCHANGED vars
  BY <1>10, <1>13 DEF vars
<1> QED BY <1>5, <1>6, <1>7, <1>9, <1>11, <1>12, <1>13 DEF Next

\* Whatever the callers send, reused ids included: what both sides have filled is the
\* volume counted, and no price level ever shows less than what rests there.
THEOREM TotalsKept == Spec => []TotalsCover
<1>1. Init => TotalsInv
  <2> SUFFICES ASSUME Init PROVE TotalsInv
    OBVIOUS
  <2>1. TypeInv
    BY TypeInit
  <2>2. VolumeConserved
    <3>1. \A s : SideOrders(s) = {}
      <4>1. 1 .. arrived = {}
        BY DEF Init
      <4> QED BY <4>1 DEF SideOrders
    <3>2. \A s : FilledOn(s) = 0
      BY <2>1, <3>1, SideOrdersFinite, SumEmpty
    <3> QED BY <3>2 DEF VolumeConserved, Init
  <2>3. LevelCoversOrders
    <3>1. \A s \in OrderSide, p \in Prices : RestingAt(s, p) = {} /\ price_levels_[s][p] = 0
      BY DEF Init, RestingAt
    <3>2. \A s \in OrderSide, p \in Prices : RestingQuantity(s, p) = 0
      BY <3>1, SumEmpty DEF RestingQuantity
    <3> QED BY <3>1, <3>2 DEF LevelCoversOrders
  <2>4. OwnerRests
    BY DEF Init, OwnerRests
  <2> QED BY <2>1, <2>2, <2>3, <2>4 DEF TotalsInv
<1>2. TotalsInv /\ [Next]_vars => TotalsInv'
  BY TypeStep, VolumeStep, LevelsStep DEF TotalsInv
<1>3. TotalsInv => TotalsCover
  BY DEF TotalsInv, TotalsCover
<1> QED BY <1>1, <1>2, <1>3, PTL DEF Spec
-----------------------------------------------------------------------------
(* The engine over its book: each side is used as OrderBookSide promises.  *)

\* What the clock shows is one of its readings, and so is every order's timestamp.
MomentInv ==
    /\ clock \in Readings(arrived)
    /\ \A o \in 1 .. arrived : order[o].timestamp \in Moments

\* One order more is one tick more.
LEMMA NextReading ==
    ASSUME NEW n \in Nat, NEW c \in Readings(n), NEW d \in ClockTicks
    PROVE  c + d \in Readings(n + 1)
<1>1. PICK f \in [1 .. n -> ClockTicks] : c = SumFunctionOnSet(f, 1 .. n)
  BY DEF Readings
<1>2. PICK g : g = [i \in 1 .. n + 1 |-> IF i = n + 1 THEN d ELSE f[i]]
  OBVIOUS
<1>3. g \in [1 .. n + 1 -> ClockTicks]
  BY <1>2
<1>4. IsFiniteSet(1 .. n) /\ n + 1 \notin 1 .. n /\ (1 .. n) \cup {n + 1} = 1 .. n + 1
  <2>1. IsFiniteSet(1 .. n)
    BY FS_Interval
  <2>2. n + 1 \notin 1 .. n
    OBVIOUS
  <2>3. (1 .. n) \cup {n + 1} = 1 .. n + 1
    OBVIOUS
  <2> QED BY <2>1, <2>2, <2>3
<1>5. \A i \in 1 .. n + 1 : g[i] \in Int
  BY <1>3, EngineAssumption
<1>6. SumFunctionOnSet(g, 1 .. n + 1) = g[n + 1] + SumFunctionOnSet(g, 1 .. n)
  <2>1. PICK S : S = 1 .. n
    OBVIOUS
  <2>2. IsFiniteSet(S) /\ n + 1 \notin S /\ S \cup {n + 1} = 1 .. n + 1
    BY <1>4, <2>1
  <2>3. \A i \in S \cup {n + 1} : g[i] \in Int
    BY <1>5, <2>2
  <2>4. SumFunctionOnSet(g, S \cup {n + 1}) = g[n + 1] + SumFunctionOnSet(g, S)
    BY <2>2, <2>3, SumAdd
  <2> QED BY <2>1, <2>2, <2>4
<1>7. SumFunctionOnSet(g, 1 .. n) = c
  <2>1. \A i \in 1 .. n : g[i] = f[i]
    BY <1>2
  <2> QED BY <1>1, <1>4, <2>1, SumSame
<1>8. c \in Int /\ g[n + 1] = d /\ d \in Int
  <2>1. SumFunctionOnSet(g, 1 .. n) \in Int
    BY <1>4, <1>5, SumType
  <2> QED BY <1>2, <1>7, <2>1, EngineAssumption
<1>9. c + d = SumFunctionOnSet(g, 1 .. n + 1)
  BY <1>6, <1>7, <1>8
<1> QED BY <1>3, <1>9 DEF Readings

\* Whatever ids the callers choose, only process_order makes an order.
LEMMA KeysFixed ==
    ASSUME TypeInv, [Next]_vars
    PROVE  \/ ProcessOrder
           \/ arrived' = arrived /\ clock' = clock /\ \A o \in Objects : Fixed(o)
<1>1. CASE UNCHANGED <<order, arrived, clock>>
  BY <1>1 DEF Fixed
<1>2. ASSUME NEW id \in OrderIds, orders_[id] # 0, Cancel(id) PROVE \A o \in Objects : Fixed(o)
  BY <1>2, CancelEffect
<1>3. CASE \E id \in OrderIds, u \in Users : CancelOrder(id, u)
  BY <1>2, <1>3 DEF CancelOrder, Cancellable
<1>4. CASE \E id \in OrderIds : CancelNext(id)
  BY <1>1, <1>2, <1>4 DEF CancelNext, Cancellable
<1>5. CASE \E r \in Objects : Match(r)
  BY <1>5, MatchEffect DEF Match
<1>6. CASE FinishOrder
  BY <1>6, FinishEffect
<1> QED BY <1>1, <1>3, <1>4, <1>5, <1>6 DEF Next, CancelAllOrders, vars

LEMMA MomentInit == Init => MomentInv
<1> SUFFICES ASSUME Init PROVE MomentInv
  OBVIOUS
<1>1. arrived = 0 /\ clock = 0 /\ 1 .. 0 = {}
  BY DEF Init
<1>2. PICK f : f = [i \in 1 .. 0 |-> 0]
  OBVIOUS
<1>3. f \in [1 .. 0 -> ClockTicks]
  BY <1>2
<1>4. SumFunctionOnSet(f, 1 .. 0) = 0
  BY <1>1, SumEmpty
<1>5. clock \in Readings(arrived)
  BY <1>1, <1>3, <1>4 DEF Readings
<1> QED BY <1>1, <1>5 DEF MomentInv

LEMMA MomentStep == ASSUME TypeInv, MomentInv, [Next]_vars PROVE MomentInv'
<1>1. arrived \in 0 .. MaxOrders /\ MaxOrders \in Nat
  BY EngineAssumption DEF TypeInv, TypeOK
<1>2. CASE ProcessOrder
  <2>1. /\ arrived' = arrived + 1 /\ arrived' \in Objects
        /\ order'[arrived'].timestamp = clock'
        /\ \A o \in Objects \ {arrived'} : order'[o] = order[o]
    BY <1>2, ProcessEffect
  <2>2. PICK d \in ClockTicks : clock' = clock + d
    BY <1>2, ProcessEffect
  <2>3. clock' \in Readings(arrived')
    BY <1>1, <2>1, <2>2, NextReading DEF MomentInv
  <2>4. clock' \in Moments
    <3>1. arrived' \in 0 .. MaxOrders
      BY <1>1, <2>1 DEF Objects
    <3> QED BY <2>3, <3>1 DEF Moments
  <2>5. ASSUME NEW o \in 1 .. arrived' PROVE order'[o].timestamp \in Moments
    <3>1. CASE o = arrived'
      BY <2>1, <2>4, <3>1
    <3>2. CASE o # arrived'
      <4>1. o \in 1 .. arrived /\ o \in Objects \ {arrived'}
        BY <1>1, <2>1, <3>2 DEF Objects
      <4> QED BY <2>1, <4>1 DEF MomentInv
    <3> QED BY <3>1, <3>2
  <2> QED BY <2>3, <2>5 DEF MomentInv
<1>3. CASE arrived' = arrived /\ clock' = clock /\ \A o \in Objects : Fixed(o)
  <2>1. \A o \in 1 .. arrived : order'[o].timestamp = order[o].timestamp
    BY <1>1, <1>3 DEF Objects, Fixed
  <2>2. Readings(arrived)' = Readings(arrived)
    BY <1>3 DEF Readings
  <2> QED BY <1>3, <2>1, <2>2 DEF MomentInv, Moments
<1> QED BY <1>2, <1>3, KeysFixed

\* The key of an order that rests is one a side may be given.
LEMMA KeyTypes ==
    ASSUME TypeInv, MomentInv, NEW o \in 1 .. arrived
    PROVE  Key(o) \in Keys
<1>1. o \in Objects /\ order[o].price \in Prices /\ order[o].timestamp \in Moments
  BY EngineAssumption DEF TypeInv, TypeOK, Objects, MomentInv
<1> QED BY <1>1 DEF Key, Keys

\* First of keys is Ahead of orders.
LEMMA KeysFirst ==
    ASSUME TypeInv, NEW s \in OrderSide, NEW a \in book[s], NEW b \in book[s]
    PROVE  First(s, Key(a), Key(b)) <=> Ahead(a, b)
<1>1. /\ order[a].side = s /\ order[b].side = s /\ a \in 1 .. arrived /\ b \in 1 .. arrived
      /\ arrived \in 0 .. MaxOrders
  BY DEF TypeInv, TypeOK
<1>2. order[a] \in Order /\ order[b] \in Order
  BY <1>1, EngineAssumption DEF TypeInv, TypeOK, Objects
<1>3. /\ order[a].price \in Int /\ order[b].price \in Int
      /\ order[a].timestamp \in Int /\ order[b].timestamp \in Int /\ a \in Int /\ b \in Int
  BY <1>1, <1>2 DEF Order
<1>4. /\ Key(a).price = order[a].price /\ Key(a).timestamp = order[a].timestamp /\ Key(a).number = a
      /\ Key(b).price = order[b].price /\ Key(b).timestamp = order[b].timestamp /\ Key(b).number = b
  BY DEF Key
<1>5. CASE s = "BUY"
  BY <1>1, <1>3, <1>4, <1>5 DEF First, Ahead, KeyBefore, PriceBetter
<1>6. CASE s # "BUY"
  BY <1>1, <1>3, <1>4, <1>6 DEF First, Ahead, KeyBefore, PriceBetter
<1> QED BY <1>5, <1>6

\* The key of the order the engine meets next is the only one first among those at rest.
LEMMA OfferedIsFirst ==
    ASSUME TypeInv, NEW s \in OrderSide, book[s] # {}
    PROVE  /\ Offered(s) \in KeysAt(s)
           /\ \A k \in KeysAt(s) \ {Offered(s)} : First(s, Offered(s), k)
           /\ \A a \in KeysAt(s) :
                (\A k \in KeysAt(s) \ {a} : First(s, a, k)) => a = Offered(s)
<1>1. PICK o : o = (CHOOSE z \in book[s] : IsBest(s, z))
  OBVIOUS
<1>2. o \in book[s] /\ IsBest(s, o)
  <2>1. \E z \in book[s] : IsBest(s, z)
    BY BestExists DEF IsBest
  <2> QED BY <1>1, <2>1
<1>3. Offered(s) = Key(o)
  BY <1>1 DEF Offered
<1>4. ASSUME NEW p \in book[s], Key(p) # Key(o) PROVE First(s, Key(o), Key(p))
  BY <1>2, <1>4, KeysFirst DEF IsBest
<1>5. ASSUME NEW p \in book[s], \A k \in KeysAt(s) \ {Key(p)} : First(s, Key(p), k)
      PROVE  Key(p) = Key(o)
  <2> SUFFICES ASSUME Key(p) # Key(o) PROVE FALSE
    OBVIOUS
  <2>1. Ahead(p, o)
    BY <1>2, <1>5, KeysFirst DEF KeysAt
  <2>2. Ahead(o, p)
    BY <1>2 DEF IsBest
  <2> QED BY <1>2, <2>1, <2>2, AheadIsOrder
<1> QED BY <1>2, <1>3, <1>4, <1>5 DEF KeysAt

\* What the engine sees is what the promise offers.
BookOffers ==
    /\ Offered("BUY") = Bids!BestOf(KeysAt("BUY"))
    /\ Offered("SELL") = Asks!BestOf(KeysAt("SELL"))

LEMMA OffersPromised == TypeInv => BookOffers
<1> SUFFICES ASSUME TypeInv PROVE BookOffers
  OBVIOUS
<1>1. Offered("BUY") = Bids!BestOf(KeysAt("BUY"))
  <2>1. CASE book["BUY"] = {}
    BY <2>1 DEF Offered, KeysAt, Bids!BestOf
  <2>2. CASE book["BUY"] # {}
    <3>1. KeysAt("BUY") # {}
      BY <2>2 DEF KeysAt
    <3> QED BY <2>2, <3>1, OfferedIsFirst DEF Bids!BestOf, FirstBid, OrderSide
  <2> QED BY <2>1, <2>2
<1>2. Offered("SELL") = Asks!BestOf(KeysAt("SELL"))
  <2>1. CASE book["SELL"] = {}
    BY <2>1 DEF Offered, KeysAt, Asks!BestOf
  <2>2. CASE book["SELL"] # {}
    <3>1. KeysAt("SELL") # {}
      BY <2>2 DEF KeysAt
    <3> QED BY <2>2, <3>1, OfferedIsFirst DEF Asks!BestOf, FirstAsk, OrderSide
  <2> QED BY <2>1, <2>2
<1> QED BY <1>1, <1>2 DEF BookOffers

\* What a step may do to the orders of one side.
SideMoves(s) ==
    \/ book'[s] = book[s]
    \/ \E o \in 1 .. arrived : o \notin book[s] /\ book'[s] = book[s] \cup {o}
    \/ \E o \in book[s] : book'[s] = book[s] \ {o}

LEMMA BookMoves ==
    ASSUME TypeInv, [Next]_vars, NEW s \in OrderSide
    PROVE  SideMoves(s)
<1>1. book \in [OrderSide -> SUBSET Objects]
  BY DEF TypeInv, TypeOK
<1>2. CASE book' = book
  BY <1>2 DEF SideMoves
<1>3. ASSUME NEW o \in 1 .. arrived, NEW rem \in Int, RemoveOrderFromBook(o, rem)
      PROVE  SideMoves(s)
  <2>1. book' = [book EXCEPT ![order[o].side] = @ \ {o}]
    BY <1>3, RemoveEffect
  <2>2. book'[s] = book[s] \/ book'[s] = book[s] \ {o}
    BY <1>1, <2>1
  <2>3. CASE o \in book[s]
    BY <2>2, <2>3 DEF SideMoves
  <2>4. CASE o \notin book[s]
    <3>1. book[s] \ {o} = book[s]
      BY <2>4
    <3> QED BY <2>2, <3>1 DEF SideMoves
  <2> QED BY <2>3, <2>4
<1>4. CASE ProcessOrder
  BY <1>2, <1>4, ProcessEffect DEF bookVars
<1>5. ASSUME NEW r \in Objects, Match(r) PROVE SideMoves(s)
  <2>1. r \in 1 .. arrived /\ (RemoveOrderFromBook(r, 0) \/ UNCHANGED bookVars)
    BY <1>5, MatchEffect
  <2> QED BY <1>2, <1>3, <2>1 DEF bookVars
<1>6. CASE FinishOrder
  <2>1. /\ Working /\ taker \in 1 .. arrived
        /\ book' = book \/ book' = [book EXCEPT ![order'[taker].side] = @ \cup {taker}]
    BY <1>6, FinishEffect
  <2>2. taker \notin book[s]
    BY <2>1 DEF TypeInv, Resting, OrderSide
  <2>3. book'[s] = book[s] \/ book'[s] = book[s] \cup {taker}
    BY <1>1, <2>1
  <2> QED BY <2>1, <2>2, <2>3 DEF SideMoves
<1>7. ASSUME NEW id \in OrderIds, orders_[id] # 0, Cancel(id) PROVE SideMoves(s)
  <2>1. PICK o \in 1 .. arrived : order[o].remaining \in Int /\ RemoveOrderFromBook(o, order[o].remaining)
    BY <1>7, CancelEffect
  <2> QED BY <1>3, <2>1
<1>8. CASE \E id \in OrderIds, u \in Users : CancelOrder(id, u)
  BY <1>7, <1>8 DEF CancelOrder, Cancellable
<1>9. CASE \E id \in OrderIds : CancelNext(id)
  BY <1>2, <1>7, <1>9 DEF CancelNext, Cancellable, bookVars
<1>10. CASE UNCHANGED vars \/ \E u \in Users : CancelAllOrders(u)
  BY <1>2, <1>10 DEF CancelAllOrders, bookVars, vars
<1> QED BY <1>4, <1>5, <1>6, <1>8, <1>9, <1>10 DEF Next

\* What an order is sorted by stays as process_order received it.
LEMMA KeyKept ==
    ASSUME TypeInv, [Next]_vars, NEW o \in 1 .. arrived
    PROVE  o \in Objects /\ Key(o)' = Key(o)
<1>1. arrived \in 0 .. MaxOrders /\ o \in Objects /\ arrived + 1 # o
  BY EngineAssumption DEF TypeInv, TypeOK, Objects
<1>2. CASE ProcessOrder
  <2>1. order'[o] = order[o]
    BY <1>1, <1>2, ProcessEffect
  <2> QED BY <1>1, <2>1 DEF Key
<1>3. CASE Fixed(o)
  BY <1>1, <1>3 DEF Fixed, Key
<1> QED BY <1>1, <1>2, <1>3, KeysFixed

\* To its caller each side changes by one key at a time.
LEMMA KeysStep ==
    ASSUME TypeInv, MomentInv, [Next]_vars, NEW s \in OrderSide
    PROVE  \/ KeysAt(s)' = KeysAt(s)
           \/ \E k \in Keys : k \notin KeysAt(s) /\ KeysAt(s)' = KeysAt(s) \cup {k}
           \/ \E k \in Keys : k \in KeysAt(s) /\ KeysAt(s)' = KeysAt(s) \ {k}
<1>1. \A o \in book[s] : o \in 1 .. arrived
  BY DEF TypeInv
<1>2. \A o \in 1 .. arrived : Key(o) \in Keys /\ Key(o)' = Key(o)
  BY KeyTypes, KeyKept
<1>3. \A o, p : Key(o) = Key(p) => o = p
  BY DEF Key
<1>4. KeysAt(s)' = {Key(o)' : o \in book'[s]}
  BY DEF KeysAt
<1>5. CASE book'[s] = book[s]
  BY <1>1, <1>2, <1>4, <1>5 DEF KeysAt
<1>6. ASSUME NEW o \in 1 .. arrived, o \notin book[s], book'[s] = book[s] \cup {o}
      PROVE  Key(o) \notin KeysAt(s) /\ KeysAt(s)' = KeysAt(s) \cup {Key(o)}
  <2>1. Key(o) \notin KeysAt(s)
    BY <1>3, <1>6 DEF KeysAt
  <2>2. KeysAt(s)' = KeysAt(s) \cup {Key(o)}
    BY <1>1, <1>2, <1>4, <1>6 DEF KeysAt
  <2> QED BY <2>1, <2>2
<1>7. ASSUME NEW o \in book[s], book'[s] = book[s] \ {o}
      PROVE  Key(o) \in KeysAt(s) /\ KeysAt(s)' = KeysAt(s) \ {Key(o)}
  <2>1. Key(o) \in KeysAt(s)
    BY DEF KeysAt
  <2>2. KeysAt(s)' = KeysAt(s) \ {Key(o)}
    BY <1>1, <1>2, <1>3, <1>4, <1>7 DEF KeysAt
  <2> QED BY <2>1, <2>2
<1> QED BY <1>1, <1>2, <1>5, <1>6, <1>7, BookMoves DEF SideMoves

LEMMA BidsStep ==
    ASSUME TypeInv, MomentInv, BookOffers, BookOffers', [Next]_vars
    PROVE  [Bids!Next]_<<KeysAt("BUY"), Offered("BUY")>>
<1>1. "BUY" \in OrderSide
  BY DEF OrderSide
<1>2. Offered("BUY")' = Bids!BestOf(KeysAt("BUY")')
  BY DEF BookOffers, Bids!BestOf
<1>3. CASE KeysAt("BUY")' = KeysAt("BUY")
  BY <1>2, <1>3 DEF BookOffers
<1>4. ASSUME NEW k \in Keys, k \notin KeysAt("BUY"), KeysAt("BUY")' = KeysAt("BUY") \cup {k}
      PROVE  Bids!Insert(k)
  BY <1>2, <1>4 DEF Bids!Insert
<1>5. ASSUME NEW k \in Keys, k \in KeysAt("BUY"), KeysAt("BUY")' = KeysAt("BUY") \ {k}
      PROVE  Bids!Remove(k)
  BY <1>2, <1>5 DEF Bids!Remove
<1> QED BY <1>1, <1>3, <1>4, <1>5, KeysStep DEF Bids!Next

LEMMA AsksStep ==
    ASSUME TypeInv, MomentInv, BookOffers, BookOffers', [Next]_vars
    PROVE  [Asks!Next]_<<KeysAt("SELL"), Offered("SELL")>>
<1>1. "SELL" \in OrderSide
  BY DEF OrderSide
<1>2. Offered("SELL")' = Asks!BestOf(KeysAt("SELL")')
  BY DEF BookOffers, Asks!BestOf
<1>3. CASE KeysAt("SELL")' = KeysAt("SELL")
  BY <1>2, <1>3 DEF BookOffers
<1>4. ASSUME NEW k \in Keys, k \notin KeysAt("SELL"), KeysAt("SELL")' = KeysAt("SELL") \cup {k}
      PROVE  Asks!Insert(k)
  BY <1>2, <1>4 DEF Asks!Insert
<1>5. ASSUME NEW k \in Keys, k \in KeysAt("SELL"), KeysAt("SELL")' = KeysAt("SELL") \ {k}
      PROVE  Asks!Remove(k)
  BY <1>2, <1>5 DEF Asks!Remove
<1> QED BY <1>1, <1>3, <1>4, <1>5, KeysStep DEF Asks!Next

\* match_order and cancel_order over the book, whatever ids the callers reuse and
\* however the wall clock jumps: each side sees only the inserts and removes that
\* OrderBookSide allows, and the order the engine meets next is the one it offers.
THEOREM BookUsedAsPromised == Spec => BookAsPromised
<1> DEFINE Inv == TypeInv /\ MomentInv
<1>1. Init => Inv
  BY TypeInit, MomentInit
<1>2. Inv /\ [Next]_vars => Inv'
  BY TypeStep, MomentStep
<1>3. Inv => BookOffers
  BY OffersPromised
<1>4. Init => Bids!Init /\ Asks!Init
  <2> SUFFICES ASSUME Init PROVE Bids!Init /\ Asks!Init
    OBVIOUS
  <2>1. book["BUY"] = {} /\ book["SELL"] = {}
    BY DEF Init, OrderSide
  <2> QED BY <2>1 DEF Bids!Init, Asks!Init, KeysAt, Offered
<1>5. Inv /\ BookOffers /\ BookOffers' /\ [Next]_vars
        => [Bids!Next]_<<KeysAt("BUY"), Offered("BUY")>>
  BY BidsStep
<1>6. Inv /\ BookOffers /\ BookOffers' /\ [Next]_vars
        => [Asks!Next]_<<KeysAt("SELL"), Offered("SELL")>>
  BY AsksStep
<1> QED BY <1>1, <1>2, <1>3, <1>4, <1>5, <1>6, PTL DEF Spec, BookAsPromised, Bids!Spec, Asks!Spec
=============================================================================
