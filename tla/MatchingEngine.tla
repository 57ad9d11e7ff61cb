--------------------------- MODULE MatchingEngine ---------------------------
(***************************************************************************)
(* MatchingEngine (src/core/matching_engine.cpp): the price-time matching  *)
(* engine of one instrument, over an order book whose two sides are sets   *)
(* of orders in price-time order.  OrderBookTree shows how far the red-    *)
(* black tree of src/core/orderbook.cpp keeps that promise.                *)
(*                                                                         *)
(* An Order object is a number: the n-th object handed to process_order.   *)
(* Its order_id is a field, because callers choose it.  process_order and  *)
(* cancel_all_orders run a loop; one turn of the loop is one step here, as *)
(* the callbacks see the engine between the turns.                         *)
(***************************************************************************)
EXTENDS Orders, FiniteSets, Functions

CONSTANTS
    Users, Instruments,
    InstrumentId,    \* the instrument this engine was constructed for
    Types,           \* the order types the callers use
    Prices,          \* the prices and quantities the callers send,
    Quantities,      \* unchecked: zero and negative ones are rejected
    MaxOrders,       \* bound: number of process_order calls
    MaxIterations,   \* max_iterations of match_order (10000 in the code)
    ClockTicks,      \* how far the wall clock moves between two orders
    ReuseIds         \* may a caller send an order_id it has used before?

ASSUME EngineAssumption ==
    /\ 0 \notin Users
    /\ InstrumentId \in Instruments
    /\ Types \subseteq OrderType
    /\ Prices \subseteq Int
    /\ Quantities \subseteq Int
    /\ MaxOrders \in Nat
    /\ MaxIterations \in Nat
    /\ ClockTicks \subseteq Int
    /\ ReuseIds \in BOOLEAN

VARIABLES
    order,           \* the Order objects, by number
    arrived,         \* how many have been handed to process_order
    freed,           \* the objects whose owner has destroyed them
    book,            \* orderbook_: the objects in the tree of each side
    price_levels_,   \* total_quantity by side and price, 0 when no level exists
    orders_,         \* order_id -> the object owned under it, 0 when none
    user_orders_,    \* user -> the order_ids indexed for it
    trade_sequence_,
    total_trades_,
    total_volume_,
    trade,           \* the Trade last given to trade_callback_
    clock,           \* the wall clock get_current_timestamp reads
    pc,              \* "idle", "match" and "done" (in process_order), "cancel"
    taker,           \* the object process_order is working on
    iteration_count,
    canceller,       \* the user of the running cancel_all_orders, 0 when none
    order_ids        \* its copy of the user's ids, those not yet visited

bookVars == <<freed, book, price_levels_, orders_, user_orders_>>
statVars == <<trade_sequence_, total_trades_, total_volume_, trade>>
cancelVars == <<canceller, order_ids>>
vars == <<order, arrived, bookVars, statVars, clock, pc, taker,
          iteration_count, cancelVars>>

Objects == 1 .. MaxOrders
OrderIds == 1 .. MaxOrders

Order == [order_id: 0 .. MaxOrders, user_id: Users \cup {0}, instrument_id: Instruments,
          side: OrderSide, type: OrderType, status: OrderStatus,
          price: Int, quantity: Int, filled: Int, remaining: Int,
          timestamp: Int, sequence_id: Nat]

\* Filler for the objects that do not exist yet.
Blank == [order_id |-> 0, user_id |-> 0, instrument_id |-> InstrumentId,
          side |-> "BUY", type |-> "LIMIT", status |-> "PENDING", price |-> 0,
          quantity |-> 0, filled |-> 0, remaining |-> 0,
          timestamp |-> 0, sequence_id |-> 0]

Trade == [buy: 0 .. MaxOrders, sell: 0 .. MaxOrders, price: Int,
          quantity: Int, sequence_id: Nat, is_taker_buy: BOOLEAN]

NoTrade == [buy |-> 0, sell |-> 0, price |-> 0, quantity |-> 0,
            sequence_id |-> 0, is_taker_buy |-> FALSE]

Init ==
    /\ order = [o \in Objects |-> Blank]
    /\ arrived = 0
    /\ freed = {}
    /\ book = [s \in OrderSide |-> {}]
    /\ price_levels_ = [s \in OrderSide |-> [p \in Prices |-> 0]]
    /\ orders_ = [i \in OrderIds |-> 0]
    /\ user_orders_ = [u \in Users |-> {}]
    /\ trade_sequence_ = 0
    /\ total_trades_ = 0
    /\ total_volume_ = 0
    /\ trade = NoTrade
    /\ clock = 0
    /\ pc = "idle"
    /\ taker = 0
    /\ iteration_count = 0
    /\ canceller = 0
    /\ order_ids = {}
-----------------------------------------------------------------------------
(* The book of one side.  Equal keys go right in the tree, so the object   *)
(* inserted first stays left.                                              *)

Ahead(a, b) == \/ KeyBefore(order[a], order[b])
               \/ ~KeyBefore(order[b], order[a]) /\ a < b

\* best_order: the leftmost object of the tree.
IsBest(side, o) == /\ o \in book[side]
                   /\ \A p \in book[side] \ {o} : Ahead(o, p)

\* A tree that still links a destroyed order has no defined behaviour.
Defined == \A s \in OrderSide : book[s] \cap freed = {}

\* insert_order: tree, order_map_ and price level.
InsertOrderSlip(o, new) ==
    /\ book' = [book EXCEPT ![new.side] = @ \cup {o}]
    /\ price_levels_' =
         [price_levels_ EXCEPT ![new.side][new.price] = @ - new.remaining]
InsertOrder(o, new) ==
    /\ book' = [book EXCEPT ![new.side] = @ \cup {o}]
    /\ price_levels_' =
         [price_levels_ EXCEPT ![new.side][new.price] = @ + new.remaining]

\* remove_order: the same, backwards, for an object with rem still to trade.
RemoveOrderKeepsTreeSlip(o, rem) ==
    /\ book' = book
    /\ price_levels_' = [price_levels_ EXCEPT
         ![order[o].side][order[o].price] = ClampedMinus(@, rem)]
RemoveOrderWholeSlip(o, rem) ==
    /\ book' = [book EXCEPT ![order[o].side] = @ \ {o}]
    /\ price_levels_' = [price_levels_ EXCEPT
         ![order[o].side][order[o].price] = ClampedMinus(@, order[o].quantity)]
RemoveLevelSlip(o, rem) ==
    /\ book' = [book EXCEPT ![order[o].side] = {p \in @ : order[p].price # order[o].price}]
    /\ price_levels_' = [price_levels_ EXCEPT ![order[o].side][order[o].price] = 0]
RemoveOrder(o, rem) ==
    /\ book' = [book EXCEPT ![order[o].side] = @ \ {o}]
    /\ price_levels_' = [price_levels_ EXCEPT
         ![order[o].side][order[o].price] = ClampedMinus(@, rem)]

\* The order's id leaves its user's vector.
Purge(o) ==
    user_orders_' = [user_orders_ EXCEPT ![order[o].user_id] = @ \ {order[o].order_id}]

(* remove_order_from_book.  Erasing the owning entry of orders_ destroys    *)
(* the object whose user_id and order_id are then read for the purge of     *)
(* user_orders_: the purge may miss.                                        *)
RemoveOrderFromBook(o, rem) ==
    LET owned == orders_[order[o].order_id]
    IN  /\ RemoveOrder(o, rem)
        /\ orders_' = [orders_ EXCEPT ![order[o].order_id] = 0]
        /\ freed' = freed \cup ({owned} \ {0})
        /\ \/ Purge(o)
           \/ owned = o /\ UNCHANGED user_orders_
-----------------------------------------------------------------------------
(* process_order *)

Valid(o) == /\ o.instrument_id = InstrumentId
            /\ o.quantity > 0
            /\ o.type = "LIMIT" => o.price > 0

NewOrderId == IF ReuseIds THEN 1 .. arrived + 1 ELSE {arrived + 1}

\* validate_order, then either REJECTED or on to match_order with a sequence.
Accept(n, new) ==
    \/ /\ ~Valid(new)
       /\ order' = [order EXCEPT ![n] = [new EXCEPT !.status = "REJECTED"]]
       /\ UNCHANGED <<pc, taker, trade_sequence_>>
    \/ /\ Valid(new)
       /\ trade_sequence_' = trade_sequence_ + 1
       /\ order' = [order EXCEPT ![n] = [new EXCEPT !.sequence_id = trade_sequence_ + 1]]
       /\ pc' = "match"
       /\ taker' = n

\* A caller builds an Order and hands it to process_order.
ProcessOrder ==
    /\ pc = "idle" /\ Defined /\ arrived < MaxOrders
    /\ \E id \in NewOrderId, u \in Users, i \in Instruments, s \in OrderSide,
          ty \in Types, p \in Prices, q \in Quantities, d \in ClockTicks :
         /\ Accept(arrived + 1,
              [order_id |-> id, user_id |-> u, instrument_id |-> i, side |-> s,
               type |-> ty, status |-> "PENDING", price |-> p, quantity |-> q,
               filled |-> 0, remaining |-> q, timestamp |-> clock + d,
               sequence_id |-> 0])
         /\ clock' = clock + d
    /\ arrived' = arrived + 1
    /\ UNCHANGED <<bookVars, total_trades_, total_volume_, trade,
                   iteration_count, cancelVars>>

\* The loop of match_order goes on and r is the resting order it meets.
Meets(r) ==
    /\ pc = "match"
    /\ order[taker].remaining > 0
    /\ iteration_count < MaxIterations
    /\ IsBest(Opposite(order[taker].side), r)
    /\ CanMatch(order[taker], order[r])

MatchPriceSlip(r) == order[taker].price
MatchPrice(r) == order[r].price

TakerBuys(buy, sell) == order[buy].sequence_id > order[sell].sequence_id

\* create_trade
NewTrade(r, qty) ==
    LET buy == IF order[taker].side = "BUY" THEN taker ELSE r
        sell == IF order[taker].side = "BUY" THEN r ELSE taker
    IN  [buy |-> buy, sell |-> sell, price |-> MatchPrice(r), quantity |-> qty,
         sequence_id |-> trade_sequence_ + 1, is_taker_buy |-> TakerBuys(buy, sell)]

\* Object o with qty more of it filled, in status st.
Fill(o, qty, st) ==
    [order[o] EXCEPT !.filled = @ + qty, !.remaining = @ - qty, !.status = st]

\* execute_trade; the taker's status becomes st, the maker's stays.
ExecuteTrade(r, qty, st) ==
    order' = [order EXCEPT ![taker] = Fill(taker, qty, st),
                           ![r] = Fill(r, qty, order[r].status)]

\* One turn of the loop: execute_trade, create_trade, the removal of a filled
\* resting order, and the break after the first trade of an IOC or FOK order.
Match(r) ==
    LET t == order[taker]
        qty == MinOf(t.remaining, order[r].remaining)
        oneShot == t.type \in {"IOC", "FOK"}
        rem == order[r].remaining - qty
        emptied == rem = 0 /\ book[Opposite(t.side)] = {r}
    IN  /\ Defined /\ Meets(r)
        /\ ExecuteTrade(r, qty, IF oneShot /\ t.remaining # qty /\ ~emptied
                                THEN "CANCELLED" ELSE t.status)
        /\ trade' = NewTrade(r, qty)
        /\ trade_sequence_' = trade_sequence_ + 1
        /\ total_trades_' = total_trades_ + 1
        /\ total_volume_' = total_volume_ + qty
        /\ iteration_count' = iteration_count + 1
        /\ pc' = IF oneShot THEN "done" ELSE "match"
        /\ \/ rem = 0 /\ RemoveOrderFromBook(r, rem)
           \/ rem # 0 /\ UNCHANGED bookVars
        /\ UNCHANGED <<arrived, clock, taker, cancelVars>>

\* What match_order leaves in the taker's status.
FinalStatus(t) == CASE t.remaining = 0 -> "FILLED"
                    [] t.remaining # 0 /\ t.filled > 0 -> "PARTIAL_FILLED"
                    [] OTHER -> t.status

RestsSlip(o) == o.status = "PENDING" /\ o.type = "LIMIT" /\ o.remaining > 0
Rests(o) == IsActive(o) /\ o.type = "LIMIT" /\ o.remaining > 0

\* find_order on the order's own side.
InTree(o) == \E p \in book[o.side] : order[p].order_id = o.order_id

\* After the loop: final status, then a limit order's remainder goes to rest,
\* owned by the engine unless its id is taken.
FinishOrder ==
    LET new == [order[taker] EXCEPT !.status = FinalStatus(order[taker])]
        id == new.order_id
    IN  /\ pc \in {"match", "done"} /\ Defined
        /\ \A r \in Objects : ~Meets(r)
        /\ order' = [order EXCEPT ![taker] = new]
        /\ \/ /\ Rests(new) /\ orders_[id] = 0
              /\ InsertOrder(taker, new)
              /\ orders_' = [orders_ EXCEPT ![id] = taker]
              /\ user_orders_' = [user_orders_ EXCEPT ![new.user_id] = @ \cup {id}]
           \/ /\ Rests(new) /\ orders_[id] # 0 /\ ~InTree(new)
              /\ InsertOrder(taker, new)
              /\ UNCHANGED <<orders_, user_orders_>>
           \/ /\ ~Rests(new) \/ (orders_[id] # 0 /\ InTree(new))
              /\ UNCHANGED <<book, price_levels_, orders_, user_orders_>>
        /\ pc' = "idle"
        /\ taker' = 0
        /\ iteration_count' = 0
        /\ UNCHANGED <<arrived, freed, statVars, clock, cancelVars>>
-----------------------------------------------------------------------------
(* cancel_order and cancel_all_orders.  A cancellation that returns false  *)
(* changes nothing.                                                        *)

CancellableSlip(id, u) == /\ orders_[id] # 0
                          /\ order[orders_[id]].user_id = u
                          /\ order[orders_[id]].status = "PENDING"
Cancellable(id, u) == /\ orders_[id] # 0
                      /\ order[orders_[id]].user_id = u
                      /\ IsActive(order[orders_[id]])

Cancel(id) ==
    /\ order' = [order EXCEPT ![orders_[id]].status = "CANCELLED"]
    /\ RemoveOrderFromBook(orders_[id], order[orders_[id]].remaining)

CancelOrder(id, u) ==
    /\ pc = "idle" /\ Defined /\ Cancellable(id, u)
    /\ Cancel(id)
    /\ UNCHANGED <<arrived, statVars, clock, pc, taker, iteration_count, cancelVars>>

CancelAllOrders(u) ==
    /\ pc = "idle" /\ Defined /\ user_orders_[u] # {}
    /\ pc' = "cancel"
    /\ canceller' = u
    /\ order_ids' = user_orders_[u]
    /\ UNCHANGED <<order, arrived, bookVars, statVars, clock, taker, iteration_count>>

\* The loop over the copied ids advances; it advances also past an id that
\* could not be cancelled.
Advance(id) ==
    /\ order_ids' = order_ids \ {id}
    /\ pc' = IF order_ids = {id} THEN "idle" ELSE "cancel"
    /\ canceller' = IF order_ids = {id} THEN 0 ELSE canceller

\* One turn of that loop; the order of the vector is abstracted.
CancelNext(id) ==
    /\ pc = "cancel" /\ Defined /\ id \in order_ids
    /\ \/ Cancellable(id, canceller) /\ Cancel(id)
       \/ ~Cancellable(id, canceller) /\ UNCHANGED <<order, bookVars>>
    /\ Advance(id)
    /\ UNCHANGED <<arrived, statVars, clock, taker, iteration_count>>

Next ==
    \/ ProcessOrder
    \/ \E r \in Objects : Match(r)
    \/ FinishOrder
    \/ \E id \in OrderIds, u \in Users : CancelOrder(id, u)
    \/ \E u \in Users : CancelAllOrders(u)
    \/ \E id \in OrderIds : CancelNext(id)

Spec == Init /\ [][Next]_vars
-----------------------------------------------------------------------------
(* What the engine promises. *)

\* Type correctness of the engine's state.
TypeOK ==
    /\ order \in [Objects -> Order]
    /\ arrived \in 0 .. MaxOrders
    /\ freed \subseteq Objects
    /\ book \in [OrderSide -> SUBSET Objects]
    /\ price_levels_ \in [OrderSide -> [Prices -> Nat]]
    /\ orders_ \in [OrderIds -> 0 .. MaxOrders]
    /\ user_orders_ \in [Users -> SUBSET OrderIds]
    /\ trade_sequence_ \in Nat /\ total_trades_ \in Nat /\ total_volume_ \in Nat
    /\ trade \in Trade
    /\ clock \in Int
    /\ pc \in {"idle", "match", "done", "cancel"}
    /\ taker \in 0 .. MaxOrders
    /\ iteration_count \in Nat
    /\ canceller \in Users \cup {0}
    /\ order_ids \subseteq OrderIds

Accepted(o) == o \in 1 .. arrived /\ order[o].status # "REJECTED"
Resting(o) == o \in book["BUY"] \cup book["SELL"]

\* process_order/match_order: no quantity is made or lost by matching, however
\* many trades an order takes part in as taker and as maker.
QuantityConserved ==
    \A o \in Objects : Accepted(o) =>
        /\ order[o].filled + order[o].remaining = order[o].quantity
        /\ order[o].filled >= 0 /\ order[o].remaining >= 0

Filled == [o \in Objects |-> order[o].filled]
FilledOn(side) == SumFunctionOnSet(Filled, {o \in 1 .. arrived : order[o].side = side})

\* execute_trade and total_volume_: what buyers got is what sellers gave, and
\* the statistics say so.
VolumeConserved == /\ FilledOn("BUY") = total_volume_
                   /\ FilledOn("SELL") = total_volume_

\* matching_engine.h "Order storage (owned by matching engine)": what rests in
\* the book is exactly what orders_ owns, and it can still trade or be cancelled.
BookOwned ==
    /\ \A id \in OrderIds : orders_[id] # 0 =>
          Resting(orders_[id]) /\ order[orders_[id]].order_id = id
    /\ \A s \in OrderSide : \A o \in book[s] :
          /\ orders_[order[o].order_id] = o /\ order[o].side = s
          /\ order[o].type = "LIMIT" /\ IsActive(order[o])
          /\ order[o].remaining > 0

\* The tree never links an order that has been destroyed: remove_order_from_book
\* erases the owning entry by order_id, whichever object rests under that id.
NoDanglingOrder == Defined

\* After match_order a limit order rests only if nothing on the other side can
\* trade with it: bids and asks never overlap, not even between two trades.
BookUncrossed ==
    \A b \in book["BUY"], a \in book["SELL"] : order[b].price < order[a].price

\* get_match_price: a trade is never worse for a side than the limit it set,
\* whichever of the two orders was resting.
TradeWithinLimits ==
    trade # NoTrade =>
        /\ order[trade.buy].type # "MARKET" => trade.price <= order[trade.buy].price
        /\ order[trade.sell].type # "MARKET" => trade.price >= order[trade.sell].price

\* create_trade infers the taker from the sequence numbers: the flag names the
\* order being processed, though orders and trades draw from one counter.
TakerFlagRight ==
    pc = "match" /\ iteration_count > 0 =>
        (trade.is_taker_buy <=> trade.buy = taker)

\* Between calls every accepted limit order is filled, cancelled or in the book.
NoLimitOrderLost ==
    pc = "idle" => \A o \in Objects :
        Accepted(o) /\ order[o].type = "LIMIT" =>
            \/ Resting(o)
            \/ order[o].remaining = 0
            \/ order[o].status = "CANCELLED"

\* cancel_all_orders finds orders through user_orders_: every order at rest is
\* indexed under its user, though the purge in remove_order_from_book may miss.
UserIndexCoversBook ==
    \A o \in Objects : Resting(o) =>
        order[o].order_id \in user_orders_[order[o].user_id]

\* Whatever the calls before: what the engine owns, what the tree links, what the
\* user's index names and what was accepted and has not come to an end agree.
OrdersAccountedFor ==
    BookOwned /\ NoDanglingOrder /\ NoLimitOrderLost /\ UserIndexCoversBook

\* A trade conserves the quantities of its orders, keeps to both their limits and
\* names the one that was being processed as the taker.
TradesSound == QuantityConserved /\ TradeWithinLimits /\ TakerFlagRight

RestingAt(side, p) == {o \in book[side] : order[o].price = p}
Remaining == [o \in Objects |-> order[o].remaining]
RestingQuantity(side, p) == SumFunctionOnSet(Remaining, RestingAt(side, p))

\* best_level and get_depth: a level is never dropped, and never shows less than
\* what rests there, whatever trades and cancellations its orders went through.
LevelCoversOrders ==
    \A s \in OrderSide, p \in Prices : price_levels_[s][p] >= RestingQuantity(s, p)

\* Two totals kept beside the orders: the volume is what both sides have filled, and
\* no level shows less than what rests there.
TotalsCover == VolumeConserved /\ LevelCoversOrders

\* When cancel_all_orders returns, nothing of that user rests.
CancelAllComplete ==
    [][pc = "cancel" /\ pc' = "idle" =>
         \A o \in Objects : (Resting(o))' => order'[o].user_id # canceller]_vars

\* An order that is filled, cancelled or rejected and no longer processed never
\* changes again: it neither trades nor changes its status.
EndIsFinal ==
    [][\A o \in 1 .. arrived :
         o # taker /\ (order[o].remaining = 0 \/ ~IsActive(order[o]))
           => order'[o] = order[o]]_vars

\* An end is final for the engine as for its users: an order that has ended changes
\* no more, and a user who cancelled everything has nothing left to trade.
EndsRespected == EndIsFinal /\ CancelAllComplete

\* README "Price-time priority": a resting order trades only when no order that
\* rests on its side has a better price, or the same price and an earlier
\* sequence number (the tree sorts by the wall clock, not by the sequence).
PriceTimePriority ==
    [][\A s \in OrderSide : \A o, p \in book[s] :
         order'[o].filled # order[o].filled =>
            /\ ~PriceBetter(s, order[p].price, order[o].price)
            /\ order[p].price = order[o].price =>
                 order[o].sequence_id <= order[p].sequence_id]_vars
-----------------------------------------------------------------------------
(* The book of the engine as the sides of OrderBookSide, which OrderBookTree *)
(* implements.  A side sees what an order is sorted by.                      *)

\* What the wall clock can show at the n-th order.
Readings(n) == {SumFunctionOnSet(f, 1 .. n) : f \in [1 .. n -> ClockTicks]}
Moments == UNION {Readings(n) : n \in 0 .. MaxOrders}

Keys == [price : Prices, timestamp : Moments, number : Objects]
Key(o) == [price |-> order[o].price, timestamp |-> order[o].timestamp, number |-> o]
NoKey == [number |-> 0]

KeysAt(side) == {Key(o) : o \in book[side]}
Offered(side) == IF book[side] = {} THEN NoKey ELSE Key(CHOOSE o \in book[side] : IsBest(side, o))

\* Price, then time, then arrival.
First(side, a, b) ==
    \/ PriceBetter(side, a.price, b.price)
    \/ /\ a.price = b.price
       /\ \/ a.timestamp < b.timestamp
          \/ a.timestamp = b.timestamp /\ a.number < b.number

FirstBid(a, b) == First("BUY", a, b)
FirstAsk(a, b) == First("SELL", a, b)

Bids == INSTANCE OrderBookSide WITH
    OrderSet <- Keys, Ahead <- FirstBid, NoOrder <- NoKey,
    resting <- KeysAt("BUY"), best <- Offered("BUY")

Asks == INSTANCE OrderBookSide WITH
    OrderSet <- Keys, Ahead <- FirstAsk, NoOrder <- NoKey,
    resting <- KeysAt("SELL"), best <- Offered("SELL")

\* match_order, cancel_order: the engine asks of each side of its book no more than
\* OrderBookSide promises.  One order at a time comes or goes, it was away or there,
\* its key does not change while it rests, and the side matched against next is the
\* first in price, time and arrival, however fills and cancellations interleave.
BookAsPromised == Bids!Spec /\ Asks!Spec
=============================================================================
