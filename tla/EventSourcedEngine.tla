------------------------- MODULE EventSourcedEngine -------------------------
(***************************************************************************)
(* MatchingEngineEventSourcing over its EventStore                         *)
(* (src/core/matching_engine_event_sourcing.cpp, event_sourcing.cpp): an   *)
(* engine that writes every order, match and trade to an append-only log,  *)
(* from which its state is to be rebuilt.                                  *)
(*                                                                         *)
(* Deterministic mode, which every program of the repository sets.  An     *)
(* Order object is a number and its order_id is that number.  The threads  *)
(* that call process_order_es are Handlers; one turn of the matching loop  *)
(* is one step.  Nothing in the engine keeps two threads apart, so with    *)
(* more than one handler the steps are only some of those the program has. *)
(* The store's two in-memory indexes are left out: queries scan the file.  *)
(***************************************************************************)
EXTENDS Orders, FiniteSets, Functions, Sequences

CONSTANTS
    Handlers,        \* threads that hand in orders
    Types,           \* the order types the callers use
    Prices,          \* the prices and quantities the callers send,
    Quantities,      \* unchecked: zero and negative ones are rejected
    MaxOrders,       \* bound: number of process_order_es calls
    MaxIterations    \* max_iterations of the matching loop (10000 in the code)

ASSUME EventEngineAssumption ==
    /\ Types \subseteq OrderType
    /\ Prices \subseteq Int
    /\ Quantities \subseteq Int
    /\ MaxOrders \in Nat
    /\ MaxIterations \in Nat

VARIABLES
    order,             \* the Order objects, by number
    arrived,           \* how many have been handed to process_order_es
    freed,             \* the objects their callers have destroyed
    book,              \* orderbook_: the objects in the tree of each side
    log,               \* the events in the file
    latest_sequence_,
    total_trades_,
    total_volume_,
    pc,                \* per handler: "idle", "placing", "match", "trade", "done", "down"
    taker,             \* per handler: the object it is working on
    trade,             \* and the trade of its current turn, NoTrade between them
    iteration_count,
    answer             \* what the last cancel, replay or restart came to

storeVars == <<log, latest_sequence_>>
statVars == <<total_trades_, total_volume_>>
handlerVars == <<pc, taker, trade, iteration_count>>
vars == <<order, arrived, freed, book, storeVars, statVars, handlerVars, answer>>

Objects == 1 .. MaxOrders

Order == [side: OrderSide, type: OrderType, status: OrderStatus, price: Int,
          quantity: Int, filled: Int, remaining: Int,
          timestamp: Nat, sequence_id: Nat]

\* Filler for the objects that do not exist yet.
Blank == [side |-> "BUY", type |-> "LIMIT", status |-> "PENDING", price |-> 0,
          quantity |-> 0, filled |-> 0, remaining |-> 0,
          timestamp |-> 0, sequence_id |-> 0]

Trade == [buy: Nat, sell: Nat, price: Int, quantity: Int, sequence_id: Nat,
          is_taker_buy: BOOLEAN]

NoTrade == [buy |-> 0, sell |-> 0, price |-> 0, quantity |-> 0, sequence_id |-> 0,
            is_taker_buy |-> FALSE]

Event ==
    [type: {"ORDER_PLACED"}, sequence_id: Nat, order_id: Nat, side: OrderSide,
       order_type: OrderType, price: Int, quantity: Int]
    \cup [type: {"ORDER_MATCHED"}, sequence_id: Nat, taker: Nat, maker: Nat,
            price: Int, quantity: Int]
    \cup [type: {"TRADE_EXECUTED"}, sequence_id: Nat, trade: Trade]
    \cup [type: {"ORDER_REJECTED"}, sequence_id: Nat, order_id: Nat]

Init ==
    /\ order = [o \in Objects |-> Blank]
    /\ arrived = 0
    /\ freed = {}
    /\ book = [s \in OrderSide |-> {}]
    /\ log = <<>>
    /\ latest_sequence_ = 0
    /\ total_trades_ = 0
    /\ total_volume_ = 0
    /\ pc = [h \in Handlers |-> "idle"]
    /\ taker = [h \in Handlers |-> 0]
    /\ trade = [h \in Handlers |-> NoTrade]
    /\ iteration_count = [h \in Handlers |-> 0]
    /\ answer = "none"
-----------------------------------------------------------------------------
(* The event store.  The publisher leaves the sequence of an event 0, "not *)
(* set"; append_event numbers it, under the lock of the log.               *)

OrderPlaced(n) ==
    [type |-> "ORDER_PLACED", sequence_id |-> 0, order_id |-> n,
     side |-> order[n].side, order_type |-> order[n].type,
     price |-> order[n].price, quantity |-> order[n].quantity]

OrderMatched(t, m, price, qty) ==
    [type |-> "ORDER_MATCHED", sequence_id |-> 0, taker |-> t, maker |-> m,
     price |-> price, quantity |-> qty]

TradeExecuted(tr) == [type |-> "TRADE_EXECUTED", sequence_id |-> 0, trade |-> tr]

OrderRejected(n) == [type |-> "ORDER_REJECTED", sequence_id |-> 0, order_id |-> n]

Numbered(e, n) == [e EXCEPT !.sequence_id = n]

AppendEvent(e) ==
    /\ latest_sequence_' = latest_sequence_ + 1
    /\ log' = Append(log, Numbered(e, latest_sequence_ + 1))

\* The type of an event is written as a character and read as a number: reading
\* any event of the log throws.
Readable == log = <<>>

\* sequence_to_timestamp, from a base of 0.
SequenceToTimestamp(seq) == seq
-----------------------------------------------------------------------------
(* process_order_es *)

Valid(o) == o.price > 0 /\ o.quantity > 0

\* A tree that still links a destroyed order has no defined behaviour.
Defined == \A s \in OrderSide : book[s] \cap freed = {}

\* The order is either rejected, with an event, or takes the next sequence from
\* the store, which nobody reserves for it.
Accept(h, n, new) ==
    \/ /\ ~Valid(new)
       /\ order' = [order EXCEPT ![n] = [new EXCEPT !.status = "REJECTED"]]
       /\ AppendEvent(OrderRejected(n))
       /\ UNCHANGED <<pc, taker>>
    \/ /\ Valid(new)
       /\ LET seq == latest_sequence_ + 1
          IN  order' = [order EXCEPT ![n] =
                [new EXCEPT !.sequence_id = seq, !.timestamp = SequenceToTimestamp(seq)]]
       /\ pc' = [pc EXCEPT ![h] = "placing"]
       /\ taker' = [taker EXCEPT ![h] = n]
       /\ UNCHANGED storeVars

ProcessOrderEs(h) ==
    /\ pc[h] = "idle" /\ Defined /\ arrived < MaxOrders
    /\ \E s \in OrderSide, ty \in Types, p \in Prices, q \in Quantities :
         Accept(h, arrived + 1,
           [side |-> s, type |-> ty, status |-> "PENDING", price |-> p, quantity |-> q,
            filled |-> 0, remaining |-> q, timestamp |-> 0, sequence_id |-> 0])
    /\ arrived' = arrived + 1
    /\ answer' = "none"
    /\ UNCHANGED <<freed, book, statVars, trade, iteration_count>>

\* emit_order_placed_event
PlaceOrder(h) ==
    /\ pc[h] = "placing"
    /\ AppendEvent(OrderPlaced(taker[h]))
    /\ pc' = [pc EXCEPT ![h] = "match"]
    /\ UNCHANGED <<order, arrived, freed, book, statVars, taker, trade,
                   iteration_count, answer>>
-----------------------------------------------------------------------------
(* match_order_deterministic *)

\* best_order: no order of the side comes before it in the tree.  With one
\* handler no two orders have equal keys.
IsBestSlip(side, o) ==
    o \in book[side] /\ \A p \in book[side] : ~PriceBetter(side, order[p].price, order[o].price)
IsBest(side, o) ==
    o \in book[side] /\ \A p \in book[side] : ~KeyBefore(order[p], order[o])

\* DeterministicCalculator::can_match: by price alone, also for a MARKET order.
CanMatchDeterministic(t, m) ==
    IF t.side = "BUY" THEN t.price >= m.price ELSE t.price <= m.price

\* The loop goes on and r is the resting order it meets.
Meets(h, r) ==
    /\ pc[h] = "match"
    /\ order[taker[h]].remaining > 0
    /\ iteration_count[h] < MaxIterations
    /\ IsBest(Opposite(order[taker[h]].side), r)
    /\ CanMatchDeterministic(order[taker[h]], order[r])

\* The sequence of a trade is read from the store before its events are appended.
TradeSequence == latest_sequence_ + 1

NewTrade(t, r, qty) ==
    LET buys == order[t].side = "BUY"
    IN  [buy |-> IF buys THEN t ELSE r, sell |-> IF buys THEN r ELSE t,
         price |-> order[r].price, quantity |-> qty,
         sequence_id |-> TradeSequence, is_taker_buy |-> buys]

\* Object o with qty more of it filled.
Fill(o, qty) == [order[o] EXCEPT !.filled = @ + qty, !.remaining = @ - qty]

\* First half of a turn of the loop: both orders are filled, the trade is made up
\* and the match is logged.
Match(h, r) ==
    LET t == taker[h]
        qty == MinOf(order[t].remaining, order[r].remaining)
    IN  /\ Defined /\ Meets(h, r)
        /\ order' = [order EXCEPT ![t] = Fill(t, qty), ![r] = Fill(r, qty)]
        /\ trade' = [trade EXCEPT ![h] = NewTrade(t, r, qty)]
        /\ AppendEvent(OrderMatched(t, r, order[r].price, qty))
        /\ iteration_count' = [iteration_count EXCEPT ![h] = @ + 1]
        /\ pc' = [pc EXCEPT ![h] = "trade"]
        /\ UNCHANGED <<arrived, freed, book, statVars, taker, answer>>

Maker(h) == IF trade[h].is_taker_buy THEN trade[h].sell ELSE trade[h].buy

\* Second half: the trade is logged and counted, a filled resting order leaves the
\* book.  The status the loop sets on an IOC or FOK order is overwritten at the end
\* before anyone reads it.
ReportTrade(h) ==
    LET r == Maker(h)
    IN  /\ pc[h] = "trade" /\ Defined
        /\ AppendEvent(TradeExecuted(trade[h]))
        /\ total_trades_' = total_trades_ + 1
        /\ total_volume_' = total_volume_ + trade[h].quantity
        /\ book' = IF order[r].remaining = 0
                   THEN [book EXCEPT ![order[r].side] = @ \ {r}] ELSE book
        /\ trade' = [trade EXCEPT ![h] = NoTrade]
        /\ pc' = [pc EXCEPT ![h] =
             IF order[taker[h]].type \in {"IOC", "FOK"} THEN "done" ELSE "match"]
        /\ UNCHANGED <<order, arrived, freed, taker, iteration_count, answer>>

FinalStatus(t) == CASE t.remaining = 0 -> "FILLED"
                    [] t.remaining # 0 /\ t.filled > 0 -> "PARTIAL_FILLED"
                    [] OTHER -> t.status

RestsSlip(o) == o.status = "PENDING" /\ o.type = "LIMIT" /\ o.remaining > 0
Rests(o) == IsActive(o) /\ o.type = "LIMIT" /\ o.remaining > 0

\* After the loop: final status, then a limit order's remainder goes to rest.
\* Nobody takes ownership of it: orders_ is not touched.
FinishOrder(h) ==
    LET t == taker[h]
        new == [order[t] EXCEPT !.status = FinalStatus(order[t])]
    IN  /\ pc[h] \in {"match", "done"} /\ Defined
        /\ \A r \in Objects : ~Meets(h, r)
        /\ order' = [order EXCEPT ![t] = new]
        /\ book' = IF Rests(new) THEN [book EXCEPT ![new.side] = @ \cup {t}] ELSE book
        /\ pc' = [pc EXCEPT ![h] = "idle"]
        /\ taker' = [taker EXCEPT ![h] = 0]
        /\ iteration_count' = [iteration_count EXCEPT ![h] = 0]
        /\ UNCHANGED <<arrived, freed, storeVars, statVars, trade, answer>>
-----------------------------------------------------------------------------
(* The other calls, and the life of the process. *)

\* cancel_order_es looks in orders_, which process_order_es never fills.
CancelOrderEs(h) ==
    /\ pc[h] = "idle"
    /\ answer' = "refused"
    /\ UNCHANGED <<order, arrived, freed, book, storeVars, statVars, handlerVars>>

\* replay_events over the whole log.
ReplayEvents(h) ==
    /\ pc[h] = "idle"
    /\ answer' = IF Readable THEN "replayed" ELSE "threw"
    /\ UNCHANGED <<order, arrived, freed, book, storeVars, statVars, handlerVars>>

\* Some callers keep their orders, some held them on the stack or in a unique_ptr
\* that goes out of scope once process_order_es has returned.
DestroyOrder(o) ==
    /\ o \in 1 .. arrived \ freed
    /\ \A h \in Handlers : taker[h] # o
    /\ freed' = freed \cup {o}
    /\ UNCHANGED <<order, arrived, book, storeVars, statVars, handlerVars, answer>>

\* The process dies between two steps with its engine and its callers' orders, a
\* new one calls initialize on the log it left: an exception out of initialize
\* leaves no engine.
Restart ==
    /\ order' = [o \in Objects |-> Blank]
    /\ arrived' = 0
    /\ freed' = {}
    /\ book' = [s \in OrderSide |-> {}]
    /\ latest_sequence_' = 0
    /\ total_trades_' = 0
    /\ total_volume_' = 0
    /\ pc' = [h \in Handlers |-> IF Readable THEN "idle" ELSE "down"]
    /\ taker' = [h \in Handlers |-> 0]
    /\ trade' = [h \in Handlers |-> NoTrade]
    /\ iteration_count' = [h \in Handlers |-> 0]
    /\ answer' = IF Readable THEN "started" ELSE "threw"
    /\ UNCHANGED log

Next ==
    \/ \E h \in Handlers :
         \/ ProcessOrderEs(h)
         \/ PlaceOrder(h)
         \/ \E r \in Objects : Match(h, r)
         \/ ReportTrade(h)
         \/ FinishOrder(h)
         \/ CancelOrderEs(h)
         \/ ReplayEvents(h)
    \/ \E o \in Objects : DestroyOrder(o)
    \/ Restart

Spec == Init /\ [][Next]_vars
-----------------------------------------------------------------------------
(* What the log promises.  The definitions read nothing but the log: they  *)
(* are what an auditor, or a replay, can know.                             *)

Events(type, k) == {j \in 1 .. k : log[j].type = type}

\* The placement of the order an event names.
PlacementOf(i, k) == CHOOSE j \in Events("ORDER_PLACED", k) : log[j].order_id = i

\* The matches that name the order placed by event j, and what they leave of it,
\* after the first k events.
MatchesOf(j, k) ==
    {m \in Events("ORDER_MATCHED", k) : log[j].order_id \in {log[m].taker, log[m].maker}}
LeftAfter(j, k) ==
    log[j].quantity
        - SumFunctionOnSet([m \in MatchesOf(j, k) |-> log[m].quantity], MatchesOf(j, k))

\* The placements of the orders that rest on a side after the first k events, but
\* for the order that is being matched.
RestingAfter(side, k) ==
    {j \in Events("ORDER_PLACED", k) :
        log[j].side = side /\ log[j].order_type = "LIMIT" /\ LeftAfter(j, k) > 0}

\* Type correctness of the engine and of its log.
TypeOK ==
    /\ order \in [Objects -> Order]
    /\ \A o \in Objects : order[o].status # "REJECTED" => order[o].remaining >= 0
    /\ arrived \in 0 .. MaxOrders
    /\ freed \subseteq Objects
    /\ book \in [OrderSide -> SUBSET Objects]
    /\ log \in Seq(Event)
    /\ latest_sequence_ \in Nat /\ total_trades_ \in Nat /\ total_volume_ \in Nat
    /\ pc \in [Handlers -> {"idle", "placing", "match", "trade", "done", "down"}]
    /\ taker \in [Handlers -> 0 .. MaxOrders]
    /\ trade \in [Handlers -> Trade]
    /\ iteration_count \in [Handlers -> Nat]
    /\ answer \in {"none", "refused", "replayed", "threw", "started"}

\* emit_order_matched_event: at every moment, wherever a crash may come, the log
\* accounts for every lot of every placed order that the engine has traded.
LogTellsOrders ==
    (\A h \in Handlers : pc[h] # "down") =>
        \A j \in Events("ORDER_PLACED", Len(log)) :
            LeftAfter(j, Len(log)) = order[log[j].order_id].remaining

\* Replay can rebuild the book: between calls the resting orders are the limit
\* orders that the log says were placed and not used up, whatever became of them.
LogRebuildsBook ==
    (\A h \in Handlers : pc[h] = "idle") =>
        \A s \in OrderSide :
            book[s] = {log[j].order_id : j \in RestingAfter(s, Len(log))}

\* match_order_deterministic is a function of the log: each match is of the order
\* placed last, with the oldest of the best-priced orders then resting on the other
\* side, at that order's price, within the taker's, for all that both can trade.
MatchesFollowFromLog ==
    \A k \in Events("ORDER_MATCHED", Len(log)) :
        LET t == CHOOSE j \in Events("ORDER_PLACED", k) :
                    \A i \in Events("ORDER_PLACED", k) : i <= j
            m == PlacementOf(log[k].maker, k)
            others == RestingAfter(Opposite(log[t].side), k - 1)
        IN  /\ log[k].taker = log[t].order_id
            /\ m \in others
            /\ \A j \in others \ {m} :
                 \/ PriceBetter(log[m].side, log[m].price, log[j].price)
                 \/ log[m].price = log[j].price /\ m < j
            /\ log[k].price = log[m].price
            /\ ~PriceBetter(log[t].side, log[k].price, log[t].price)
            /\ log[k].quantity = MinOf(LeftAfter(t, k - 1), LeftAfter(m, k - 1))

\* Each trade event follows the match event it reports and carries that event's
\* sequence, which was read before the match was logged; a match without a trade
\* stands only at the end of the log, where a crash cut it.
TradesFollowMatches ==
    /\ \A k \in Events("TRADE_EXECUTED", Len(log)) :
         LET tr == log[k].trade
         IN  /\ k > 1 /\ log[k - 1].type = "ORDER_MATCHED"
             /\ {tr.buy, tr.sell} = {log[k - 1].taker, log[k - 1].maker}
             /\ tr.is_taker_buy <=> tr.buy = log[k - 1].taker
             /\ tr.price = log[k - 1].price /\ tr.quantity = log[k - 1].quantity
             /\ tr.sequence_id = log[k - 1].sequence_id
    /\ \A k \in Events("ORDER_MATCHED", Len(log) - 1) :
         log[k + 1].type = "TRADE_EXECUTED"

\* Between calls the book is not crossed: no two resting orders could trade.
BookUncrossed ==
    (\A h \in Handlers : pc[h] = "idle") =>
        \A b \in book["BUY"], a \in book["SELL"] : order[b].price < order[a].price

\* event_sourcing.h "Deterministic sequence number": the sequence process_order_es
\* reads for an order is no other order's, though it is only read and not taken.
SequencesDistinct ==
    \A o, p \in 1 .. arrived :
        o # p /\ "REJECTED" \notin {order[o].status, order[p].status}
            => order[o].sequence_id # order[p].sequence_id

\* Wherever a crash comes, the log alone tells what the engine has done and holds:
\* what is left of each order, which orders rest, every trade with its match, and
\* by its sequence which order an event is about.
LogTellsAll ==
    LogTellsOrders /\ LogRebuildsBook /\ TradesFollowMatches /\ SequencesDistinct

\* And it determines what the engine does next: the matches are a function of it
\* that leaves no two orders at rest that could trade.
MatchesDetermined == MatchesFollowFromLog /\ BookUncrossed
=============================================================================
