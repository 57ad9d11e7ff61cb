---------------------- MODULE EventSourcedEngineProofs ----------------------
(***************************************************************************)
(* Theorems about the event-sourced engine, for any number of orders, any  *)
(* prices and quantities: type correctness whatever the number of threads; *)
(* and, when one thread hands in the orders, distinct sequence numbers, a  *)
(* log that tells all the engine holds, and matches that follow from it.   *)
(***************************************************************************)
EXTENDS EventSourcedEngine, SequenceTheorems, SumTheorems, TLAPS

Working == {"placing", "match", "trade", "done"}

\* A handler at work has an order that arrived and was not rejected; so have those
\* that rest.  A trade is of some quantity.
WorkInv ==
    \A h \in Handlers :
        /\ taker[h] \in 0 .. arrived
        /\ taker[h] # 0 => order[taker[h]].status # "REJECTED"
        /\ pc[h] \in Working => taker[h] # 0
        /\ trade[h].quantity >= 0
RestInv ==
    \A s \in OrderSide : \A o \in book[s] :
        o \in 1 .. arrived /\ order[o].status # "REJECTED"

TypeInv == TypeOK /\ RestInv /\ WorkInv

\* The smaller of two integers is one of them and exceeds neither.
LEMMA MinOfSpec ==
    ASSUME NEW a \in Int, NEW b \in Int
    PROVE  MinOf(a, b) \in Int /\ MinOf(a, b) <= a /\ MinOf(a, b) <= b
BY DEF MinOf
-----------------------------------------------------------------------------
(* The log. *)

\* append_event keeps the log a sequence of events.
LEMMA AppendType ==
    ASSUME TypeOK, NEW e, Numbered(e, latest_sequence_ + 1) \in Event, AppendEvent(e)
    PROVE  log' \in Seq(Event) /\ latest_sequence_' \in Nat
BY DEF AppendEvent, TypeOK

\* The events of the publisher, once numbered, are events.
LEMMA EventsTyped ==
    ASSUME TypeOK, NEW o \in Objects, NEW r \in Objects, NEW n \in Nat
    PROVE  /\ Numbered(OrderPlaced(o), n) \in Event
           /\ Numbered(OrderRejected(o), n) \in Event
           /\ \A p \in Int, q \in Int : Numbered(OrderMatched(o, r, p, q), n) \in Event
           /\ \A tr \in Trade : Numbered(TradeExecuted(tr), n) \in Event
<1>1. o \in Nat /\ r \in Nat /\ order[o] \in Order
  BY EventEngineAssumption DEF Objects, TypeOK
<1>2. Numbered(OrderPlaced(o), n) \in Event
  BY <1>1 DEF Numbered, OrderPlaced, Event, Order
<1>3. Numbered(OrderRejected(o), n) \in Event
  BY <1>1 DEF Numbered, OrderRejected, Event
<1>4. \A p \in Int, q \in Int : Numbered(OrderMatched(o, r, p, q), n) \in Event
  BY <1>1 DEF Numbered, OrderMatched, Event
<1>5. \A tr \in Trade : Numbered(TradeExecuted(tr), n) \in Event
  BY DEF Numbered, TradeExecuted, Event
<1> QED BY <1>2, <1>3, <1>4, <1>5
-----------------------------------------------------------------------------
(* Type correctness, one lemma per action. *)

LEMMA TypeInit == Init => TypeInv
BY EventEngineAssumption
   DEF Init, TypeInv, TypeOK, WorkInv, RestInv, Objects, Order, Blank, Trade, NoTrade,
       OrderSide, OrderType, OrderStatus, Working

LEMMA TypeProcessOrder ==
    ASSUME TypeOK, RestInv, WorkInv, NEW h \in Handlers, ProcessOrderEs(h)
    PROVE  TypeInv'
<1> DEFINE n == arrived + 1
<1>1. n \in Objects /\ n \notin 1 .. arrived /\ arrived \in Nat
  BY EventEngineAssumption DEF ProcessOrderEs, TypeOK, Objects
<1>2. PICK s \in OrderSide, ty \in Types, p \in Prices, q \in Quantities :
         Accept(h, n,
           [side |-> s, type |-> ty, status |-> "PENDING", price |-> p, quantity |-> q,
            filled |-> 0, remaining |-> q, timestamp |-> 0, sequence_id |-> 0])
  BY DEF ProcessOrderEs
<1> DEFINE new == [side |-> s, type |-> ty, status |-> "PENDING", price |-> p,
                   quantity |-> q, filled |-> 0, remaining |-> q, timestamp |-> 0,
                   sequence_id |-> 0]
<1>3. new \in Order /\ new.remaining = new.quantity /\ new.status = "PENDING"
  BY EventEngineAssumption DEF Order, OrderStatus
<1> HIDE DEF new
<1>4. /\ arrived' = n /\ answer' = "none"
      /\ UNCHANGED <<freed, book, statVars, trade, iteration_count>>
  BY DEF ProcessOrderEs
<1>5. CASE ~Valid(new) /\ order' = [order EXCEPT ![n] = [new EXCEPT !.status = "REJECTED"]]
           /\ AppendEvent(OrderRejected(n)) /\ UNCHANGED <<pc, taker>>
  <2>1. log' \in Seq(Event) /\ latest_sequence_' \in Nat
    <3>1. Numbered(OrderRejected(n), latest_sequence_ + 1) \in Event
      BY <1>1, EventsTyped DEF TypeOK
    <3> QED BY <1>5, <3>1, AppendType
  <2>2. [new EXCEPT !.status = "REJECTED"] \in Order
    BY <1>3 DEF Order, OrderStatus
  <2> DEFINE rejected == [new EXCEPT !.status = "REJECTED"]
  <2>6. rejected.status = "REJECTED"
    BY <1>3 DEF Order
  <2> HIDE DEF rejected
  <2>7. order' = [order EXCEPT ![n] = rejected]
    BY <1>5 DEF rejected
  <2>8. order' \in [Objects -> Order]
    BY <1>1, <2>2, <2>7 DEF TypeOK, rejected
  <2>9. \A o \in Objects : order'[o].status # "REJECTED" => order'[o].remaining >= 0
    BY <1>1, <2>6, <2>7 DEF TypeOK
  <2>10. arrived' \in 0 .. MaxOrders
    BY <1>1, <1>4 DEF Objects
  <2>3. TypeOK'
    BY <1>4, <1>5, <2>1, <2>8, <2>9, <2>10 DEF TypeOK, statVars
  <2>4. WorkInv'
    BY <1>1, <1>4, <1>5 DEF TypeOK, WorkInv, Objects
  <2>5. RestInv'
    BY <1>1, <1>4, <1>5 DEF TypeOK, RestInv, Objects
  <2> QED BY <2>3, <2>4, <2>5 DEF TypeInv
<1>6. CASE /\ Valid(new) /\ pc' = [pc EXCEPT ![h] = "placing"]
           /\ order' = [order EXCEPT ![n] =
                [new EXCEPT !.sequence_id = latest_sequence_ + 1,
                            !.timestamp = SequenceToTimestamp(latest_sequence_ + 1)]]
           /\ taker' = [taker EXCEPT ![h] = n] /\ UNCHANGED storeVars
  <2> DEFINE placed == [new EXCEPT !.sequence_id = latest_sequence_ + 1,
                            !.timestamp = SequenceToTimestamp(latest_sequence_ + 1)]
  <2>1. placed \in Order /\ placed.remaining >= 0 /\ placed.status = "PENDING"
    <3>1. latest_sequence_ + 1 \in Nat
      BY DEF TypeOK
    <3>2. new.quantity > 0
      BY <1>6 DEF Valid
    <3>3. \A x \in Order, m \in Nat :
            LET y == [x EXCEPT !.sequence_id = m, !.timestamp = m]
            IN  y \in Order /\ y.remaining = x.remaining /\ y.status = x.status
      BY DEF Order
    <3>4. placed \in Order /\ placed.remaining = new.remaining /\ placed.status = new.status
      BY <1>3, <3>1, <3>3 DEF SequenceToTimestamp
    <3>5. new.quantity \in Int
      BY <1>3 DEF Order
    <3> QED BY <1>3, <3>2, <3>4, <3>5
  <2> HIDE DEF placed
  <2>2. order' = [order EXCEPT ![n] = placed]
    BY <1>6 DEF placed
  <2>6. order' \in [Objects -> Order]
    BY <1>1, <2>1, <2>2 DEF TypeOK
  <2>7. \A o \in Objects : order'[o].status # "REJECTED" => order'[o].remaining >= 0
    BY <1>1, <2>1, <2>2 DEF TypeOK
  <2>8. arrived' \in 0 .. MaxOrders /\ n \in 0 .. MaxOrders
    BY <1>1, <1>4 DEF Objects
  <2>9. /\ pc' \in [Handlers -> {"idle", "placing", "match", "trade", "done", "down"}]
        /\ taker' \in [Handlers -> 0 .. MaxOrders]
    BY <1>6, <2>8 DEF TypeOK
  <2>3. TypeOK'
    BY <1>4, <1>6, <2>6, <2>7, <2>8, <2>9 DEF TypeOK, statVars, storeVars
  <2>4. WorkInv'
    <3>1. ASSUME NEW g \in Handlers, g # h
          PROVE  /\ taker'[g] = taker[g] /\ pc'[g] = pc[g]
                 /\ taker[g] # 0 => order'[taker[g]] = order[taker[g]]
      BY <1>1, <1>6, <2>2, <3>1 DEF TypeOK, WorkInv, Objects
    <3>2. taker'[h] = n /\ n # 0 /\ order'[n].status # "REJECTED"
      <4>1. order'[n] = placed
        BY <1>1, <2>2 DEF TypeOK
      <4>2. taker'[h] = n
        BY <1>6 DEF TypeOK
      <4> QED BY <1>1, <2>1, <4>1, <4>2
    <3>3. n \in 0 .. arrived' /\ 0 .. arrived \subseteq 0 .. arrived'
      BY <1>1, <1>4
    <3> QED BY <1>4, <3>1, <3>2, <3>3 DEF WorkInv
  <2>5. RestInv'
    BY <1>1, <1>4, <2>1, <2>2 DEF TypeOK, RestInv, Objects
  <2> QED BY <2>3, <2>4, <2>5 DEF TypeInv
<1> QED BY <1>2, <1>5, <1>6 DEF Accept, new

LEMMA TypePlaceOrder ==
    ASSUME TypeOK, RestInv, WorkInv, NEW h \in Handlers, PlaceOrder(h)
    PROVE  TypeInv'
<1>1. taker[h] \in Objects
  BY EventEngineAssumption DEF PlaceOrder, TypeOK, WorkInv, Working, Objects
<1>2. log' \in Seq(Event) /\ latest_sequence_' \in Nat
  BY <1>1, AppendType, EventsTyped DEF PlaceOrder, TypeOK
<1>3. TypeOK'
  BY <1>2 DEF PlaceOrder, TypeOK, statVars
<1>4. WorkInv'
  BY DEF PlaceOrder, TypeOK, WorkInv, Working
<1>5. RestInv'
  BY DEF PlaceOrder, RestInv
<1> QED BY <1>3, <1>4, <1>5 DEF TypeInv

\* A fill keeps an order well typed, and what matters of it.
LEMMA FillType ==
    ASSUME TypeOK, NEW o \in Objects, NEW qty \in Int
    PROVE  /\ Fill(o, qty) \in Order
           /\ Fill(o, qty).remaining = order[o].remaining - qty
           /\ Fill(o, qty).status = order[o].status
<1> DEFINE x == order[o]
           a == x.filled + qty
           b == x.remaining - qty
<1>1. x \in Order
  BY DEF TypeOK
<1>2. a \in Int /\ b \in Int
  BY <1>1 DEF Order
<1>3. Fill(o, qty) = [x EXCEPT !.filled = a, !.remaining = b]
  BY DEF Fill
<1> HIDE DEF x, a, b
<1>4. Fill(o, qty) \in Order /\ Fill(o, qty).remaining = b /\ Fill(o, qty).status = x.status
  BY <1>1, <1>2, <1>3 DEF Order
<1> QED BY <1>4 DEF x, b

LEMMA TypeMatch ==
    ASSUME TypeOK, RestInv, WorkInv, NEW h \in Handlers, NEW r \in Objects, Match(h, r)
    PROVE  TypeInv'
<1> DEFINE t == taker[h]
           qty == MinOf(order[t].remaining, order[r].remaining)
<1>1. t \in Objects /\ order[t] \in Order /\ order[r] \in Order
  BY EventEngineAssumption DEF Match, Meets, TypeOK, WorkInv, Working, Objects
<1>2. /\ qty \in Nat
      /\ qty <= order[t].remaining /\ qty <= order[r].remaining
  <2>1. order[t].remaining >= 0
    BY <1>1 DEF Match, Meets, Order
  <2>2. order[r].remaining >= 0
    BY DEF Match, Meets, IsBest, Opposite, TypeOK, RestInv, OrderSide
  <2> QED BY <1>1, <2>1, <2>2, MinOfSpec DEF Order, MinOf
<1> HIDE DEF qty
<1>3. /\ Fill(t, qty) \in Order /\ Fill(t, qty).remaining >= 0
      /\ Fill(r, qty) \in Order /\ Fill(r, qty).remaining >= 0
  BY <1>1, <1>2, FillType DEF Order
<1>4. NewTrade(t, r, qty) \in Trade
  BY <1>1, <1>2 DEF NewTrade, Trade, TradeSequence, TypeOK, Order, Objects
<1>5. log' \in Seq(Event) /\ latest_sequence_' \in Nat
  <2>1. order[r].price \in Int
    BY <1>1 DEF Order
  <2> QED BY <1>1, <1>2, <2>1, AppendType, EventsTyped DEF Match, qty, TypeOK
<1>6. order' = [order EXCEPT ![t] = Fill(t, qty), ![r] = Fill(r, qty)]
  BY DEF Match, qty
<1>7. trade' = [trade EXCEPT ![h] = NewTrade(t, r, qty)]
  BY DEF Match, qty
<1>8. TypeOK'
  <2>1. order' \in [Objects -> Order]
    BY <1>1, <1>3, <1>6 DEF TypeOK
  <2>2. \A o \in Objects : order'[o].status # "REJECTED" => order'[o].remaining >= 0
    BY <1>1, <1>3, <1>6 DEF TypeOK
  <2>3. trade' \in [Handlers -> Trade]
    BY <1>4, <1>7 DEF TypeOK
  <2>4. /\ pc' \in [Handlers -> {"idle", "placing", "match", "trade", "done", "down"}]
        /\ iteration_count' \in [Handlers -> Nat]
    BY DEF Match, TypeOK
  <2>5. UNCHANGED <<arrived, freed, book, statVars, taker, answer>>
    BY DEF Match
  <2> QED BY <1>5, <2>1, <2>2, <2>3, <2>4, <2>5 DEF TypeOK, statVars
<1>9. \A o \in Objects : order'[o].status = order[o].status
  <2>1. Fill(t, qty).status = order[t].status /\ Fill(r, qty).status = order[r].status
    BY <1>1, <1>2, FillType
  <2> QED BY <1>1, <1>6, <2>1 DEF TypeOK
<1>10. WorkInv'
  <2>1. NewTrade(t, r, qty).quantity = qty
    BY DEF NewTrade
  <2>2. taker' = taker /\ arrived' = arrived /\ pc' = [pc EXCEPT ![h] = "trade"]
    BY DEF Match
  <2>3. pc[h] = "match"
    BY DEF Match, Meets
  <2>4. \A g \in Handlers : trade'[g].quantity >= 0
    BY <1>2, <1>7, <2>1 DEF TypeOK, WorkInv
  <2>5. \A g \in Handlers : taker[g] # 0 => taker[g] \in Objects
    BY DEF TypeOK, Objects
  <2> QED BY <1>9, <2>2, <2>3, <2>4, <2>5 DEF TypeOK, WorkInv, Working
<1>11. RestInv'
  BY <1>9 DEF Match, TypeOK, RestInv
<1> QED BY <1>8, <1>10, <1>11 DEF TypeInv

LEMMA TypeReportTrade ==
    ASSUME TypeOK, RestInv, WorkInv, NEW h \in Handlers, ReportTrade(h)
    PROVE  TypeInv'
<1>1. trade[h] \in Trade
  BY DEF TypeOK
<1>2. log' \in Seq(Event) /\ latest_sequence_' \in Nat
  BY <1>1, AppendType, EventsTyped DEF ReportTrade, TypeOK, WorkInv, Working, Objects
<1>3. total_volume_' \in Nat
  BY <1>1 DEF ReportTrade, TypeOK, WorkInv, Trade
<1>4. book' \in [OrderSide -> SUBSET Objects] /\ \A s \in OrderSide : book'[s] \subseteq book[s]
  BY DEF ReportTrade, TypeOK
<1>5. NoTrade \in Trade /\ NoTrade.quantity = 0
  BY DEF NoTrade, Trade
<1>6. TypeOK'
  BY <1>2, <1>3, <1>4, <1>5 DEF ReportTrade, TypeOK
<1>7. WorkInv'
  BY <1>5 DEF ReportTrade, TypeOK, WorkInv, Working
<1>8. RestInv'
  BY <1>4 DEF ReportTrade, TypeOK, RestInv
<1> QED BY <1>6, <1>7, <1>8 DEF TypeInv

LEMMA TypeFinishOrder ==
    ASSUME TypeOK, RestInv, WorkInv, NEW h \in Handlers, FinishOrder(h)
    PROVE  TypeInv'
<1> DEFINE t == taker[h]
           new == [order[t] EXCEPT !.status = FinalStatus(order[t])]
<1>1. t \in Objects /\ t \in 1 .. arrived /\ order[t] \in Order /\ order[t].status # "REJECTED"
  BY EventEngineAssumption DEF FinishOrder, TypeOK, WorkInv, Working, Objects
<1>2. FinalStatus(order[t]) \in OrderStatus /\ FinalStatus(order[t]) # "REJECTED"
  BY <1>1 DEF FinalStatus, Order, OrderStatus
<1>3. /\ new \in Order /\ new.status # "REJECTED" /\ new.remaining = order[t].remaining
      /\ new.side \in OrderSide
  BY <1>1, <1>2 DEF Order
<1> HIDE DEF new
<1>4. /\ order' = [order EXCEPT ![t] = new]
      /\ book' = IF Rests(new) THEN [book EXCEPT ![new.side] = @ \cup {t}] ELSE book
      /\ pc' = [pc EXCEPT ![h] = "idle"] /\ taker' = [taker EXCEPT ![h] = 0]
      /\ iteration_count' = [iteration_count EXCEPT ![h] = 0]
      /\ UNCHANGED <<arrived, freed, storeVars, statVars, trade, answer>>
  BY DEF FinishOrder, new
<1>5. book' \in [OrderSide -> SUBSET Objects]
  BY <1>1, <1>3, <1>4 DEF TypeOK
<1>6. TypeOK'
  <2>1. order' \in [Objects -> Order]
    BY <1>1, <1>3, <1>4 DEF TypeOK
  <2>2. \A o \in Objects : order'[o].status # "REJECTED" => order'[o].remaining >= 0
    BY <1>1, <1>3, <1>4 DEF TypeOK
  <2>3. /\ pc' \in [Handlers -> {"idle", "placing", "match", "trade", "done", "down"}]
        /\ taker' \in [Handlers -> 0 .. MaxOrders]
        /\ iteration_count' \in [Handlers -> Nat]
    BY <1>4, EventEngineAssumption DEF TypeOK
  <2> QED BY <1>4, <1>5, <2>1, <2>2, <2>3 DEF TypeOK, storeVars, statVars
<1>7. WorkInv'
  BY <1>1, <1>3, <1>4 DEF TypeOK, WorkInv, Objects, Working
<1>8. RestInv'
  BY <1>1, <1>3, <1>4 DEF TypeOK, RestInv
<1> QED BY <1>6, <1>7, <1>8 DEF TypeInv

LEMMA TypeRestart ==
    ASSUME TypeOK, RestInv, WorkInv, Restart
    PROVE  TypeInv'
<1>1. Blank \in Order /\ Blank.remaining = 0 /\ NoTrade \in Trade /\ NoTrade.quantity = 0
  BY DEF Blank, Order, NoTrade, Trade, OrderSide, OrderType, OrderStatus
<1>2. TypeOK'
  BY <1>1, EventEngineAssumption DEF Restart, TypeOK
<1>3. WorkInv'
  BY <1>1 DEF Restart, WorkInv, Working
<1>4. RestInv'
  BY DEF Restart, RestInv
<1> QED BY <1>2, <1>3, <1>4 DEF TypeInv

LEMMA TypeStep == TypeInv /\ [Next]_vars => TypeInv'
<1> SUFFICES ASSUME TypeInv, [Next]_vars PROVE TypeInv'
  OBVIOUS
<1>1. CASE UNCHANGED vars
  BY <1>1 DEF vars, storeVars, statVars, handlerVars, TypeInv, TypeOK, WorkInv, RestInv
<1>2. ASSUME NEW h \in Handlers, CancelOrderEs(h) \/ ReplayEvents(h) PROVE TypeInv'
  BY <1>2 DEF CancelOrderEs, ReplayEvents, storeVars, statVars, handlerVars,
              TypeInv, TypeOK, WorkInv, RestInv
<1>3. ASSUME NEW o \in Objects, DestroyOrder(o) PROVE TypeInv'
  BY <1>3 DEF DestroyOrder, storeVars, statVars, handlerVars,
              TypeInv, TypeOK, WorkInv, RestInv
<1>4. TypeOK /\ RestInv /\ WorkInv
  BY DEF TypeInv
<1> QED BY <1>1, <1>2, <1>3, <1>4, TypeProcessOrder, TypePlaceOrder, TypeMatch,
           TypeReportTrade, TypeFinishOrder, TypeRestart DEF Next

\* Type correctness of engine and log, for any number of threads and orders.
THEOREM TypeCorrect == Spec => []TypeOK
<1>1. TypeInv => TypeOK
  BY DEF TypeInv
<1> QED BY <1>1, TypeInit, TypeStep, PTL DEF Spec
-----------------------------------------------------------------------------
(* One thread. *)

Live == {o \in 1 .. arrived : order[o].status # "REJECTED"}

\* Every accepted order has a sequence the store has given to an event, but for the
\* one that is being placed, which has the next.
SequenceInv ==
    /\ \A h \in Handlers : pc[h] = "placing" =>
         /\ taker[h] \in Live
         /\ order[taker[h]].sequence_id = latest_sequence_ + 1
    /\ \A o \in Live :
         (\A h \in Handlers : pc[h] = "placing" => o # taker[h])
             => order[o].sequence_id <= latest_sequence_
    /\ \A o, p \in Live : o # p => order[o].sequence_id # order[p].sequence_id

\* A step that neither places an order nor touches a sequence keeps them distinct.
LEMMA SequenceKept ==
    ASSUME TypeOK, SequenceInv, TypeOK',
           Live' = Live,
           \A o \in Live : order'[o].sequence_id = order[o].sequence_id,
           latest_sequence_' >= latest_sequence_,
           \A h \in Handlers : pc[h] # "placing" /\ pc'[h] # "placing"
    PROVE  SequenceInv'
<1>1. \A o \in Live : o \in Objects /\ order[o].sequence_id \in Nat
  BY EventEngineAssumption DEF Live, TypeOK, Objects, Order
<1>2. \A o \in Live : order[o].sequence_id <= latest_sequence_
  BY DEF SequenceInv
<1>3. \A o \in Live' : order'[o].sequence_id <= latest_sequence_'
  <2>1. latest_sequence_ \in Nat /\ latest_sequence_' \in Nat
    BY DEF TypeOK
  <2> QED BY <1>1, <1>2, <2>1
<1>4. \A o, p \in Live' : o # p => order'[o].sequence_id # order'[p].sequence_id
  BY DEF SequenceInv
<1> QED BY <1>3, <1>4 DEF SequenceInv

\* Setting fields that are not the sequence of an order leaves its sequence.
LEMMA SequenceUntouched ==
    ASSUME TypeOK, NEW o \in Objects, NEW qty \in Int
    PROVE  /\ Fill(o, qty).sequence_id = order[o].sequence_id
           /\ Fill(o, qty).status = order[o].status
           /\ \A st : /\ [order[o] EXCEPT !.status = st].sequence_id = order[o].sequence_id
                      /\ [order[o] EXCEPT !.status = st].status = st
<1>1. order[o] \in Order
  BY DEF TypeOK
<1> QED BY <1>1 DEF Fill, Order

LEMMA SequenceProcessOrder ==
    ASSUME TypeOK, RestInv, WorkInv, SequenceInv, TypeOK',
           NEW h \in Handlers, Handlers = {h}, ProcessOrderEs(h)
    PROVE  SequenceInv'
<1> DEFINE n == arrived + 1
<1>1. n \in Objects /\ arrived \in Nat /\ arrived' = n /\ pc[h] = "idle"
  BY EventEngineAssumption DEF ProcessOrderEs, TypeOK, Objects
<1>2. PICK new : new \in Order /\ new.status = "PENDING" /\ Accept(h, n, new)
  <2>1. PICK s \in OrderSide, ty \in Types, p \in Prices, q \in Quantities :
          Accept(h, n,
            [side |-> s, type |-> ty, status |-> "PENDING", price |-> p, quantity |-> q,
             filled |-> 0, remaining |-> q, timestamp |-> 0, sequence_id |-> 0])
    BY DEF ProcessOrderEs
  <2> DEFINE x == [side |-> s, type |-> ty, status |-> "PENDING", price |-> p,
                   quantity |-> q, filled |-> 0, remaining |-> q, timestamp |-> 0,
                   sequence_id |-> 0]
  <2>2. x \in Order /\ x.status = "PENDING"
    BY EventEngineAssumption DEF Order, OrderStatus
  <2> QED BY <2>1, <2>2
<1>3. \A o \in Live : o \in Objects /\ o # n /\ order[o].sequence_id \in Nat
                      /\ order[o].sequence_id <= latest_sequence_
  BY <1>1, EventEngineAssumption DEF Live, SequenceInv, TypeOK, Objects, Order
<1>4. latest_sequence_ \in Nat
  BY DEF TypeOK
<1>5. CASE /\ order' = [order EXCEPT ![n] = [new EXCEPT !.status = "REJECTED"]]
           /\ AppendEvent(OrderRejected(n)) /\ UNCHANGED <<pc, taker>>
  <2>1. order'[n].status = "REJECTED"
    BY <1>1, <1>2, <1>5 DEF TypeOK, Order
  <2>2. \A o \in Objects : o # n => order'[o] = order[o]
    BY <1>1, <1>5 DEF TypeOK
  <2>3. Live' = Live
    BY <1>1, <2>1, <2>2, EventEngineAssumption DEF Live, Objects
  <2>4. latest_sequence_' = latest_sequence_ + 1
    BY <1>5 DEF AppendEvent
  <2>5. \A o \in Live : order'[o].sequence_id = order[o].sequence_id
    BY <1>3, <2>2
  <2>6. \A g \in Handlers : pc[g] # "placing" /\ pc'[g] # "placing"
    BY <1>1, <1>5
  <2> QED BY <1>4, <2>3, <2>4, <2>5, <2>6, SequenceKept
<1>6. CASE /\ order' = [order EXCEPT ![n] =
                [new EXCEPT !.sequence_id = latest_sequence_ + 1,
                            !.timestamp = SequenceToTimestamp(latest_sequence_ + 1)]]
           /\ pc' = [pc EXCEPT ![h] = "placing"] /\ taker' = [taker EXCEPT ![h] = n]
           /\ UNCHANGED storeVars
  <2> DEFINE placed == [new EXCEPT !.sequence_id = latest_sequence_ + 1,
                            !.timestamp = SequenceToTimestamp(latest_sequence_ + 1)]
  <2>1. placed.sequence_id = latest_sequence_ + 1 /\ placed.status = "PENDING"
    BY <1>2 DEF Order
  <2> HIDE DEF placed
  <2>2. order'[n] = placed
    BY <1>1, <1>6 DEF TypeOK, placed
  <2>3. \A o \in Objects : o # n => order'[o] = order[o]
    BY <1>1, <1>6 DEF TypeOK
  <2>4. Live' = Live \cup {n}
    BY <1>1, <2>1, <2>2, <2>3, EventEngineAssumption DEF Live, Objects
  <2>5. taker'[h] = n /\ latest_sequence_' = latest_sequence_
    BY <1>6 DEF TypeOK, storeVars
  <2>6. \A o \in Live : order'[o].sequence_id = order[o].sequence_id
    BY <1>3, <2>3
  <2>7. order'[n].sequence_id = latest_sequence_ + 1
    BY <2>1, <2>2
  <2>8. \A o \in Live' : o # n => o \in Live /\ order'[o].sequence_id <= latest_sequence_
    BY <1>3, <2>4, <2>6
  <2>9. \A o, p \in Live' : o # p => order'[o].sequence_id # order'[p].sequence_id
    BY <1>3, <1>4, <2>4, <2>6, <2>7 DEF SequenceInv
  <2>10. \A g \in Handlers : taker'[g] \in Live'
                             /\ order'[taker'[g]].sequence_id = latest_sequence_' + 1
    BY <2>4, <2>5, <2>7
  <2>11. \A o \in Live' :
           (\A g \in Handlers : pc'[g] = "placing" => o # taker'[g])
               => order'[o].sequence_id <= latest_sequence_'
    <3>1. pc'[h] = "placing"
      BY <1>6 DEF TypeOK
    <3> QED BY <2>5, <2>8, <3>1
  <2> QED BY <2>9, <2>10, <2>11 DEF SequenceInv
<1> QED BY <1>2, <1>5, <1>6 DEF Accept

LEMMA SequencePlaceOrder ==
    ASSUME TypeOK, WorkInv, SequenceInv, NEW h \in Handlers, Handlers = {h}, PlaceOrder(h)
    PROVE  SequenceInv'
<1>1. pc[h] = "placing" /\ pc'[h] = "match"
  BY DEF PlaceOrder, TypeOK
<1>2. latest_sequence_ \in Nat /\ latest_sequence_' = latest_sequence_ + 1
  BY DEF PlaceOrder, AppendEvent, TypeOK
<1>3. order' = order /\ Live' = Live
  BY DEF PlaceOrder, Live
<1>4. \A o \in Live : o \in Objects /\ order[o].sequence_id \in Nat
  BY EventEngineAssumption DEF Live, TypeOK, Objects, Order
<1>5. \A o \in Live : order[o].sequence_id <= latest_sequence_ + 1
  BY <1>1, <1>2, <1>4 DEF SequenceInv
<1> QED BY <1>1, <1>2, <1>3, <1>5 DEF SequenceInv

LEMMA SequenceMatch ==
    ASSUME TypeOK, RestInv, WorkInv, SequenceInv, TypeOK',
           NEW h \in Handlers, Handlers = {h}, NEW r \in Objects, Match(h, r)
    PROVE  SequenceInv'
<1> DEFINE t == taker[h]
           qty == MinOf(order[t].remaining, order[r].remaining)
<1>1. t \in Objects /\ order[t] \in Order /\ order[r] \in Order
  BY EventEngineAssumption DEF Match, Meets, TypeOK, WorkInv, Working, Objects
<1>2. qty \in Int
  BY <1>1, MinOfSpec DEF Order
<1> HIDE DEF qty
<1>3. order' = [order EXCEPT ![t] = Fill(t, qty), ![r] = Fill(r, qty)]
  BY DEF Match, qty
<1>4. \A o \in Objects : order'[o].sequence_id = order[o].sequence_id
                         /\ order'[o].status = order[o].status
  <2>1. /\ Fill(t, qty).sequence_id = order[t].sequence_id
        /\ Fill(t, qty).status = order[t].status
        /\ Fill(r, qty).sequence_id = order[r].sequence_id
        /\ Fill(r, qty).status = order[r].status
    BY <1>1, <1>2, SequenceUntouched
  <2> QED BY <1>1, <1>3, <2>1 DEF TypeOK
<1>5. arrived' = arrived /\ latest_sequence_' = latest_sequence_ + 1
      /\ latest_sequence_ \in Nat
  BY DEF Match, AppendEvent, TypeOK
<1>6. pc[h] = "match" /\ pc'[h] = "trade"
  BY DEF Match, Meets, TypeOK
<1>7. 1 .. arrived \subseteq Objects
  BY EventEngineAssumption DEF TypeOK, Objects
<1>8. Live' = Live /\ Live \subseteq Objects
  BY <1>4, <1>5, <1>7 DEF Live
<1> QED BY <1>4, <1>5, <1>6, <1>8, SequenceKept

LEMMA SequenceReportTrade ==
    ASSUME TypeOK, SequenceInv, TypeOK', NEW h \in Handlers, Handlers = {h}, ReportTrade(h)
    PROVE  SequenceInv'
<1>1. order' = order /\ Live' = Live
  BY DEF ReportTrade, Live
<1>2. latest_sequence_' >= latest_sequence_
  BY DEF ReportTrade, AppendEvent, TypeOK
<1>3. pc[h] = "trade" /\ pc'[h] # "placing"
  BY DEF ReportTrade, TypeOK
<1> QED BY <1>1, <1>2, <1>3, SequenceKept

LEMMA SequenceFinishOrder ==
    ASSUME TypeOK, WorkInv, SequenceInv, TypeOK',
           NEW h \in Handlers, Handlers = {h}, FinishOrder(h)
    PROVE  SequenceInv'
<1> DEFINE t == taker[h]
           new == [order[t] EXCEPT !.status = FinalStatus(order[t])]
<1>1. t \in Objects /\ order[t] \in Order /\ order[t].status # "REJECTED"
  BY EventEngineAssumption DEF FinishOrder, TypeOK, WorkInv, Working, Objects
<1>2. new.sequence_id = order[t].sequence_id /\ new.status # "REJECTED"
  BY <1>1 DEF FinalStatus, Order
<1> HIDE DEF new
<1>3. order' = [order EXCEPT ![t] = new]
  BY DEF FinishOrder, new
<1>4. \A o \in Objects :
        /\ order'[o].sequence_id = order[o].sequence_id
        /\ order'[o].status = "REJECTED" <=> order[o].status = "REJECTED"
  BY <1>1, <1>2, <1>3 DEF TypeOK
<1>5. 1 .. arrived \subseteq Objects /\ arrived' = arrived
  BY EventEngineAssumption DEF FinishOrder, TypeOK, Objects
<1>6. Live' = Live /\ Live \subseteq Objects
  BY <1>4, <1>5 DEF Live
<1>7. pc[h] # "placing" /\ pc'[h] = "idle"
  BY DEF FinishOrder, TypeOK
<1>8. latest_sequence_' = latest_sequence_ /\ latest_sequence_ \in Nat
  BY DEF FinishOrder, storeVars, TypeOK
<1> QED BY <1>4, <1>6, <1>7, <1>8, SequenceKept

LEMMA SequenceRestart == Restart => SequenceInv'
<1> SUFFICES ASSUME Restart PROVE SequenceInv'
  OBVIOUS
<1>1. Live' = {}
  BY DEF Restart, Live
<1>2. \A h \in Handlers : pc'[h] # "placing"
  BY DEF Restart
<1> QED BY <1>1, <1>2 DEF SequenceInv

\* When one thread hands in the orders, no two accepted orders share a sequence,
\* though process_order_es reads the next one from the store without taking it.
THEOREM SequencesUnique ==
    ASSUME NEW CONSTANT h \in Handlers, Handlers = {h}
    PROVE  Spec => []SequencesDistinct
<1>1. Init => SequenceInv
  BY DEF Init, SequenceInv, Live
<1>2. TypeInv /\ TypeInv' /\ SequenceInv /\ [Next]_vars => SequenceInv'
  <2> SUFFICES ASSUME TypeInv, TypeInv', SequenceInv, [Next]_vars PROVE SequenceInv'
    OBVIOUS
  <2>1. TypeOK /\ RestInv /\ WorkInv /\ TypeOK'
    BY DEF TypeInv
  <2>2. CASE UNCHANGED vars
    BY <2>2 DEF vars, storeVars, handlerVars, SequenceInv, Live
  <2>3. CASE CancelOrderEs(h) \/ ReplayEvents(h)
    BY <2>3 DEF CancelOrderEs, ReplayEvents, storeVars, handlerVars, SequenceInv, Live
  <2>4. ASSUME NEW o \in Objects, DestroyOrder(o) PROVE SequenceInv'
    BY <2>4 DEF DestroyOrder, storeVars, handlerVars, SequenceInv, Live
  <2>5. CASE \E g \in Handlers : \/ ProcessOrderEs(g)
                                 \/ PlaceOrder(g)
                                 \/ \E r \in Objects : Match(g, r)
                                 \/ ReportTrade(g)
                                 \/ FinishOrder(g)
    BY <2>1, <2>5, SequenceProcessOrder, SequencePlaceOrder, SequenceMatch,
       SequenceReportTrade, SequenceFinishOrder
  <2> QED BY <2>2, <2>3, <2>4, <2>5, SequenceRestart DEF Next
<1>3. SequenceInv => SequencesDistinct
  BY DEF SequenceInv, SequencesDistinct, Live
<1> QED BY <1>1, <1>2, <1>3, TypeInit, TypeStep, PTL DEF Spec
-----------------------------------------------------------------------------
(* What an event appended to the log leaves of what the log said before. *)

LEMMA EventFields ==
    ASSUME NEW e \in Event
    PROVE  /\ e.type = "ORDER_PLACED" =>
                /\ e.order_id \in Nat /\ e.side \in OrderSide
                /\ e.price \in Int /\ e.quantity \in Int
           /\ e.type = "ORDER_MATCHED" =>
                e.taker \in Nat /\ e.maker \in Nat /\ e.price \in Int /\ e.quantity \in Int
BY DEF Event

LEMMA LogAppended ==
    ASSUME log \in Seq(Event), NEW e \in Event, log' = Append(log, e)
    PROVE  /\ Len(log) \in Nat /\ Len(log') = Len(log) + 1 /\ log'[Len(log) + 1] = e
           /\ \A j \in 1 .. Len(log) : log'[j] = log[j] /\ log[j] \in Event
BY AppendProperties, ElementOfSeq, LenProperties

LEMMA EventsKept ==
    ASSUME log \in Seq(Event), NEW e \in Event, log' = Append(log, e),
           NEW ty, NEW k \in Int, k <= Len(log)
    PROVE  Events(ty, k)' = Events(ty, k) /\ Events(ty, k) \subseteq 1 .. Len(log)
<1>1. Len(log) \in Nat /\ \A j \in 1 .. Len(log) : log'[j] = log[j]
  BY LogAppended
<1>2. 1 .. k \subseteq 1 .. Len(log)
  BY <1>1
<1> QED BY <1>1, <1>2 DEF Events

LEMMA EventsGrow ==
    ASSUME log \in Seq(Event), NEW e \in Event, log' = Append(log, e), NEW ty
    PROVE  Events(ty, Len(log))' =
             Events(ty, Len(log)) \cup (IF e.type = ty THEN {Len(log) + 1} ELSE {})
<1>1. /\ Len(log) \in Nat /\ Len(log') = Len(log) + 1 /\ log'[Len(log) + 1] = e
      /\ \A j \in 1 .. Len(log) : log'[j] = log[j]
  BY LogAppended
<1>2. 1 .. Len(log') = (1 .. Len(log)) \cup {Len(log) + 1}
  BY <1>1
<1> QED BY <1>1, <1>2 DEF Events

LEMMA EventsSame ==
    ASSUME log \in Seq(Event), NEW e \in Event, log' = Append(log, e), NEW ty, e.type # ty
    PROVE  Events(ty, Len(log))' = Events(ty, Len(log))
<1>1. Events(ty, Len(log))' = Events(ty, Len(log)) \cup {}
  BY EventsGrow
<1> QED BY <1>1

LEMMA LeftKept ==
    ASSUME log \in Seq(Event), NEW e \in Event, log' = Append(log, e),
           NEW j \in 1 .. Len(log), NEW k \in Int, k <= Len(log)
    PROVE  LeftAfter(j, k)' = LeftAfter(j, k)
<1>1. \A i \in 1 .. Len(log) : log'[i] = log[i]
  BY LogAppended
<1>2. Events("ORDER_MATCHED", k)' = Events("ORDER_MATCHED", k)
      /\ Events("ORDER_MATCHED", k) \subseteq 1 .. Len(log)
  BY EventsKept
<1>3. MatchesOf(j, k)' = MatchesOf(j, k) /\ MatchesOf(j, k) \subseteq 1 .. Len(log)
  BY <1>1, <1>2 DEF MatchesOf
<1>4. [m \in MatchesOf(j, k) |-> log'[m].quantity] = [m \in MatchesOf(j, k) |-> log[m].quantity]
  BY <1>1, <1>3
<1> QED BY <1>1, <1>3, <1>4 DEF LeftAfter

LEMMA RestingKept ==
    ASSUME log \in Seq(Event), NEW e \in Event, log' = Append(log, e),
           NEW s, NEW k \in Int, k <= Len(log)
    PROVE  RestingAfter(s, k)' = RestingAfter(s, k)
<1>1. \A i \in 1 .. Len(log) : log'[i] = log[i]
  BY LogAppended
<1>2. Events("ORDER_PLACED", k)' = Events("ORDER_PLACED", k)
      /\ Events("ORDER_PLACED", k) \subseteq 1 .. Len(log)
  BY EventsKept
<1>3. \A j \in Events("ORDER_PLACED", k) : LeftAfter(j, k)' = LeftAfter(j, k)
  BY <1>2, LeftKept
<1> QED BY <1>1, <1>2, <1>3 DEF RestingAfter

\* The matches that name an order are finitely many, each of some quantity.
LEMMA MatchesFinite ==
    ASSUME log \in Seq(Event), NEW j, NEW k \in Int, k <= Len(log)
    PROVE  /\ IsFiniteSet(MatchesOf(j, k))
           /\ \A m \in MatchesOf(j, k) : m \in 1 .. Len(log) /\ log[m].quantity \in Int
<1>1. MatchesOf(j, k) \subseteq 1 .. k /\ 1 .. k \subseteq 1 .. Len(log) /\ Len(log) \in Nat
  BY LenProperties DEF MatchesOf, Events
<1>2. IsFiniteSet(1 .. Len(log))
  BY <1>1, FS_Interval
<1>3. IsFiniteSet(MatchesOf(j, k))
  BY <1>1, <1>2, FS_Subset
<1>4. ASSUME NEW m \in MatchesOf(j, k) PROVE log[m].quantity \in Int
  <2>1. log[m] \in Event
    BY <1>1, ElementOfSeq
  <2>2. log[m].type = "ORDER_MATCHED"
    BY DEF MatchesOf, Events
  <2> QED BY <2>1, <2>2, EventFields
<1> QED BY <1>1, <1>3, <1>4

\* An event that is no match of the order leaves what is left of it, a match takes
\* its quantity.
LEMMA LeftUntouched ==
    ASSUME log \in Seq(Event), NEW e \in Event, log' = Append(log, e), NEW j \in 1 .. Len(log),
           e.type = "ORDER_MATCHED" => log[j].order_id \notin {e.taker, e.maker}
    PROVE  LeftAfter(j, Len(log))' = LeftAfter(j, Len(log))
<1>1. /\ Len(log) \in Nat /\ Len(log') = Len(log) + 1 /\ log'[Len(log) + 1] = e
      /\ \A i \in 1 .. Len(log) : log'[i] = log[i]
  BY LogAppended
<1>2. /\ Events("ORDER_MATCHED", Len(log)) \subseteq 1 .. Len(log)
      /\ Events("ORDER_MATCHED", Len(log))' = Events("ORDER_MATCHED", Len(log)) \cup
           (IF e.type = "ORDER_MATCHED" THEN {Len(log) + 1} ELSE {})
  BY <1>1, EventsGrow, EventsKept
<1>3. MatchesOf(j, Len(log))' = MatchesOf(j, Len(log))
      /\ MatchesOf(j, Len(log)) \subseteq 1 .. Len(log)
  BY <1>1, <1>2 DEF MatchesOf
<1>4. [m \in MatchesOf(j, Len(log)) |-> log'[m].quantity]
        = [m \in MatchesOf(j, Len(log)) |-> log[m].quantity]
  BY <1>1, <1>3
<1> QED BY <1>1, <1>3, <1>4 DEF LeftAfter

LEMMA LeftReduced ==
    ASSUME log \in Seq(Event), NEW e \in Event, log' = Append(log, e), NEW j \in 1 .. Len(log),
           log[j].type = "ORDER_PLACED",
           e.type = "ORDER_MATCHED", log[j].order_id \in {e.taker, e.maker}
    PROVE  LeftAfter(j, Len(log))' = LeftAfter(j, Len(log)) - e.quantity
<1> DEFINE n == Len(log) + 1
           S == MatchesOf(j, Len(log))
           f == [m \in S |-> log[m].quantity]
           g == [m \in S \cup {n} |-> log'[m].quantity]
<1>1. /\ Len(log) \in Nat /\ Len(log') = n /\ log'[n] = e
      /\ \A i \in 1 .. Len(log) : log'[i] = log[i] /\ log[i] \in Event
  BY LogAppended
<1>2. /\ Events("ORDER_MATCHED", Len(log)) \subseteq 1 .. Len(log)
      /\ Events("ORDER_MATCHED", Len(log))' = Events("ORDER_MATCHED", Len(log)) \cup {n}
  BY <1>1, EventsGrow, EventsKept
<1>3. MatchesOf(j, Len(log))' = S \cup {n} /\ S \subseteq 1 .. Len(log)
  BY <1>1, <1>2 DEF MatchesOf
<1>4. n \notin S /\ IsFiniteSet(S) /\ \A m \in S : log[m].quantity \in Int
  BY <1>1, <1>3, MatchesFinite
<1>5. e.quantity \in Int /\ log[j].quantity \in Int
  BY <1>1, EventFields
<1>6. /\ \A m \in S : f[m] = g[m] /\ f[m] \in Int /\ g[m] \in Int
      /\ g[n] = e.quantity
  BY <1>1, <1>3, <1>4
<1> HIDE DEF f, g, S, n
<1>7. SumFunctionOnSet(g, S \cup {n}) = g[n] + SumFunctionOnSet(g, S)
  <2>1. \A x \in S \cup {n} : g[x] \in Int
    BY <1>5, <1>6
  <2> QED BY <1>4, <2>1, SumAdd
<1>8. SumFunctionOnSet(f, S) = SumFunctionOnSet(g, S) /\ SumFunctionOnSet(g, S) \in Int
  BY <1>4, <1>6, SumSame, SumType
<1>9. LeftAfter(j, Len(log)) = log[j].quantity - SumFunctionOnSet(f, S)
  BY DEF LeftAfter, f, S
<1>10. LeftAfter(j, Len(log))' = log[j].quantity - SumFunctionOnSet(g, S \cup {n})
  <2>1. log'[j] = log[j]
    BY <1>1
  <2> QED BY <1>3, <2>1 DEF LeftAfter, g
<1> QED BY <1>5, <1>6, <1>7, <1>8, <1>9, <1>10
-----------------------------------------------------------------------------
(* What holds of the log alone, and of the log a crash has left. *)

\* No order is placed twice.
DistinctIds ==
    \A i, j \in Events("ORDER_PLACED", Len(log)) : log[i].order_id = log[j].order_id => i = j

\* Match k is of the order placed by event t, the last one before it, with the one
\* placed by event m, as MatchesFollowFromLog demands.
Explained(t, m, k) ==
    LET others == RestingAfter(Opposite(log[t].side), k - 1)
    IN  /\ t \in Events("ORDER_PLACED", k)
        /\ \A i \in Events("ORDER_PLACED", k) : i <= t
        /\ m \in Events("ORDER_PLACED", k) /\ log[m].order_id = log[k].maker
        /\ log[k].taker = log[t].order_id
        /\ m \in others
        /\ \A j \in others \ {m} :
             \/ PriceBetter(log[m].side, log[m].price, log[j].price)
             \/ log[m].price = log[j].price /\ m < j
        /\ log[k].price = log[m].price
        /\ ~PriceBetter(log[t].side, log[k].price, log[t].price)
        /\ log[k].quantity = MinOf(LeftAfter(t, k - 1), LeftAfter(m, k - 1))

MatchesExplained ==
    \A k \in Events("ORDER_MATCHED", Len(log)) : \E t, m \in 1 .. k : Explained(t, m, k)

LogInv == DistinctIds /\ MatchesExplained /\ TradesFollowMatches

LastMatched == Len(log) > 0 /\ log[Len(log)].type = "ORDER_MATCHED"

\* Trade tr is the one match event e tells of.
Reports(tr, e) ==
    /\ {tr.buy, tr.sell} = {e.taker, e.maker}
    /\ tr.is_taker_buy <=> tr.buy = e.taker
    /\ tr.price = e.price /\ tr.quantity = e.quantity
    /\ tr.sequence_id = e.sequence_id

LEMMA ExplainedKept ==
    ASSUME log \in Seq(Event), NEW e \in Event, log' = Append(log, e),
           NEW k \in 1 .. Len(log), NEW t \in 1 .. k, NEW m \in 1 .. k, Explained(t, m, k)
    PROVE  Explained(t, m, k)'
<1>1. Len(log) \in Nat /\ \A i \in 1 .. Len(log) : log'[i] = log[i]
  BY LogAppended
<1>2. k \in Int /\ k - 1 \in Int /\ k <= Len(log) /\ k - 1 <= Len(log)
      /\ t \in 1 .. Len(log) /\ m \in 1 .. Len(log)
  BY <1>1
<1>3. Events("ORDER_PLACED", k)' = Events("ORDER_PLACED", k)
  BY <1>2, EventsKept
<1>4. LeftAfter(t, k - 1)' = LeftAfter(t, k - 1) /\ LeftAfter(m, k - 1)' = LeftAfter(m, k - 1)
  BY <1>2, LeftKept
<1>5. log'[t] = log[t] /\ log'[m] = log[m] /\ log'[k] = log[k]
  BY <1>1, <1>2
<1> DEFINE s == Opposite(log[t].side)
<1>6. RestingAfter(s, k - 1)' = RestingAfter(s, k - 1)
      /\ RestingAfter(s, k - 1) \subseteq 1 .. Len(log)
  <2>1. Events("ORDER_PLACED", k - 1) \subseteq 1 .. Len(log)
    BY <1>2, EventsKept
  <2>2. RestingAfter(s, k - 1)' = RestingAfter(Opposite(log[t].side), k - 1)
    <3>1. \A x : RestingAfter(x, k - 1)' = RestingAfter(x, k - 1)
      BY <1>2, RestingKept
    <3> QED BY <1>5, <3>1
  <2> QED BY <2>1, <2>2 DEF RestingAfter
<1>7. \A j \in RestingAfter(s, k - 1) : log'[j] = log[j]
  BY <1>1, <1>6
<1> QED BY <1>3, <1>4, <1>5, <1>6, <1>7 DEF Explained

\* An event that is no match leaves the matches explained.
LEMMA ExplainedQuiet ==
    ASSUME log \in Seq(Event), NEW e \in Event, log' = Append(log, e),
           e.type # "ORDER_MATCHED", MatchesExplained
    PROVE  MatchesExplained'
<1>1. /\ Events("ORDER_MATCHED", Len(log))' = Events("ORDER_MATCHED", Len(log))
      /\ Events("ORDER_MATCHED", Len(log)) \subseteq 1 .. Len(log)
  BY EventsGrow, EventsKept, LenProperties
<1> QED BY <1>1, ExplainedKept DEF MatchesExplained

\* The trades follow the matches still, when what is appended is the trade of the last
\* event, or when that is not a match.
LEMMA FollowQuiet ==
    ASSUME log \in Seq(Event), NEW e \in Event, log' = Append(log, e), TradesFollowMatches,
           IF e.type = "TRADE_EXECUTED" THEN LastMatched /\ Reports(e.trade, log[Len(log)])
                                        ELSE ~LastMatched
    PROVE  TradesFollowMatches'
<1> DEFINE n == Len(log) + 1
<1>1. /\ Len(log) \in Nat /\ Len(log') = n /\ log'[n] = e
      /\ \A i \in 1 .. Len(log) : log'[i] = log[i]
  BY LogAppended
<1>2. ASSUME NEW k \in Events("TRADE_EXECUTED", Len(log))'
      PROVE  k > 1 /\ log'[k - 1].type = "ORDER_MATCHED" /\ Reports(log'[k].trade, log'[k - 1])
  <2>1. k \in Events("TRADE_EXECUTED", Len(log)) \/ (k = n /\ e.type = "TRADE_EXECUTED")
    BY EventsGrow, <1>1
  <2>2. CASE k \in Events("TRADE_EXECUTED", Len(log))
    <3>1. k \in 1 .. Len(log) /\ k > 1
      BY <2>2 DEF Events, TradesFollowMatches
    <3>2. log'[k] = log[k] /\ log'[k - 1] = log[k - 1]
      BY <1>1, <3>1
    <3> QED BY <2>2, <3>1, <3>2 DEF TradesFollowMatches, Reports
  <2>3. CASE k = n /\ e.type = "TRADE_EXECUTED"
    <3>1. k > 1 /\ k - 1 = Len(log) /\ Len(log) \in 1 .. Len(log)
      BY <1>1, <2>3 DEF LastMatched
    <3> QED BY <1>1, <2>3, <3>1 DEF LastMatched
  <2> QED BY <2>1, <2>2, <2>3
<1>3. ASSUME NEW k \in Events("ORDER_MATCHED", Len(log) - 1)' PROVE log'[k + 1].type = "TRADE_EXECUTED"
  <2>1. k \in 1 .. Len(log) /\ log[k].type = "ORDER_MATCHED"
    BY <1>1, <1>3 DEF Events
  <2>2. CASE k = Len(log)
    BY <1>1, <2>1, <2>2 DEF LastMatched
  <2>3. CASE k # Len(log)
    <3>1. k \in 1 .. Len(log) - 1 /\ k + 1 \in 1 .. Len(log)
      BY <1>1, <2>1, <2>3
    <3> QED BY <1>1, <2>1, <3>1 DEF TradesFollowMatches, Events
  <2> QED BY <2>2, <2>3
<1> QED BY <1>2, <1>3 DEF TradesFollowMatches, Reports

LEMMA DistinctQuiet ==
    ASSUME log \in Seq(Event), NEW e \in Event, log' = Append(log, e), DistinctIds,
           e.type = "ORDER_PLACED" =>
             \A j \in Events("ORDER_PLACED", Len(log)) : log[j].order_id # e.order_id
    PROVE  DistinctIds'
<1>1. /\ Len(log) \in Nat /\ log'[Len(log) + 1] = e
      /\ \A i \in 1 .. Len(log) : log'[i] = log[i]
  BY LogAppended
<1>2. /\ Events("ORDER_PLACED", Len(log)) \subseteq 1 .. Len(log)
      /\ Events("ORDER_PLACED", Len(log))' = Events("ORDER_PLACED", Len(log)) \cup
           (IF e.type = "ORDER_PLACED" THEN {Len(log) + 1} ELSE {})
  BY <1>1, EventsGrow, EventsKept
<1> QED BY <1>1, <1>2 DEF DistinctIds

\* The placements MatchesFollowFromLog chooses are those of the explanation.
LEMMA ExplainedFollows ==
    ASSUME DistinctIds, MatchesExplained, Len(log) \in Nat PROVE MatchesFollowFromLog
<1> SUFFICES ASSUME NEW k \in Events("ORDER_MATCHED", Len(log))
             PROVE  LET t == CHOOSE j \in Events("ORDER_PLACED", k) :
                               \A i \in Events("ORDER_PLACED", k) : i <= j
                        m == PlacementOf(log[k].maker, k)
                    IN  Explained(t, m, k)
  BY DEF MatchesFollowFromLog, Explained
<1>1. PICK t \in 1 .. k, m \in 1 .. k : Explained(t, m, k)
  BY DEF MatchesExplained
<1>2. k \in 1 .. Len(log) /\ \A ty : Events(ty, k) \subseteq Events(ty, Len(log))
  BY DEF Events
<1>3. (CHOOSE j \in Events("ORDER_PLACED", k) : \A i \in Events("ORDER_PLACED", k) : i <= j) = t
  <2>1. t \in Events("ORDER_PLACED", k) /\ \A i \in Events("ORDER_PLACED", k) : i <= t
    BY <1>1 DEF Explained
  <2>2. \A i \in Events("ORDER_PLACED", k) : i \in Int
    BY <1>2 DEF Events
  <2>3. \A j \in Events("ORDER_PLACED", k) :
          (\A i \in Events("ORDER_PLACED", k) : i <= j) => j = t
    BY <2>1, <2>2
  <2> QED BY <2>1, <2>3
<1>4. PlacementOf(log[k].maker, k) = m
  <2>1. m \in Events("ORDER_PLACED", k) /\ log[m].order_id = log[k].maker
    BY <1>1 DEF Explained
  <2>2. \A j \in Events("ORDER_PLACED", k) : log[j].order_id = log[k].maker => j = m
    BY <1>2, <2>1 DEF DistinctIds
  <2> QED BY <2>1, <2>2 DEF PlacementOf
<1> QED BY <1>1, <1>3, <1>4
-----------------------------------------------------------------------------
(* What the engine and the log know of each other, while there is an engine *)
(* and one thread h that hands in the orders.                              *)

\* The accepted orders whose placement is in the log.
Entered(h) == {o \in Live : pc[h] = "placing" => o # taker[h]}

\* The sequence of the order is that of its placement, which tells all that is fixed
\* of it; what is left of it follows from the log.
Recorded(o) ==
    LET j == order[o].sequence_id
    IN  /\ j \in Events("ORDER_PLACED", Len(log)) /\ log[j].order_id = o
        /\ log[j].side = order[o].side /\ log[j].order_type = order[o].type
        /\ log[j].price = order[o].price /\ order[o].timestamp = j
        /\ LeftAfter(j, Len(log)) = order[o].remaining

RecordInv(h) ==
    /\ latest_sequence_ = Len(log)
    /\ \A o \in Entered(h) : Recorded(o)
    /\ \A j \in Events("ORDER_PLACED", Len(log)) :
         log[j].order_id \in Entered(h) /\ order[log[j].order_id].sequence_id = j
    /\ \A k \in Events("ORDER_MATCHED", Len(log)) :
         log[k].taker \in Entered(h) /\ log[k].maker \in Entered(h)

\* The order the thread works on has no final status yet, and was placed last.
TakerInv(h) ==
    /\ pc[h] \notin Working => taker[h] = 0
    /\ pc[h] \in Working => taker[h] \in Live /\ order[taker[h]].status = "PENDING"
    /\ pc[h] = "placing" =>
         LET t == order[taker[h]]
         IN  /\ t.sequence_id = Len(log) + 1 /\ t.timestamp = Len(log) + 1
             /\ t.remaining = t.quantity
    /\ pc[h] \in Working \ {"placing"} =>
         \A j \in Events("ORDER_PLACED", Len(log)) : j <= order[taker[h]].sequence_id
    /\ pc[h] = "done" => order[taker[h]].type # "LIMIT"

\* A match ends the log exactly between the two halves of a turn, and the trade in
\* hand is the one it tells of.
HandInv(h) ==
    IF pc[h] = "trade"
    THEN /\ LastMatched /\ Reports(trade[h], log[Len(log)])
         /\ log[Len(log)].taker = taker[h] /\ log[Len(log)].maker = Maker(h)
         /\ Maker(h) \in book[Opposite(order[taker[h]].side)]
    ELSE ~LastMatched

\* The orders that rest: with something left, or filled and about to leave the book.
Resting(h, s) ==
    {o \in Live \ {taker[h]} :
        /\ order[o].side = s /\ order[o].type = "LIMIT"
        /\ order[o].remaining > 0 \/ (pc[h] = "trade" /\ o = Maker(h))}

BookInv(h) == \A s \in OrderSide : book[s] = Resting(h, s)

EngineInv(h) == RecordInv(h) /\ TakerInv(h) /\ HandInv(h) /\ BookInv(h)

ReplayInv(h) == LogInv /\ (pc[h] # "down" => EngineInv(h))

LEMMA LiveTyped ==
    ASSUME TypeOK, NEW o \in Live
    PROVE  /\ o \in Objects /\ o \in 1 .. arrived /\ o # 0 /\ order[o] \in Order
           /\ order[o].side \in OrderSide /\ order[o].price \in Int
           /\ order[o].remaining \in Int /\ order[o].remaining >= 0
           /\ order[o].quantity \in Int
           /\ order[o].timestamp \in Nat /\ order[o].sequence_id \in Nat
<1>1. o \in Objects /\ o \in 1 .. arrived /\ o # 0 /\ order[o].status # "REJECTED"
  BY EventEngineAssumption DEF Live, TypeOK, Objects
<1>2. order[o] \in Order
  BY <1>1 DEF TypeOK
<1> QED BY <1>1, <1>2 DEF TypeOK, Order

\* What a placement and its matches tell of order o does not change.
SameRecord(o) ==
    /\ order'[o].side = order[o].side /\ order'[o].type = order[o].type
    /\ order'[o].price = order[o].price /\ order'[o].timestamp = order[o].timestamp
    /\ order'[o].sequence_id = order[o].sequence_id
    /\ order'[o].remaining = order[o].remaining

\* The log is as it was, or has one event more that places and matches nothing.
QuietLog ==
    \/ UNCHANGED <<log, latest_sequence_>>
    \/ \E e \in Event : /\ e.type \notin {"ORDER_PLACED", "ORDER_MATCHED"}
                        /\ log' = Append(log, e) /\ latest_sequence_' = latest_sequence_ + 1

LEMMA QuietEvents ==
    ASSUME log \in Seq(Event), QuietLog
    PROVE  /\ Events("ORDER_PLACED", Len(log))' = Events("ORDER_PLACED", Len(log))
           /\ Events("ORDER_MATCHED", Len(log))' = Events("ORDER_MATCHED", Len(log))
           /\ \A ty : Events(ty, Len(log)) \subseteq 1 .. Len(log)
           /\ \A j \in 1 .. Len(log) : log'[j] = log[j] /\ LeftAfter(j, Len(log))' = LeftAfter(j, Len(log))
<1>1. CASE UNCHANGED <<log, latest_sequence_>>
  BY <1>1 DEF Events, LeftAfter, MatchesOf
<1>2. ASSUME NEW e \in Event, e.type \notin {"ORDER_PLACED", "ORDER_MATCHED"}, log' = Append(log, e)
      PROVE  /\ Events("ORDER_PLACED", Len(log))' = Events("ORDER_PLACED", Len(log))
             /\ Events("ORDER_MATCHED", Len(log))' = Events("ORDER_MATCHED", Len(log))
             /\ \A ty : Events(ty, Len(log)) \subseteq 1 .. Len(log)
             /\ \A j \in 1 .. Len(log) :
                  log'[j] = log[j] /\ LeftAfter(j, Len(log))' = LeftAfter(j, Len(log))
  <2>1. Events("ORDER_PLACED", Len(log))' = Events("ORDER_PLACED", Len(log))
    <3>1. e.type # "ORDER_PLACED"
      BY <1>2
    <3> QED BY <1>2, <3>1, EventsSame
  <2>2. Events("ORDER_MATCHED", Len(log))' = Events("ORDER_MATCHED", Len(log))
    <3>1. e.type # "ORDER_MATCHED"
      BY <1>2
    <3> QED BY <1>2, <3>1, EventsSame
  <2>3. \A j \in 1 .. Len(log) :
          log'[j] = log[j] /\ LeftAfter(j, Len(log))' = LeftAfter(j, Len(log))
    BY <1>2, LeftUntouched, LogAppended
  <2>4. \A ty : Events(ty, Len(log)) \subseteq 1 .. Len(log)
    BY DEF Events
  <2> QED BY <2>1, <2>2, <2>3, <2>4
<1> QED BY <1>1, <1>2 DEF QuietLog

LEMMA RecordQuiet ==
    ASSUME log \in Seq(Event), NEW h, RecordInv(h), QuietLog,
           Entered(h)' = Entered(h), \A o \in Entered(h) : SameRecord(o)
    PROVE  RecordInv(h)'
<1>1. /\ Events("ORDER_PLACED", Len(log))' = Events("ORDER_PLACED", Len(log))
      /\ Events("ORDER_MATCHED", Len(log))' = Events("ORDER_MATCHED", Len(log))
      /\ \A ty : Events(ty, Len(log)) \subseteq 1 .. Len(log)
      /\ \A j \in 1 .. Len(log) : log'[j] = log[j] /\ LeftAfter(j, Len(log))' = LeftAfter(j, Len(log))
  BY QuietEvents
<1>2. latest_sequence_' = Len(log)'
  <2>1. CASE UNCHANGED <<log, latest_sequence_>>
    BY <2>1 DEF RecordInv
  <2>2. ASSUME NEW e \in Event, log' = Append(log, e), latest_sequence_' = latest_sequence_ + 1
        PROVE  latest_sequence_' = Len(log)'
    BY <2>2, LogAppended DEF RecordInv
  <2> QED BY <2>1, <2>2 DEF QuietLog
<1>3. ASSUME NEW o \in Entered(h) PROVE Recorded(o)'
  <2> DEFINE j == order[o].sequence_id
  <2>1. Recorded(o) /\ SameRecord(o)
    BY <1>3 DEF RecordInv
  <2>2. j \in Events("ORDER_PLACED", Len(log)) /\ j \in 1 .. Len(log) /\ j = order'[o].sequence_id
    BY <1>1, <2>1 DEF Recorded, SameRecord
  <2>3. log'[j] = log[j] /\ LeftAfter(j, Len(log))' = LeftAfter(j, Len(log))
    BY <1>1, <2>2
  <2>4. LeftAfter(order[o].sequence_id, Len(log))' = LeftAfter(j, Len(log))'
    BY <2>2
  <2> QED BY <1>1, <2>1, <2>2, <2>3, <2>4 DEF Recorded, SameRecord
<1>4. \A j \in Events("ORDER_PLACED", Len(log))' :
        log'[j].order_id \in Entered(h)' /\ order'[log'[j].order_id].sequence_id = j
  BY <1>1 DEF RecordInv, SameRecord
<1>5. \A k \in Events("ORDER_MATCHED", Len(log))' :
         log'[k].taker \in Entered(h)' /\ log'[k].maker \in Entered(h)'
  BY <1>1 DEF RecordInv
<1> QED BY <1>2, <1>3, <1>4, <1>5 DEF RecordInv

LEMMA NumberedFields ==
    ASSUME NEW k
    PROVE  /\ \A n : /\ Numbered(OrderRejected(n), k).type = "ORDER_REJECTED"
                     /\ Numbered(OrderPlaced(n), k).type = "ORDER_PLACED"
                     /\ Numbered(OrderPlaced(n), k).order_id = n
                     /\ Numbered(OrderPlaced(n), k).side = order[n].side
                     /\ Numbered(OrderPlaced(n), k).order_type = order[n].type
                     /\ Numbered(OrderPlaced(n), k).price = order[n].price
                     /\ Numbered(OrderPlaced(n), k).quantity = order[n].quantity
           /\ \A t, m, p, q : /\ Numbered(OrderMatched(t, m, p, q), k).type = "ORDER_MATCHED"
                              /\ Numbered(OrderMatched(t, m, p, q), k).taker = t
                              /\ Numbered(OrderMatched(t, m, p, q), k).maker = m
                              /\ Numbered(OrderMatched(t, m, p, q), k).price = p
                              /\ Numbered(OrderMatched(t, m, p, q), k).quantity = q
                              /\ Numbered(OrderMatched(t, m, p, q), k).sequence_id = k
           /\ \A tr : /\ Numbered(TradeExecuted(tr), k).type = "TRADE_EXECUTED"
                      /\ Numbered(TradeExecuted(tr), k).trade = tr
BY DEF Numbered, OrderRejected, OrderPlaced, OrderMatched, TradeExecuted

\* Whether the log ends with a match is told by what is appended.
LEMMA LastAppended ==
    ASSUME log \in Seq(Event), NEW e \in Event, log' = Append(log, e)
    PROVE  LastMatched' <=> e.type = "ORDER_MATCHED"
BY LogAppended DEF LastMatched

LEMMA LogQuiet ==
    ASSUME log \in Seq(Event), LogInv, NEW e \in Event, log' = Append(log, e), ~LastMatched,
           e.type \notin {"ORDER_PLACED", "ORDER_MATCHED", "TRADE_EXECUTED"}
    PROVE  LogInv' /\ ~LastMatched'
<1>1. e.type # "ORDER_PLACED" /\ e.type # "ORDER_MATCHED" /\ e.type # "TRADE_EXECUTED"
  OBVIOUS
<1>2. DistinctIds /\ MatchesExplained /\ TradesFollowMatches
  BY DEF LogInv
<1>3. DistinctIds'
  BY <1>1, <1>2, DistinctQuiet
<1>4. MatchesExplained'
  BY <1>1, <1>2, ExplainedQuiet
<1>5. TradesFollowMatches'
  BY <1>1, <1>2, FollowQuiet
<1>6. ~LastMatched'
  BY <1>1, LastAppended
<1> QED BY <1>3, <1>4, <1>5, <1>6 DEF LogInv

\* The log is untouched.
LEMMA LogSame ==
    ASSUME UNCHANGED log
    PROVE  (LogInv => LogInv') /\ (LastMatched' <=> LastMatched)
<1>1. LastMatched' <=> LastMatched
  BY DEF LastMatched
<1>2. TradesFollowMatches => TradesFollowMatches'
  BY DEF TradesFollowMatches, Events
<1>3. DistinctIds => DistinctIds'
  BY DEF DistinctIds, Events
<1>4. \A j, k : LeftAfter(j, k)' = LeftAfter(j, k)
  BY DEF LeftAfter, MatchesOf, Events
<1>5. \A s, k : RestingAfter(s, k)' = RestingAfter(s, k)
  BY <1>4 DEF RestingAfter, Events
<1>6. \A ty, k : Events(ty, k)' = Events(ty, k)
  BY DEF Events
<1>7. \A t, m, k : Explained(t, m, k) => Explained(t, m, k)'
  BY <1>4, <1>5, <1>6 DEF Explained
<1>8. MatchesExplained => MatchesExplained'
  BY <1>6, <1>7 DEF MatchesExplained
<1> QED BY <1>1, <1>2, <1>3, <1>8 DEF LogInv

\* Those that rest are the same when nothing becomes of the orders, away from a turn of
\* the loop.
LEMMA BookQuiet ==
    ASSUME NEW h, BookInv(h), book' = book,
           (Live \ {taker[h]})' = Live \ {taker[h]},
           \A o \in Live \ {taker[h]} : SameRecord(o),
           pc[h] # "trade", pc'[h] # "trade"
    PROVE  BookInv(h)'
<1> SUFFICES ASSUME NEW s \in OrderSide PROVE Resting(h, s)' = Resting(h, s)
  BY DEF BookInv
<1> QED BY DEF Resting, SameRecord
-----------------------------------------------------------------------------
(* One lemma per action. *)

LEMMA ReplayReject ==
    ASSUME TypeOK, TypeOK', NEW h \in Handlers, ReplayInv(h), pc[h] = "idle",
           NEW n \in Objects, n \notin Live, NEW x, x.status = "REJECTED",
           order' = [order EXCEPT ![n] = x], arrived' = n, 1 .. n = (1 .. arrived) \cup {n},
           AppendEvent(OrderRejected(n)),
           UNCHANGED <<pc, taker, book, trade>>
    PROVE  ReplayInv(h)'
<1>1. LogInv /\ EngineInv(h) /\ log \in Seq(Event)
  BY DEF ReplayInv, TypeOK
<1> DEFINE e == Numbered(OrderRejected(n), latest_sequence_ + 1)
<1>2. /\ e \in Event /\ e.type = "ORDER_REJECTED" /\ log' = Append(log, e)
      /\ latest_sequence_' = latest_sequence_ + 1
  <2>1. latest_sequence_ + 1 \in Nat
    BY DEF TypeOK
  <2>2. e \in Event
    BY <2>1, EventsTyped
  <2>3. e.type = "ORDER_REJECTED"
    BY NumberedFields
  <2> QED BY <2>2, <2>3 DEF AppendEvent
<1> HIDE DEF e
<1>3. order'[n] = x /\ \A o \in Objects \ {n} : order'[o] = order[o]
  BY DEF TypeOK
<1>4. Live \subseteq Objects
  BY LiveTyped
<1>5. Live' = Live
  BY <1>3, <1>4 DEF Live
<1>6. \A o \in Live : SameRecord(o)
  BY <1>3, <1>4 DEF SameRecord
<1>7. Entered(h) \subseteq Live /\ Entered(h)' = Entered(h)
  BY <1>5 DEF Entered
<1>8. ~LastMatched
  BY <1>1 DEF EngineInv, HandInv
<1>9. LogInv' /\ ~LastMatched'
  BY <1>1, <1>2, <1>8, LogQuiet
<1>10. RecordInv(h)'
  <2>1. QuietLog
    BY <1>2 DEF QuietLog
  <2> QED BY <1>1, <1>6, <1>7, <2>1, RecordQuiet DEF EngineInv
<1>11. TakerInv(h)'
  BY <1>1 DEF EngineInv, TakerInv, Working
<1>12. HandInv(h)'
  BY <1>9 DEF HandInv
<1>13. BookInv(h)'
  BY <1>1, <1>5, <1>6, BookQuiet DEF EngineInv
<1> QED BY <1>9, <1>10, <1>11, <1>12, <1>13 DEF ReplayInv, EngineInv

LEMMA ReplayAccept ==
    ASSUME TypeOK, TypeOK', NEW h \in Handlers, ReplayInv(h), pc[h] = "idle",
           NEW n \in Objects, n \notin Live, NEW x \in Order, x.status = "PENDING",
           x.sequence_id = latest_sequence_ + 1, x.timestamp = latest_sequence_ + 1,
           x.remaining = x.quantity,
           order' = [order EXCEPT ![n] = x], arrived' = n, 1 .. n = (1 .. arrived) \cup {n},
           pc' = [pc EXCEPT ![h] = "placing"], taker' = [taker EXCEPT ![h] = n],
           UNCHANGED <<log, latest_sequence_, book, trade>>
    PROVE  ReplayInv(h)'
<1>1. LogInv /\ EngineInv(h) /\ log \in Seq(Event)
  BY DEF ReplayInv, TypeOK
<1>2. pc'[h] = "placing" /\ taker'[h] = n
  BY DEF TypeOK
<1>3. order'[n] = x /\ \A o \in Objects \ {n} : order'[o] = order[o]
  BY DEF TypeOK
<1>4. Live \subseteq Objects
  BY LiveTyped
<1>5. Live' = Live \cup {n}
  BY <1>3, <1>4 DEF Live
<1>6. \A o \in Live : SameRecord(o)
  BY <1>3, <1>4 DEF SameRecord
<1>7. Entered(h) \subseteq Live /\ Entered(h)' = Entered(h)
  BY <1>2, <1>5 DEF Entered
<1>8. LogInv' /\ ~LastMatched'
  BY <1>1, LogSame DEF EngineInv, HandInv
<1>9. RecordInv(h)'
  <2>1. QuietLog
    BY DEF QuietLog
  <2> QED BY <1>1, <1>6, <1>7, <2>1, RecordQuiet DEF EngineInv
<1>10. TakerInv(h)'
  <2>1. latest_sequence_ = Len(log)
    BY <1>1 DEF EngineInv, RecordInv
  <2> QED BY <1>2, <1>3, <1>5, <2>1 DEF TakerInv, Working
<1>11. HandInv(h)'
  BY <1>2, <1>8 DEF HandInv
<1>12. BookInv(h)'
  <2>1. taker[h] \notin Live
    <3>1. taker[h] = 0
      BY <1>1 DEF EngineInv, TakerInv, Working
    <3> QED BY <3>1, LiveTyped
  <2>2. (Live \ {taker[h]})' = Live \ {taker[h]}
    BY <1>2, <1>5, <2>1
  <2> QED BY <1>1, <1>2, <1>6, <2>2, BookQuiet DEF EngineInv
<1> QED BY <1>8, <1>9, <1>10, <1>11, <1>12 DEF ReplayInv, EngineInv

LEMMA ReplayProcessOrder ==
    ASSUME TypeOK, TypeOK', NEW h \in Handlers, ReplayInv(h), ProcessOrderEs(h)
    PROVE  ReplayInv(h)'
<1> DEFINE n == arrived + 1
<1>1. /\ n \in Objects /\ n \notin Live /\ arrived \in Nat
      /\ arrived' = n /\ pc[h] = "idle" /\ 1 .. n = (1 .. arrived) \cup {n}
      /\ UNCHANGED <<book, trade>>
  BY EventEngineAssumption DEF ProcessOrderEs, TypeOK, Objects, Live
<1>2. PICK new : /\ new \in Order /\ new.status = "PENDING" /\ new.remaining = new.quantity
                 /\ Accept(h, n, new)
  <2>1. PICK s \in OrderSide, ty \in Types, p \in Prices, q \in Quantities :
          Accept(h, n,
            [side |-> s, type |-> ty, status |-> "PENDING", price |-> p, quantity |-> q,
             filled |-> 0, remaining |-> q, timestamp |-> 0, sequence_id |-> 0])
    BY DEF ProcessOrderEs
  <2> DEFINE x == [side |-> s, type |-> ty, status |-> "PENDING", price |-> p,
                   quantity |-> q, filled |-> 0, remaining |-> q, timestamp |-> 0,
                   sequence_id |-> 0]
  <2>2. x \in Order /\ x.status = "PENDING" /\ x.remaining = x.quantity
    BY EventEngineAssumption DEF Order, OrderStatus
  <2> QED BY <2>1, <2>2
<1> HIDE DEF n
<1>3. CASE /\ order' = [order EXCEPT ![n] = [new EXCEPT !.status = "REJECTED"]]
           /\ AppendEvent(OrderRejected(n)) /\ UNCHANGED <<pc, taker>>
  <2>1. [new EXCEPT !.status = "REJECTED"].status = "REJECTED"
    BY <1>2 DEF Order
  <2> QED BY <1>1, <1>3, <2>1, ReplayReject
<1>4. CASE /\ order' = [order EXCEPT ![n] =
                [new EXCEPT !.sequence_id = latest_sequence_ + 1,
                            !.timestamp = SequenceToTimestamp(latest_sequence_ + 1)]]
           /\ pc' = [pc EXCEPT ![h] = "placing"] /\ taker' = [taker EXCEPT ![h] = n]
           /\ UNCHANGED storeVars
  <2> DEFINE q == latest_sequence_ + 1
             x == [new EXCEPT !.sequence_id = q, !.timestamp = q]
  <2>1. q \in Nat
    BY DEF TypeOK
  <2> HIDE DEF q
  <2>2. /\ x \in Order /\ x.status = "PENDING" /\ x.remaining = x.quantity
        /\ x.sequence_id = q /\ x.timestamp = q
    BY <1>2, <2>1 DEF Order
  <2> HIDE DEF x
  <2>3. order' = [order EXCEPT ![n] = x]
    BY <1>4 DEF x, q, SequenceToTimestamp
  <2>4. UNCHANGED <<log, latest_sequence_>>
    BY <1>4 DEF storeVars
  <2> QED BY <1>1, <1>4, <2>2, <2>3, <2>4, ReplayAccept DEF q
<1> QED BY <1>2, <1>3, <1>4 DEF Accept

LEMMA ReplayPlaceOrder ==
    ASSUME TypeOK, TypeOK', NEW h \in Handlers, ReplayInv(h), PlaceOrder(h)
    PROVE  ReplayInv(h)'
<1>t. PICK t : t = taker[h]
  OBVIOUS
<1>n. PICK n : n = Len(log) + 1
  OBVIOUS
<1>e. PICK e : e = Numbered(OrderPlaced(t), latest_sequence_ + 1)
  OBVIOUS
<1>1. /\ pc[h] = "placing" /\ pc'[h] = "match" /\ UNCHANGED <<order, arrived, book, taker, trade>>
      /\ log' = Append(log, e) /\ latest_sequence_' = latest_sequence_ + 1
  BY <1>t, <1>e DEF PlaceOrder, AppendEvent, TypeOK
<1>2. LogInv /\ EngineInv(h) /\ log \in Seq(Event)
  BY <1>1 DEF ReplayInv, TypeOK
<1>3. /\ t \in Live /\ order[t].status = "PENDING"
      /\ order[t].sequence_id = n /\ order[t].timestamp = n
      /\ order[t].remaining = order[t].quantity
  BY <1>1, <1>2, <1>t, <1>n DEF EngineInv, TakerInv, Working
<1>4. e \in Event /\ e.type = "ORDER_PLACED" /\ e.order_id = t /\ e.side = order[t].side
      /\ e.order_type = order[t].type /\ e.price = order[t].price /\ e.quantity = order[t].quantity
  <2>1. t \in Objects /\ latest_sequence_ + 1 \in Nat
    BY <1>3, LiveTyped DEF TypeOK
  <2>2. e \in Event
    BY <2>1, <1>e, EventsTyped
  <2> QED BY <2>2, <1>e, NumberedFields
<1>5. /\ Len(log) \in Nat /\ Len(log') = n /\ n \in Nat /\ n = Len(log) + 1 /\ log'[n] = e
      /\ \A i \in 1 .. Len(log) : log'[i] = log[i]
  BY <1>1, <1>2, <1>4, <1>n, LogAppended
<1>6. /\ Events("ORDER_PLACED", Len(log)) \subseteq 1 .. Len(log)
      /\ Events("ORDER_PLACED", Len(log))' = Events("ORDER_PLACED", Len(log)) \cup {n}
  <2>1. Events("ORDER_PLACED", Len(log)) \subseteq 1 .. Len(log)
    BY DEF Events
  <2> QED BY <1>1, <1>2, <1>4, <2>1, <1>n, EventsGrow
<1>7. /\ Events("ORDER_MATCHED", Len(log)) \subseteq 1 .. Len(log)
      /\ Events("ORDER_MATCHED", Len(log))' = Events("ORDER_MATCHED", Len(log))
  <2>1. e.type # "ORDER_MATCHED"
    BY <1>4
  <2>2. Events("ORDER_MATCHED", Len(log)) \subseteq 1 .. Len(log)
    BY DEF Events
  <2> QED BY <1>1, <1>2, <1>4, <2>1, <2>2, EventsSame
<1>8. Live' = Live /\ Entered(h) = Live \ {t} /\ Entered(h)' = Live
  BY <1>1, <1>t DEF Live, Entered
<1>9. ~LastMatched /\ ~LastMatched'
  <2>1. ~LastMatched
    BY <1>1, <1>2 DEF EngineInv, HandInv
  <2>2. e.type # "ORDER_MATCHED"
    BY <1>4
  <2> QED BY <1>1, <1>2, <1>4, <2>1, <2>2, LastAppended
<1>10. LogInv'
  <2>1. DistinctIds /\ MatchesExplained /\ TradesFollowMatches
    BY <1>2 DEF LogInv
  <2>2. \A j \in Events("ORDER_PLACED", Len(log)) : log[j].order_id # e.order_id
    BY <1>2, <1>4, <1>8 DEF EngineInv, RecordInv
  <2>3. DistinctIds'
    BY <1>1, <1>2, <1>4, <2>1, <2>2, DistinctQuiet
  <2>4. MatchesExplained'
    <3>1. e.type # "ORDER_MATCHED"
      BY <1>4
    <3> QED BY <1>1, <1>2, <1>4, <2>1, <3>1, ExplainedQuiet
  <2>5. TradesFollowMatches'
    <3>1. e.type # "TRADE_EXECUTED"
      BY <1>4
    <3> QED BY <1>1, <1>2, <1>4, <1>9, <2>1, <3>1, FollowQuiet
  <2> QED BY <2>3, <2>4, <2>5 DEF LogInv
<1>11. ASSUME NEW o \in Entered(h) PROVE Recorded(o)'
  <2>j. PICK j : j = order[o].sequence_id
    OBVIOUS
  <2>1. Recorded(o)
    BY <1>2, <1>11 DEF EngineInv, RecordInv
  <2>2. j \in Events("ORDER_PLACED", Len(log)) /\ j \in 1 .. Len(log) /\ j = order'[o].sequence_id
    BY <1>1, <1>6, <2>1, <2>j DEF Recorded
  <2>3. LeftAfter(j, Len(log))' = LeftAfter(j, Len(log))
    <3>1. e.type # "ORDER_MATCHED"
      BY <1>4
    <3> QED BY <1>1, <1>2, <1>4, <2>2, <3>1, LeftUntouched
  <2>4. LeftAfter(order[o].sequence_id, Len(log))' = LeftAfter(j, Len(log))'
    BY <2>2
  <2>5. log'[j] = log[j]
    BY <1>5, <2>2
  <2> QED BY <1>1, <1>6, <2>1, <2>2, <2>3, <2>4, <2>5, <2>j DEF Recorded
<1>12. Recorded(t)'
  <2>1. MatchesOf(n, Len(log))' = {}
    <3>1. \A k \in Events("ORDER_MATCHED", Len(log)) :
            log'[k] = log[k] /\ t \notin {log[k].taker, log[k].maker}
      BY <1>2, <1>5, <1>7, <1>8 DEF EngineInv, RecordInv
    <3> QED BY <1>4, <1>5, <1>7, <3>1 DEF MatchesOf
  <2>2. LeftAfter(n, Len(log))' = order[t].quantity
    <3>1. SumFunctionOnSet([m \in MatchesOf(n, Len(log))' |-> log'[m].quantity], {}) = 0
      BY SumEmpty
    <3>2. LeftAfter(n, Len(log))' = e.quantity - 0
      BY <1>5, <2>1, <3>1 DEF LeftAfter
    <3>3. order[t].quantity \in Int
      BY <1>3, LiveTyped
    <3> QED BY <1>4, <3>2, <3>3
  <2>3. LeftAfter(order[t].sequence_id, Len(log))' = LeftAfter(n, Len(log))'
    BY <1>1, <1>3
  <2> QED BY <1>1, <1>3, <1>4, <1>5, <1>6, <2>2, <2>3 DEF Recorded
<1>13. RecordInv(h)'
  <2>1. latest_sequence_' = Len(log')
    BY <1>1, <1>2, <1>5 DEF EngineInv, RecordInv
  <2>2. \A o \in Entered(h)' : Recorded(o)'
    BY <1>8, <1>11, <1>12
  <2>3. \A j \in Events("ORDER_PLACED", Len(log))' :
          log'[j].order_id \in Entered(h)' /\ order'[log'[j].order_id].sequence_id = j
    <3>1. \A j \in Events("ORDER_PLACED", Len(log)) :
            /\ log'[j] = log[j] /\ log[j].order_id \in Live
            /\ order[log[j].order_id].sequence_id = j
      BY <1>2, <1>5, <1>6, <1>8 DEF EngineInv, RecordInv
    <3> QED BY <1>1, <1>3, <1>4, <1>5, <1>6, <1>8, <3>1
  <2>4. \A k \in Events("ORDER_MATCHED", Len(log))' :
          log'[k].taker \in Entered(h)' /\ log'[k].maker \in Entered(h)'
    BY <1>2, <1>5, <1>7, <1>8 DEF EngineInv, RecordInv
  <2> QED BY <2>1, <2>2, <2>3, <2>4 DEF RecordInv
<1>14. TakerInv(h)'
  <2>1. \A j \in Events("ORDER_PLACED", Len(log))' : j <= order'[t].sequence_id
    BY <1>1, <1>3, <1>5, <1>6
  <2>2. taker'[h] = t
    BY <1>1, <1>t
  <2> QED BY <1>1, <1>3, <1>8, <2>1, <2>2 DEF TakerInv, Working
<1>15. HandInv(h)'
  BY <1>1, <1>9 DEF HandInv
<1>16. BookInv(h)'
  <2>1. \A o \in Live : SameRecord(o)
    BY <1>1 DEF SameRecord
  <2>2. (Live \ {taker[h]})' = Live \ {taker[h]}
    BY <1>1, <1>8
  <2> QED BY <1>1, <1>2, <2>1, <2>2, BookQuiet DEF EngineInv
<1> QED BY <1>10, <1>13, <1>14, <1>15, <1>16 DEF ReplayInv, EngineInv

\* A match the engine makes is the one price-time priority demands of the log.
LEMMA NewExplained ==
    ASSUME TypeOK, NEW h \in Handlers, EngineInv(h), pc[h] = "match", NEW t, t = taker[h],
           NEW r \in Objects, IsBest(Opposite(order[t].side), r),
           CanMatchDeterministic(order[t], order[r]),
           NEW e \in Event, log' = Append(log, e), e.type = "ORDER_MATCHED",
           e.taker = t, e.maker = r, e.price = order[r].price,
           e.quantity = MinOf(order[t].remaining, order[r].remaining),
           NEW n, n = Len(log) + 1
    PROVE  \E a, b \in 1 .. n : Explained(a, b, n)'
<1>1. /\ t \in Live /\ order[t].status = "PENDING"
      /\ \A j \in Events("ORDER_PLACED", Len(log)) : j <= order[t].sequence_id
  BY DEF EngineInv, TakerInv, Working
<1>s. PICK s : s = Opposite(order[t].side)
  OBVIOUS
<1>2. /\ s \in OrderSide /\ s # order[t].side /\ order[t].side \in OrderSide
      /\ order[t].price \in Int
  BY <1>1, <1>s, LiveTyped DEF Opposite, OrderSide
<1>3. r \in Live \ {t} /\ order[r].side = s /\ order[r].type = "LIMIT" /\ order[r].remaining > 0
      /\ \A p \in book[s] : ~KeyBefore(order[p], order[r])
  BY <1>2, <1>s DEF IsBest, EngineInv, BookInv, Resting
<1>4. Entered(h) = Live
  BY DEF Entered
<1>a. PICK a : a = order[t].sequence_id
  OBVIOUS
<1>b. PICK b : b = order[r].sequence_id
  OBVIOUS
<1>5. Recorded(t) /\ Recorded(r)
  BY <1>1, <1>3, <1>4 DEF EngineInv, RecordInv
<1>6. /\ a \in Events("ORDER_PLACED", Len(log)) /\ log[a].order_id = t /\ log[a].side = order[t].side
      /\ log[a].price = order[t].price /\ LeftAfter(a, Len(log)) = order[t].remaining
  BY <1>5, <1>a DEF Recorded
<1>7. /\ b \in Events("ORDER_PLACED", Len(log)) /\ log[b].order_id = r /\ log[b].side = s
      /\ log[b].price = order[r].price /\ LeftAfter(b, Len(log)) = order[r].remaining
      /\ log[b].order_type = "LIMIT" /\ order[r].timestamp = b
  BY <1>5, <1>3, <1>b DEF Recorded
<1>8. /\ Len(log) \in Nat /\ Len(log') = n /\ n - 1 = Len(log) /\ log'[n] = e
      /\ \A i \in 1 .. Len(log) : log'[i] = log[i]
      /\ Events("ORDER_PLACED", Len(log)) \subseteq 1 .. Len(log)
  BY LogAppended DEF TypeOK, Events
<1>9. Events("ORDER_PLACED", n)' = Events("ORDER_PLACED", Len(log))
  <2>1. e.type # "ORDER_PLACED"
    OBVIOUS
  <2>2. Events("ORDER_PLACED", Len(log))' = Events("ORDER_PLACED", Len(log))
    BY <2>1, EventsSame DEF TypeOK
  <2> QED BY <1>8, <2>2
<1>10. a \in 1 .. Len(log) /\ b \in 1 .. Len(log) /\ log'[a] = log[a] /\ log'[b] = log[b]
       /\ a \in 1 .. n /\ b \in 1 .. n
  BY <1>6, <1>7, <1>8
<1>11. LeftAfter(a, n - 1)' = order[t].remaining /\ LeftAfter(b, n - 1)' = order[r].remaining
  <2>1. /\ LeftAfter(a, n - 1)' = LeftAfter(a, n - 1)
        /\ LeftAfter(b, n - 1)' = LeftAfter(b, n - 1)
    BY <1>8, <1>10, LeftKept DEF TypeOK
  <2> QED BY <1>6, <1>7, <1>8, <2>1
<1>13. b \in RestingAfter(s, Len(log))
  BY <1>3, <1>7 DEF RestingAfter
<1>14. ASSUME NEW j \in RestingAfter(s, Len(log)), j # b
       PROVE  /\ log'[j] = log[j]
              /\ \/ PriceBetter(s, log[b].price, log[j].price)
                 \/ log[b].price = log[j].price /\ b < j
  <2>1. /\ j \in Events("ORDER_PLACED", Len(log)) /\ log[j].side = s
        /\ log[j].order_type = "LIMIT" /\ LeftAfter(j, Len(log)) > 0
    BY DEF RestingAfter
  <2>o. PICK o : o = log[j].order_id
    OBVIOUS
  <2>2. o \in Live /\ order[o].sequence_id = j
    BY <1>4, <2>1, <2>o DEF EngineInv, RecordInv
  <2>3. /\ order[o].side = s /\ order[o].type = "LIMIT" /\ order[o].price = log[j].price
        /\ order[o].timestamp = j /\ order[o].remaining > 0
    BY <1>4, <2>1, <2>2 DEF EngineInv, RecordInv, Recorded
  <2>4. o \in book[s]
    BY <1>2, <2>2, <2>3 DEF EngineInv, BookInv, Resting
  <2>5. ~KeyBefore(order[o], order[r])
    BY <1>3, <2>4
  <2>6. order[o].price \in Int /\ order[r].price \in Int /\ j \in Int /\ b \in Int
    BY <1>3, <1>8, <1>10, <2>1, <2>2, LiveTyped
  <2>7. /\ ~PriceBetter(s, order[o].price, order[r].price)
        /\ order[o].price = order[r].price => ~(j < b)
    BY <1>7, <2>3, <2>5 DEF KeyBefore
  <2>8. log'[j] = log[j]
    BY <1>8, <2>1
  <2> QED BY <1>7, <2>3, <2>6, <2>7, <2>8, <1>14 DEF PriceBetter
<1>15. ~PriceBetter(order[t].side, order[r].price, order[t].price)
  <2>1. order[r].price \in Int
    BY <1>3, LiveTyped
  <2> QED BY <1>2, <2>1 DEF CanMatchDeterministic, PriceBetter
<1>16. RestingAfter(Opposite(log[a].side), n - 1)' = RestingAfter(s, Len(log))
  <2>1. \A x : RestingAfter(x, n - 1)' = RestingAfter(x, n - 1)
    BY <1>8, RestingKept DEF TypeOK
  <2>2. Opposite(log[a].side)' = s
    BY <1>6, <1>10, <1>s
  <2> QED BY <1>8, <2>1, <2>2
<1>17. \A i \in Events("ORDER_PLACED", n)' : i <= a
  BY <1>1, <1>9, <1>a
<1>18. ASSUME NEW j \in RestingAfter(Opposite(log[a].side), n - 1)' \ {b}
       PROVE  \/ PriceBetter(log'[b].side, log'[b].price, log'[j].price)
              \/ log'[b].price = log'[j].price /\ b < j
  <2>1. j \in RestingAfter(s, Len(log)) /\ j # b
    BY <1>16
  <2>2. log'[j] = log[j] /\ log'[b] = log[b] /\ log[b].side = s
    BY <1>7, <1>10, <1>14, <2>1
  <2> QED BY <1>14, <2>1, <2>2
<1>19. Explained(a, b, n)'
  <2>1. /\ a \in Events("ORDER_PLACED", n)' /\ b \in Events("ORDER_PLACED", n)'
        /\ log'[b].order_id = log'[n].maker /\ log'[n].taker = log'[a].order_id
        /\ log'[n].price = log'[b].price
    BY <1>6, <1>7, <1>8, <1>9, <1>10
  <2>2. b \in RestingAfter(Opposite(log[a].side), n - 1)'
    BY <1>13, <1>16
  <2>3. \A j \in RestingAfter(Opposite(log[a].side), n - 1)' \ {b} :
           \/ PriceBetter(log'[b].side, log'[b].price, log'[j].price)
           \/ log'[b].price = log'[j].price /\ b < j
    BY <1>18
  <2>4. ~PriceBetter(log'[a].side, log'[n].price, log'[a].price)
    BY <1>6, <1>8, <1>10, <1>15
  <2>5. log'[n].quantity = MinOf(LeftAfter(a, n - 1)', LeftAfter(b, n - 1)')
    BY <1>8, <1>11
  <2> QED BY <1>17, <2>1, <2>2, <2>3, <2>4, <2>5 DEF Explained
<1> QED BY <1>10, <1>19

\* A fill takes a quantity off what is left of an order and leaves what is fixed of it.
LEMMA FillFields ==
    ASSUME TypeOK, NEW o \in Objects, NEW qty \in Int
    PROVE  /\ Fill(o, qty).remaining = order[o].remaining - qty
           /\ Fill(o, qty).side = order[o].side /\ Fill(o, qty).type = order[o].type
           /\ Fill(o, qty).price = order[o].price /\ Fill(o, qty).status = order[o].status
           /\ Fill(o, qty).timestamp = order[o].timestamp
           /\ Fill(o, qty).sequence_id = order[o].sequence_id
<1>1. order[o] \in Order
  BY DEF TypeOK
<1> QED BY <1>1 DEF Fill, Order

\* What a match makes of the orders: qty less is left of the two it is between.
Matched(t, r, qty) ==
    \A o \in Objects :
        /\ order'[o].side = order[o].side /\ order'[o].type = order[o].type
        /\ order'[o].price = order[o].price /\ order'[o].status = order[o].status
        /\ order'[o].timestamp = order[o].timestamp
        /\ order'[o].sequence_id = order[o].sequence_id
        /\ order'[o].remaining =
             IF o \in {t, r} THEN order[o].remaining - qty ELSE order[o].remaining

LEMMA MatchedBy ==
    ASSUME TypeOK, NEW t \in Objects, NEW r \in Objects, t # r, NEW qty \in Int,
           order' = [order EXCEPT ![t] = Fill(t, qty), ![r] = Fill(r, qty)]
    PROVE  Matched(t, r, qty)
<1> SUFFICES ASSUME NEW o \in Objects
             PROVE  /\ order'[o].side = order[o].side /\ order'[o].type = order[o].type
                    /\ order'[o].price = order[o].price /\ order'[o].status = order[o].status
                    /\ order'[o].timestamp = order[o].timestamp
                    /\ order'[o].sequence_id = order[o].sequence_id
                    /\ order'[o].remaining =
                         IF o \in {t, r} THEN order[o].remaining - qty ELSE order[o].remaining
  BY DEF Matched
<1>1. order'[o] = IF o \in {t, r} THEN Fill(o, qty) ELSE order[o]
  BY DEF TypeOK
<1> QED BY <1>1, FillFields

\* The match in the log takes off each order what the fill takes.
LEMMA RecordMatch ==
    ASSUME TypeOK, NEW h, RecordInv(h), Entered(h) = Live, Entered(h)' = Live,
           NEW t \in Live, NEW r \in Live, NEW qty \in Int, Matched(t, r, qty),
           NEW e \in Event, log' = Append(log, e), latest_sequence_' = latest_sequence_ + 1,
           e.type = "ORDER_MATCHED", e.taker = t, e.maker = r, e.quantity = qty
    PROVE  RecordInv(h)'
<1>n. PICK n : n = Len(log) + 1
  OBVIOUS
<1>1. /\ Len(log) \in Nat /\ Len(log') = n /\ log'[n] = e
      /\ \A i \in 1 .. Len(log) : log'[i] = log[i]
      /\ \A ty : Events(ty, Len(log)) \subseteq 1 .. Len(log)
  BY <1>n, LogAppended DEF TypeOK, Events
<1>2. Events("ORDER_PLACED", Len(log))' = Events("ORDER_PLACED", Len(log))
  <2>1. e.type # "ORDER_PLACED"
    OBVIOUS
  <2> QED BY <2>1, EventsSame DEF TypeOK
<1>3. Events("ORDER_MATCHED", Len(log))' = Events("ORDER_MATCHED", Len(log)) \cup {n}
  BY <1>n, EventsGrow DEF TypeOK
<1>4. latest_sequence_' = Len(log')
  BY <1>1, <1>n DEF RecordInv
<1>5. ASSUME NEW o \in Live PROVE Recorded(o)'
  <2>j. PICK j : j = order[o].sequence_id
    OBVIOUS
  <2>1. Recorded(o) /\ o \in Objects
    BY LiveTyped DEF RecordInv
  <2>2. j \in Events("ORDER_PLACED", Len(log)) /\ j \in 1 .. Len(log) /\ j = order'[o].sequence_id
        /\ log[j].order_id = o /\ LeftAfter(j, Len(log)) = order[o].remaining
    BY <1>1, <2>1, <2>j DEF Recorded, Matched
  <2>3. LeftAfter(j, Len(log))' = order'[o].remaining
    <3>1. CASE o \in {t, r}
      <4>1. log[j].type = "ORDER_PLACED"
        BY <2>2 DEF Events
      <4>2. LeftAfter(j, Len(log))' = LeftAfter(j, Len(log)) - e.quantity
        BY <2>2, <3>1, <4>1, LeftReduced DEF TypeOK
      <4> QED BY <2>1, <2>2, <3>1, <4>2 DEF Matched
    <3>2. CASE o \notin {t, r}
      <4>1. LeftAfter(j, Len(log))' = LeftAfter(j, Len(log))
        BY <2>2, <3>2, LeftUntouched DEF TypeOK
      <4> QED BY <2>1, <2>2, <3>2, <4>1 DEF Matched
    <3> QED BY <3>1, <3>2
  <2>4. LeftAfter(order[o].sequence_id, Len(log))' = LeftAfter(j, Len(log))'
    BY <2>2
  <2>5. log'[j] = log[j]
    BY <1>1, <2>2
  <2>6. /\ order'[o].side = order[o].side /\ order'[o].type = order[o].type
        /\ order'[o].price = order[o].price /\ order'[o].timestamp = order[o].timestamp
    BY <2>1 DEF Matched
  <2> QED BY <1>2, <2>1, <2>2, <2>3, <2>4, <2>5, <2>6, <2>j DEF Recorded
<1>6. ASSUME NEW j \in Events("ORDER_PLACED", Len(log))'
      PROVE  log'[j].order_id \in Entered(h)' /\ order'[log'[j].order_id].sequence_id = j
  <2>1. j \in Events("ORDER_PLACED", Len(log)) /\ log'[j] = log[j]
    BY <1>1, <1>2
  <2>2. log[j].order_id \in Live /\ order[log[j].order_id].sequence_id = j
    BY <2>1 DEF RecordInv
  <2>3. log[j].order_id \in Objects
    BY <2>2, LiveTyped
  <2> QED BY <2>1, <2>2, <2>3 DEF Matched
<1>7. \A k \in Events("ORDER_MATCHED", Len(log))' :
        log'[k].taker \in Entered(h)' /\ log'[k].maker \in Entered(h)'
  BY <1>1, <1>3 DEF RecordInv
<1> QED BY <1>4, <1>5, <1>6, <1>7 DEF RecordInv

LEMMA ReplayMatch ==
    ASSUME TypeOK, TypeOK', NEW h \in Handlers, ReplayInv(h), NEW r \in Objects, Match(h, r)
    PROVE  ReplayInv(h)'
<1>t. PICK t : t = taker[h]
  OBVIOUS
<1>q. PICK qty : qty = MinOf(order[t].remaining, order[r].remaining)
  OBVIOUS
<1>e. PICK e : e = Numbered(OrderMatched(t, r, order[r].price, qty), latest_sequence_ + 1)
  OBVIOUS
<1>1. /\ pc[h] = "match" /\ pc'[h] = "trade" /\ UNCHANGED <<arrived, book, taker>>
      /\ log' = Append(log, e) /\ latest_sequence_' = latest_sequence_ + 1
      /\ order' = [order EXCEPT ![t] = Fill(t, qty), ![r] = Fill(r, qty)]
      /\ trade'[h] = NewTrade(t, r, qty)
      /\ IsBest(Opposite(order[t].side), r) /\ CanMatchDeterministic(order[t], order[r])
  BY <1>t, <1>q, <1>e DEF Match, Meets, AppendEvent, TypeOK
<1>2. LogInv /\ EngineInv(h) /\ log \in Seq(Event)
  BY <1>1 DEF ReplayInv, TypeOK
<1>3. /\ t \in Live /\ order[t].status = "PENDING"
      /\ \A j \in Events("ORDER_PLACED", Len(log)) : j <= order[t].sequence_id
  BY <1>1, <1>2, <1>t DEF EngineInv, TakerInv, Working
<1>4. /\ Opposite(order[t].side) \in OrderSide
      /\ r \in book[Opposite(order[t].side)] /\ r \in Live /\ r # t
      /\ order[r].side = Opposite(order[t].side) /\ order[r].type = "LIMIT"
  <2>1. Opposite(order[t].side) \in OrderSide
    BY <1>3, LiveTyped DEF Opposite, OrderSide
  <2>2. r \in Resting(h, Opposite(order[t].side)) /\ r \in book[Opposite(order[t].side)]
    BY <1>1, <1>2, <2>1 DEF IsBest, EngineInv, BookInv
  <2> QED BY <1>t, <2>1, <2>2 DEF Resting
<1>5. /\ qty \in Int /\ t \in Objects /\ order[r].price \in Int /\ latest_sequence_ + 1 \in Nat
      /\ latest_sequence_ = Len(log)
  <2>1. order[t].remaining \in Int /\ order[r].remaining \in Int
    BY <1>3, <1>4, LiveTyped
  <2>2. t \in Objects /\ order[r].price \in Int
    BY <1>3, <1>4, LiveTyped
  <2>3. qty \in Int
    BY <1>q, <2>1, MinOfSpec
  <2>4. latest_sequence_ + 1 \in Nat
    BY DEF TypeOK
  <2>5. latest_sequence_ = Len(log)
    BY <1>2 DEF EngineInv, RecordInv
  <2> QED BY <2>2, <2>3, <2>4, <2>5
<1>6. /\ e \in Event /\ e.type = "ORDER_MATCHED" /\ e.taker = t /\ e.maker = r
      /\ e.price = order[r].price /\ e.quantity = qty /\ e.sequence_id = latest_sequence_ + 1
  <2>1. e \in Event
    BY <1>5, <1>e, EventsTyped
  <2> QED BY <2>1, <1>e, NumberedFields
<1>7. Matched(t, r, qty)
  BY <1>1, <1>4, <1>5, MatchedBy
<1>8. Live' = Live /\ Entered(h) = Live /\ Entered(h)' = Live
  <2>1. Live' = Live
    <3>1. \A o \in 1 .. arrived : o \in Objects
      BY EventEngineAssumption DEF TypeOK, Objects
    <3> QED BY <1>1, <1>7, <3>1 DEF Live, Matched
  <2> QED BY <1>1, <2>1 DEF Entered
<1>9. RecordInv(h)'
  BY <1>1, <1>2, <1>3, <1>4, <1>5, <1>6, <1>7, <1>8, RecordMatch DEF EngineInv
<1>10. LogInv' /\ LastMatched'
  <2>1. DistinctIds /\ MatchesExplained /\ TradesFollowMatches /\ ~LastMatched
    BY <1>1, <1>2 DEF LogInv, EngineInv, HandInv
  <2>2. DistinctIds'
    <3>1. e.type # "ORDER_PLACED"
      BY <1>6
    <3> QED BY <1>1, <1>2, <1>6, <2>1, <3>1, DistinctQuiet
  <2>3. TradesFollowMatches'
    <3>1. e.type # "TRADE_EXECUTED"
      BY <1>6
    <3> QED BY <1>1, <1>2, <1>6, <2>1, <3>1, FollowQuiet
  <2>n. PICK n : n = Len(log) + 1
    OBVIOUS
  <2>4. Events("ORDER_MATCHED", Len(log))' = Events("ORDER_MATCHED", Len(log)) \cup {n}
        /\ Events("ORDER_MATCHED", Len(log)) \subseteq 1 .. Len(log)
    <3>1. Events("ORDER_MATCHED", Len(log)) \subseteq 1 .. Len(log)
      BY DEF Events
    <3> QED BY <1>1, <1>2, <1>6, <2>n, <3>1, EventsGrow
  <2>5. \E a, b \in 1 .. n : Explained(a, b, n)'
    <3>1. e.quantity = MinOf(order[t].remaining, order[r].remaining)
      BY <1>6, <1>q
    <3> QED BY <1>1, <1>2, <1>6, <1>t, <2>n, <3>1, NewExplained
  <2>6. \A k \in Events("ORDER_MATCHED", Len(log)) : \E a, b \in 1 .. k : Explained(a, b, k)'
    BY <1>1, <1>2, <1>6, <2>1, <2>4, ExplainedKept DEF MatchesExplained
  <2>7. MatchesExplained'
    BY <2>4, <2>5, <2>6 DEF MatchesExplained
  <2>8. LastMatched'
    BY <1>1, <1>2, <1>6, LastAppended
  <2> QED BY <2>2, <2>3, <2>7, <2>8 DEF LogInv
<1>11. TakerInv(h)'
  <2>1. Events("ORDER_PLACED", Len(log))' = Events("ORDER_PLACED", Len(log))
    <3>1. e.type # "ORDER_PLACED"
      BY <1>6
    <3> QED BY <1>1, <1>2, <1>6, <3>1, EventsSame
  <2>2. order'[t].sequence_id = order[t].sequence_id /\ order'[t].status = "PENDING"
    BY <1>3, <1>5, <1>7 DEF Matched
  <2>3. taker'[h] = t
    BY <1>1, <1>t
  <2> QED BY <1>1, <1>3, <1>8, <2>1, <2>2, <2>3 DEF TakerInv, Working
<1>12. trade'[h].is_taker_buy \in BOOLEAN /\ Maker(h)' = r /\ Reports(NewTrade(t, r, qty), e)
  <2>1. NewTrade(t, r, qty).is_taker_buy <=> order[t].side = "BUY"
    BY DEF NewTrade
  <2>2. /\ NewTrade(t, r, qty).buy = (IF order[t].side = "BUY" THEN t ELSE r)
        /\ NewTrade(t, r, qty).sell = (IF order[t].side = "BUY" THEN r ELSE t)
        /\ NewTrade(t, r, qty).price = order[r].price /\ NewTrade(t, r, qty).quantity = qty
        /\ NewTrade(t, r, qty).sequence_id = latest_sequence_ + 1
    BY DEF NewTrade, TradeSequence
  <2>3. Maker(h)' = r
    BY <1>1, <2>1, <2>2 DEF Maker
  <2>4. Reports(NewTrade(t, r, qty), e)
    BY <1>4, <1>6, <2>1, <2>2 DEF Reports
  <2>5. trade'[h].is_taker_buy \in BOOLEAN
    BY <1>1 DEF NewTrade
  <2> QED BY <2>3, <2>4, <2>5
<1>13. HandInv(h)'
  <2>1. log'[Len(log')] = e
    BY <1>1, <1>2, <1>6, LogAppended
  <2>2. order'[taker'[h]].side = order[t].side
    <3>1. taker'[h] = t
      BY <1>1, <1>t
    <3>2. order'[t].side = order[t].side
      BY <1>5, <1>7 DEF Matched
    <3> QED BY <3>1, <3>2
  <2>3. Maker(h)' \in book'[Opposite(order'[taker'[h]].side)]
    BY <1>1, <1>4, <1>12, <2>2
  <2>4. Reports(trade'[h], log'[Len(log')])
    BY <1>1, <1>12, <2>1
  <2>5. log'[Len(log')].taker = taker'[h] /\ log'[Len(log')].maker = Maker(h)'
    BY <1>1, <1>6, <1>12, <1>t, <2>1
  <2> QED BY <1>1, <1>10, <2>3, <2>4, <2>5 DEF HandInv, Reports
<1>14. BookInv(h)'
  <2> SUFFICES ASSUME NEW s \in OrderSide PROVE book'[s] = Resting(h, s)'
    BY DEF BookInv
  <2>1. book'[s] = Resting(h, s)
    BY <1>1, <1>2 DEF EngineInv, BookInv
  <2>2. ASSUME NEW o \in Live \ {t}
        PROVE  /\ order'[o].side = order[o].side /\ order'[o].type = order[o].type
               /\ o # r => order'[o].remaining = order[o].remaining
    <3>1. o \in Objects
      BY LiveTyped
    <3> QED BY <1>7, <3>1 DEF Matched
  <2>3. order[r].remaining > 0
    BY <1>1, <1>2, <1>4 DEF EngineInv, BookInv, Resting
  <2>4. Resting(h, s)' =
          {o \in Live \ {t} : /\ order'[o].side = s /\ order'[o].type = "LIMIT"
                              /\ order'[o].remaining > 0 \/ o = r}
    BY <1>1, <1>8, <1>12, <1>t DEF Resting
  <2>5. Resting(h, s) =
          {o \in Live \ {t} : /\ order[o].side = s /\ order[o].type = "LIMIT"
                              /\ order[o].remaining > 0}
    BY <1>1, <1>t DEF Resting
  <2>6. Resting(h, s)' = Resting(h, s)
    BY <1>4, <2>2, <2>3, <2>4, <2>5
  <2> QED BY <2>1, <2>6
<1> QED BY <1>9, <1>10, <1>11, <1>13, <1>14 DEF ReplayInv, EngineInv

LEMMA ReplayReportTrade ==
    ASSUME TypeOK, TypeOK', NEW h \in Handlers, ReplayInv(h), ReportTrade(h)
    PROVE  ReplayInv(h)'
<1>t. PICK t : t = taker[h]
  OBVIOUS
<1>r. PICK r : r = Maker(h)
  OBVIOUS
<1>e. PICK e : e = Numbered(TradeExecuted(trade[h]), latest_sequence_ + 1)
  OBVIOUS
<1>1. /\ pc[h] = "trade" /\ UNCHANGED <<order, arrived, taker>>
      /\ log' = Append(log, e) /\ latest_sequence_' = latest_sequence_ + 1
      /\ pc'[h] = (IF order[t].type \in {"IOC", "FOK"} THEN "done" ELSE "match")
      /\ book' = IF order[r].remaining = 0 THEN [book EXCEPT ![order[r].side] = @ \ {r}] ELSE book
  BY <1>t, <1>r, <1>e DEF ReportTrade, AppendEvent, TypeOK
<1>2. LogInv /\ EngineInv(h) /\ log \in Seq(Event)
  BY <1>1 DEF ReplayInv, TypeOK
<1>3. /\ t \in Live /\ order[t].status = "PENDING"
      /\ \A j \in Events("ORDER_PLACED", Len(log)) : j <= order[t].sequence_id
  BY <1>1, <1>2, <1>t DEF EngineInv, TakerInv, Working
<1>4. /\ r \in Live /\ r # t /\ order[r].type = "LIMIT" /\ order[r].side \in OrderSide
  <2>1. Opposite(order[t].side) \in OrderSide
    BY <1>3, LiveTyped DEF Opposite, OrderSide
  <2>2. r \in Resting(h, Opposite(order[t].side))
    BY <1>1, <1>2, <1>r, <1>t, <2>1 DEF EngineInv, HandInv, BookInv
  <2>3. r \in Live /\ r # t /\ order[r].type = "LIMIT"
    BY <1>t, <2>2 DEF Resting
  <2> QED BY <2>3, LiveTyped
<1>5. e \in Event /\ e.type = "TRADE_EXECUTED" /\ e.trade = trade[h]
  <2>1. trade[h] \in Trade /\ latest_sequence_ + 1 \in Nat /\ r \in Objects
    BY <1>4, LiveTyped DEF TypeOK
  <2>2. e \in Event
    BY <2>1, <1>e, EventsTyped
  <2> QED BY <2>2, <1>e, NumberedFields
<1>6. e.type # "ORDER_PLACED" /\ e.type # "ORDER_MATCHED" /\ pc'[h] # "trade" /\ pc'[h] # "placing"
      /\ pc'[h] \in Working /\ pc'[h] # "down" /\ (pc'[h] = "done" => order[t].type # "LIMIT")
  BY <1>1, <1>5 DEF Working
<1>7. Live' = Live /\ Entered(h) = Live /\ Entered(h)' = Live
  BY <1>1, <1>6 DEF Live, Entered
<1>8. RecordInv(h)'
  <2>1. QuietLog
    BY <1>1, <1>5, <1>6 DEF QuietLog
  <2>2. \A o \in Entered(h) : SameRecord(o)
    BY <1>1 DEF SameRecord
  <2> QED BY <1>2, <1>7, <2>1, <2>2, RecordQuiet DEF EngineInv
<1>9. LogInv' /\ ~LastMatched'
  <2>1. DistinctIds /\ MatchesExplained /\ TradesFollowMatches
        /\ LastMatched /\ Reports(e.trade, log[Len(log)])
    BY <1>1, <1>2, <1>5 DEF LogInv, EngineInv, HandInv
  <2>2. DistinctIds'
    BY <1>1, <1>2, <1>5, <1>6, <2>1, DistinctQuiet
  <2>3. MatchesExplained'
    BY <1>1, <1>2, <1>5, <1>6, <2>1, ExplainedQuiet
  <2>4. TradesFollowMatches'
    BY <1>1, <1>2, <1>5, <2>1, FollowQuiet
  <2>5. ~LastMatched'
    BY <1>1, <1>2, <1>5, <1>6, LastAppended
  <2> QED BY <2>2, <2>3, <2>4, <2>5 DEF LogInv
<1>10. TakerInv(h)'
  <2>1. Events("ORDER_PLACED", Len(log))' = Events("ORDER_PLACED", Len(log))
    BY <1>1, <1>2, <1>5, <1>6, EventsSame
  <2>2. taker'[h] = t
    BY <1>1, <1>t
  <2> QED BY <1>1, <1>3, <1>6, <1>7, <2>1, <2>2 DEF TakerInv
<1>11. HandInv(h)'
  BY <1>6, <1>9 DEF HandInv
<1>12. BookInv(h)'
  <2> SUFFICES ASSUME NEW s \in OrderSide PROVE book'[s] = Resting(h, s)'
    BY DEF BookInv
  <2>1. book[s] = {o \in Live \ {t} : /\ order[o].side = s /\ order[o].type = "LIMIT"
                                      /\ order[o].remaining > 0 \/ o = r}
    BY <1>1, <1>2, <1>r, <1>t DEF EngineInv, BookInv, Resting
  <2>2. Resting(h, s)' = {o \in Live \ {t} : /\ order[o].side = s /\ order[o].type = "LIMIT"
                                             /\ order[o].remaining > 0}
    BY <1>1, <1>6, <1>7, <1>t DEF Resting
  <2>3. order[r].remaining \in Int /\ order[r].remaining >= 0
    BY <1>4, LiveTyped
  <2>4. CASE order[r].remaining = 0
    <3>1. book'[s] = IF s = order[r].side THEN book[s] \ {r} ELSE book[s]
      BY <1>1, <1>4, <2>4 DEF TypeOK
    <3> QED BY <2>1, <2>2, <2>4, <3>1
  <2>5. CASE order[r].remaining # 0
    <3>1. book'[s] = book[s] /\ order[r].remaining > 0
      BY <1>1, <2>3, <2>5
    <3> QED BY <2>1, <2>2, <3>1
  <2> QED BY <2>4, <2>5
<1> QED BY <1>8, <1>9, <1>10, <1>11, <1>12 DEF ReplayInv, EngineInv

LEMMA ReplayFinishOrder ==
    ASSUME TypeOK, TypeOK', NEW h \in Handlers, ReplayInv(h), FinishOrder(h)
    PROVE  ReplayInv(h)'
<1>t. PICK t : t = taker[h]
  OBVIOUS
<1>x. PICK x : x = [order[t] EXCEPT !.status = FinalStatus(order[t])]
  OBVIOUS
<1>1. /\ pc[h] \in {"match", "done"} /\ pc'[h] = "idle" /\ taker'[h] = 0
      /\ UNCHANGED <<arrived, log, latest_sequence_, trade>>
      /\ order' = [order EXCEPT ![t] = x]
      /\ book' = IF Rests(x) THEN [book EXCEPT ![x.side] = @ \cup {t}] ELSE book
  <2>1. taker'[h] = 0
    BY EventEngineAssumption DEF FinishOrder, TypeOK
  <2>2. pc'[h] = "idle"
    BY DEF FinishOrder, TypeOK
  <2> QED BY <1>t, <1>x, <2>1, <2>2 DEF FinishOrder, storeVars
<1>2. LogInv /\ EngineInv(h) /\ log \in Seq(Event)
  BY <1>1 DEF ReplayInv, TypeOK
<1>3. t \in Live /\ order[t].status = "PENDING" /\ pc[h] # "placing" /\ pc[h] # "trade"
  BY <1>1, <1>2, <1>t DEF EngineInv, TakerInv, Working
<1>4. /\ t \in Objects /\ order[t] \in Order /\ order[t].side \in OrderSide
      /\ order[t].remaining \in Int /\ order[t].remaining >= 0
  BY <1>3, LiveTyped
<1>5. /\ x.status \in {"FILLED", "PARTIAL_FILLED", "PENDING"}
      /\ order[t].remaining > 0 => x.status # "FILLED"
      /\ x.side = order[t].side /\ x.type = order[t].type /\ x.price = order[t].price
      /\ x.timestamp = order[t].timestamp /\ x.sequence_id = order[t].sequence_id
      /\ x.remaining = order[t].remaining
  BY <1>3, <1>4, <1>x DEF FinalStatus, Order
<1>6. order'[t] = x /\ \A o \in Objects \ {t} : order'[o] = order[o]
  BY <1>1, <1>4 DEF TypeOK
<1>7. Live \subseteq Objects /\ 0 \notin Live
  BY LiveTyped
<1>8. Live' = Live /\ Entered(h) = Live /\ Entered(h)' = Live
  <2>1. 1 .. arrived \subseteq Objects
    BY EventEngineAssumption DEF TypeOK, Objects
  <2>2. Live' = Live
    BY <1>1, <1>3, <1>5, <1>6, <2>1 DEF Live
  <2> QED BY <1>1, <1>3, <2>2 DEF Entered
<1>9. \A o \in Live : SameRecord(o)
  BY <1>5, <1>6, <1>7 DEF SameRecord
<1>10. RecordInv(h)'
  <2>1. QuietLog
    BY <1>1 DEF QuietLog
  <2> QED BY <1>2, <1>8, <1>9, <2>1, RecordQuiet DEF EngineInv
<1>11. LogInv' /\ ~LastMatched'
  BY <1>1, <1>2, <1>3, LogSame DEF EngineInv, HandInv
<1>12. TakerInv(h)'
  BY <1>1 DEF TakerInv, Working
<1>13. HandInv(h)'
  BY <1>1, <1>11 DEF HandInv
<1>14. BookInv(h)'
  <2> SUFFICES ASSUME NEW s \in OrderSide PROVE book'[s] = Resting(h, s)'
    BY DEF BookInv
  <2>1. book[s] = {o \in Live \ {t} : /\ order[o].side = s /\ order[o].type = "LIMIT"
                                      /\ order[o].remaining > 0}
    BY <1>2, <1>3, <1>t DEF EngineInv, BookInv, Resting
  <2>2. Resting(h, s)' = {o \in Live : /\ order[o].side = s /\ order[o].type = "LIMIT"
                                       /\ order[o].remaining > 0}
    <3>1. Resting(h, s)' = {o \in Live : /\ order'[o].side = s /\ order'[o].type = "LIMIT"
                                         /\ order'[o].remaining > 0}
      BY <1>1, <1>7, <1>8 DEF Resting
    <3> QED BY <1>9, <3>1 DEF SameRecord
  <2>3. Rests(x) <=> order[t].type = "LIMIT" /\ order[t].remaining > 0
    BY <1>5 DEF Rests, IsActive
  <2>4. CASE Rests(x)
    <3>1. book'[s] = IF s = order[t].side THEN book[s] \cup {t} ELSE book[s]
      BY <1>1, <1>4, <1>5, <2>4 DEF TypeOK
    <3> QED BY <1>3, <2>1, <2>2, <2>3, <2>4, <3>1
  <2>5. CASE ~Rests(x)
    <3>1. book'[s] = book[s]
      BY <1>1, <2>5
    <3> QED BY <1>3, <2>1, <2>2, <2>3, <2>5, <3>1
  <2> QED BY <2>4, <2>5
<1> QED BY <1>10, <1>11, <1>12, <1>13, <1>14 DEF ReplayInv, EngineInv

\* The calls that touch neither the orders nor the log.
LEMMA ReplayFrame ==
    ASSUME log \in Seq(Event), NEW h, ReplayInv(h),
           UNCHANGED <<order, arrived, book, log, latest_sequence_, pc, taker, trade>>
    PROVE  ReplayInv(h)'
<1>1. LogInv'
  BY LogSame DEF ReplayInv
<1>2. Live' = Live /\ Entered(h)' = Entered(h)
  BY DEF Live, Entered
<1>3. ASSUME pc[h] # "down" PROVE EngineInv(h)'
  <2>1. EngineInv(h)
    BY <1>3 DEF ReplayInv
  <2>2. RecordInv(h)'
    BY <1>2, <2>1, RecordQuiet DEF EngineInv, QuietLog, SameRecord
  <2>3. TakerInv(h)'
    BY <1>2, <2>1 DEF EngineInv, TakerInv, Events
  <2>4. HandInv(h)'
    BY <2>1 DEF EngineInv, HandInv, LastMatched, Reports, Maker
  <2>5. BookInv(h)'
    BY <1>2, <2>1 DEF EngineInv, BookInv, Resting, Maker
  <2> QED BY <2>2, <2>3, <2>4, <2>5 DEF EngineInv
<1> QED BY <1>1, <1>3 DEF ReplayInv

\* An engine on an empty log.
LEMMA FreshEngine ==
    ASSUME NEW h \in Handlers, log = <<>>, latest_sequence_ = 0, arrived = 0,
           pc[h] = "idle", taker[h] = 0, book = [s \in OrderSide |-> {}]
    PROVE  ReplayInv(h)
<1>1. Len(log) = 0 /\ Live = {} /\ \A ty : Events(ty, Len(log)) = {}
  BY DEF Live, Events
<1>2. LogInv
  <2>1. Events("ORDER_MATCHED", Len(log) - 1) = {}
    BY <1>1 DEF Events
  <2> QED BY <1>1, <2>1 DEF LogInv, DistinctIds, MatchesExplained, TradesFollowMatches
<1>3. RecordInv(h) /\ TakerInv(h) /\ HandInv(h)
  BY <1>1 DEF RecordInv, TakerInv, HandInv, Entered, LastMatched, Working
<1>4. BookInv(h)
  BY <1>1 DEF BookInv, Resting
<1> QED BY <1>2, <1>3, <1>4 DEF ReplayInv, EngineInv

\* After a crash the log is as it was; on one with events no engine comes up.
LEMMA ReplayRestart ==
    ASSUME TypeOK, NEW h \in Handlers, ReplayInv(h), Restart
    PROVE  ReplayInv(h)'
<1>1. LogInv' /\ log' = log
  BY LogSame DEF ReplayInv, Restart
<1>2. CASE log # <<>>
  <2>1. pc'[h] = "down"
    BY <1>2 DEF Restart, Readable
  <2> QED BY <1>1, <2>1 DEF ReplayInv
<1>3. CASE log = <<>>
  <2>1. /\ log' = <<>> /\ latest_sequence_' = 0 /\ arrived' = 0 /\ pc'[h] = "idle"
        /\ taker'[h] = 0 /\ book' = [s \in OrderSide |-> {}]
    BY <1>3 DEF Restart, Readable
  <2>2. Len(log') = 0 /\ Live' = {} /\ \A ty : Events(ty, Len(log))' = {}
    BY <2>1 DEF Live, Events
  <2>3. RecordInv(h)' /\ TakerInv(h)' /\ HandInv(h)'
    BY <2>1, <2>2 DEF RecordInv, TakerInv, HandInv, Entered, LastMatched, Working
  <2>4. BookInv(h)'
    BY <2>1, <2>2 DEF BookInv, Resting
  <2> QED BY <1>1, <2>3, <2>4 DEF ReplayInv, EngineInv
<1> QED BY <1>2, <1>3

LEMMA ReplayStep ==
    ASSUME NEW h \in Handlers, Handlers = {h}, TypeOK, TypeOK', ReplayInv(h), [Next]_vars
    PROVE  ReplayInv(h)'
<1>0. log \in Seq(Event)
  BY DEF TypeOK
<1>1. CASE UNCHANGED vars
  BY <1>0, <1>1, ReplayFrame DEF vars, storeVars, handlerVars
<1>2. CASE CancelOrderEs(h) \/ ReplayEvents(h)
  BY <1>0, <1>2, ReplayFrame DEF CancelOrderEs, ReplayEvents, storeVars, handlerVars
<1>3. ASSUME NEW o \in Objects, DestroyOrder(o) PROVE ReplayInv(h)'
  BY <1>0, <1>3, ReplayFrame DEF DestroyOrder, storeVars, handlerVars
<1>4. CASE \E g \in Handlers : \/ ProcessOrderEs(g)
                               \/ PlaceOrder(g)
                               \/ \E r \in Objects : Match(g, r)
                               \/ ReportTrade(g)
                               \/ FinishOrder(g)
  BY <1>4, ReplayProcessOrder, ReplayPlaceOrder, ReplayMatch, ReplayReportTrade,
     ReplayFinishOrder
<1> QED BY <1>1, <1>2, <1>3, <1>4, ReplayRestart DEF Next

\* What the invariant says of the log is what the log promises.
LEMMA ReplayTells ==
    ASSUME TypeOK, NEW h \in Handlers, Handlers = {h}, ReplayInv(h)
    PROVE  LogTellsOrders /\ LogRebuildsBook /\ TradesFollowMatches /\ MatchesFollowFromLog
<1>1. TradesFollowMatches /\ MatchesFollowFromLog
  BY LenProperties, ExplainedFollows DEF ReplayInv, LogInv, TypeOK
<1>2. LogTellsOrders
  <2> SUFFICES ASSUME pc[h] # "down", NEW j \in Events("ORDER_PLACED", Len(log))
               PROVE  LeftAfter(j, Len(log)) = order[log[j].order_id].remaining
    BY DEF LogTellsOrders
  <2> QED BY DEF ReplayInv, EngineInv, RecordInv, Recorded
<1>3. LogRebuildsBook
  <2> SUFFICES ASSUME pc[h] = "idle", NEW s \in OrderSide
               PROVE  book[s] = {log[j].order_id : j \in RestingAfter(s, Len(log))}
    BY DEF LogRebuildsBook
  <2>1. RecordInv(h) /\ TakerInv(h) /\ BookInv(h)
    BY DEF ReplayInv, EngineInv
  <2>2. Entered(h) = Live /\ taker[h] = 0 /\ 0 \notin Live
    BY <2>1, LiveTyped DEF Entered, TakerInv, Working
  <2>3. book[s] = {o \in Live : /\ order[o].side = s /\ order[o].type = "LIMIT"
                                /\ order[o].remaining > 0}
    BY <2>1, <2>2 DEF BookInv, Resting
  <2>4. ASSUME NEW j \in RestingAfter(s, Len(log)) PROVE log[j].order_id \in book[s]
    <3>1. /\ j \in Events("ORDER_PLACED", Len(log)) /\ log[j].side = s
          /\ log[j].order_type = "LIMIT" /\ LeftAfter(j, Len(log)) > 0
      BY DEF RestingAfter
    <3>2. log[j].order_id \in Live /\ order[log[j].order_id].sequence_id = j
      BY <2>1, <2>2, <3>1 DEF RecordInv
    <3>3. Recorded(log[j].order_id)
      BY <2>1, <2>2, <3>2 DEF RecordInv
    <3> QED BY <2>3, <3>1, <3>2, <3>3 DEF Recorded
  <2>5. ASSUME NEW o \in book[s]
        PROVE  \E j \in RestingAfter(s, Len(log)) : o = log[j].order_id
    <3>1. Recorded(o)
      BY <2>1, <2>2, <2>3 DEF RecordInv
    <3>2. order[o].sequence_id \in RestingAfter(s, Len(log))
      BY <2>3, <3>1 DEF Recorded, RestingAfter
    <3> QED BY <3>1, <3>2 DEF Recorded
  <2> QED BY <2>4, <2>5
<1> QED BY <1>1, <1>2, <1>3

LEMMA ReplayInit == ASSUME NEW h \in Handlers, Init PROVE ReplayInv(h)
BY FreshEngine DEF Init

\* When one thread hands in the orders, the log alone tells at every moment, wherever
\* a crash comes, what is left of each order, which orders rest, the trades, and whose a sequence is.
THEOREM LogTells ==
    ASSUME NEW CONSTANT h \in Handlers, Handlers = {h}
    PROVE  Spec => []LogTellsAll
<1>1. TypeInv => TypeOK
  BY DEF TypeInv
<1>2. Init => ReplayInv(h)
  BY ReplayInit
<1>3. TypeOK /\ TypeOK' /\ ReplayInv(h) /\ [Next]_vars => ReplayInv(h)'
  BY ReplayStep
<1>4. TypeOK /\ ReplayInv(h) => LogTellsOrders /\ LogRebuildsBook /\ TradesFollowMatches
  BY ReplayTells
<1>5. LogTellsOrders /\ LogRebuildsBook /\ TradesFollowMatches /\ SequencesDistinct => LogTellsAll
  BY DEF LogTellsAll
<1>6. Spec => []SequencesDistinct
  BY SequencesUnique
<1> QED BY <1>1, <1>2, <1>3, <1>4, <1>5, <1>6, TypeInit, TypeStep, PTL DEF Spec
-----------------------------------------------------------------------------
(* The two sides of the book never overlap, as long as the loop is never   *)
(* given up: its bound is not reached, since every turn but the last takes *)
(* an order off the other side.                                            *)

\* The side the order in hand is matched against.
Facing(h) == book[Opposite(order[taker[h]].side)]

LoopBounded(h) ==
    /\ pc[h] \in {"idle", "placing"} => iteration_count[h] = 0
    /\ pc[h] = "match" /\ order[taker[h]].remaining > 0 =>
         iteration_count[h] + Cardinality(Facing(h)) < MaxOrders
    /\ pc[h] = "trade" /\ order[taker[h]].remaining > 0 =>
         /\ order[Maker(h)].remaining = 0
         /\ iteration_count[h] + Cardinality(Facing(h)) <= MaxOrders

Uncrossed == \A b \in book["BUY"], a \in book["SELL"] : order[b].price < order[a].price

UncrossedInv(h) == pc[h] # "down" => LoopBounded(h) /\ Uncrossed

LEMMA ObjectsFinite == IsFiniteSet(Objects) /\ Cardinality(Objects) = MaxOrders
<1>1. 1 \in Int /\ MaxOrders \in Int /\ MaxOrders >= 0
  BY EventEngineAssumption
<1>2. /\ IsFiniteSet(1 .. MaxOrders)
      /\ Cardinality(1 .. MaxOrders) = IF 1 > MaxOrders THEN 0 ELSE MaxOrders - 1 + 1
  BY <1>1, FS_Interval
<1> QED BY <1>1, <1>2 DEF Objects

\* The resting orders of a side, in number and kind.
LEMMA BookLive ==
    ASSUME TypeOK, NEW h \in Handlers, BookInv(h), NEW s \in OrderSide
    PROVE  /\ \A o \in book[s] : /\ o \in Live /\ o \in Objects /\ o # taker[h]
                                 /\ order[o].side = s /\ order[o].price \in Int
                                 /\ order[o].timestamp \in Nat
           /\ IsFiniteSet(book[s]) /\ Cardinality(book[s]) \in Nat
           /\ taker[h] \in Live => Cardinality(book[s]) < MaxOrders
<1>1. \A o \in book[s] : o \in Live /\ o # taker[h] /\ order[o].side = s
  BY DEF BookInv, Resting
<1>2. \A o \in Live : o \in Objects /\ order[o].price \in Int /\ order[o].timestamp \in Nat
  BY LiveTyped
<1>3. IsFiniteSet(Objects) /\ Cardinality(Objects) = MaxOrders
  BY ObjectsFinite
<1>4. IsFiniteSet(book[s]) /\ Cardinality(book[s]) \in Nat
  BY <1>1, <1>2, <1>3, FS_Subset, FS_CardinalityType
<1>5. ASSUME taker[h] \in Live PROVE Cardinality(book[s]) < MaxOrders
  <2>1. book[s] \in SUBSET (Objects \ {taker[h]}) /\ taker[h] \in Objects
    BY <1>1, <1>2, <1>5
  <2>2. /\ IsFiniteSet(Objects \ {taker[h]})
        /\ Cardinality(Objects \ {taker[h]}) = MaxOrders - 1
    BY <1>3, <2>1, FS_RemoveElement
  <2>3. Cardinality(book[s]) <= MaxOrders - 1
    BY <2>1, <2>2, FS_Subset
  <2> QED BY <1>4, <2>3, EventEngineAssumption
<1> QED BY <1>1, <1>2, <1>4, <1>5

\* A side that is not empty offers an order: the one with the fewest before it.
LEMMA BestExists ==
    ASSUME TypeOK, NEW h \in Handlers, BookInv(h), NEW s \in OrderSide, book[s] # {}
    PROVE  \E o \in Objects : IsBest(s, o)
<1> DEFINE Before(o) == {p \in book[s] : KeyBefore(order[p], order[o])}
           Befores == {Before(o) : o \in book[s]}
           R == StrictSubsetOrdering(Objects)
<1>1. \A o \in book[s] : /\ o \in Objects /\ order[o].side = s /\ order[o].price \in Int
                         /\ order[o].timestamp \in Nat
  BY BookLive
<1>2. IsFiniteSet(Objects)
  BY ObjectsFinite
<1>3. IsWellFoundedOn(R, SUBSET Objects)
  BY <1>2, FS_StrictSubsetOrderingWellFounded, FS_FiniteSubsetsOfFinite
<1>4. Befores \subseteq SUBSET Objects /\ Befores # {}
  BY <1>1
<1>5. PICK B \in Befores : \A C \in Befores : ~(<<C, B>> \in R)
  <2> HIDE DEF Befores, R
  <2> QED BY <1>3, <1>4, WFMin
<1>6. PICK o \in book[s] : B = Before(o)
  OBVIOUS
<1>7. ASSUME NEW p \in book[s], KeyBefore(order[p], order[o]) PROVE FALSE
  <2>1. \A q \in book[s] : KeyBefore(order[q], order[p]) => KeyBefore(order[q], order[o])
    <3> SUFFICES ASSUME NEW q \in book[s], KeyBefore(order[q], order[p])
                 PROVE  KeyBefore(order[q], order[o])
      OBVIOUS
    <3> QED BY <1>1, <1>7 DEF KeyBefore, PriceBetter
  <2>2. ~KeyBefore(order[p], order[p])
    BY <1>1 DEF KeyBefore, PriceBetter
  <2>3. Before(p) \subseteq Before(o) /\ p \in Before(o) /\ p \notin Before(p)
    BY <1>7, <2>1, <2>2
  <2>4. Before(p) \in SUBSET Objects /\ Before(o) \in SUBSET Objects
    BY <1>1
  <2>5. <<Before(p), Before(o)>> \in R
    BY <2>3, <2>4 DEF StrictSubsetOrdering
  <2> QED BY <1>5, <1>6, <2>5
<1> QED BY <1>1, <1>7 DEF IsBest

\* Nothing enters the book and no resting order changes its price: the sides stay apart.
LEMMA UncrossedKept ==
    ASSUME Uncrossed, \A s \in OrderSide : book'[s] \subseteq book[s],
           \A s \in OrderSide : \A o \in book[s] : order'[o].price = order[o].price
    PROVE  Uncrossed'
BY DEF Uncrossed, OrderSide

LEMMA UncrossedProcess ==
    ASSUME TypeOK, TypeOK', NEW h \in Handlers, ReplayInv(h), UncrossedInv(h),
           ProcessOrderEs(h)
    PROVE  UncrossedInv(h)'
<1> DEFINE n == arrived + 1
<1>1. /\ pc[h] = "idle" /\ n \notin Live /\ UNCHANGED <<book, iteration_count>>
      /\ pc'[h] \in {"idle", "placing"} /\ \A o \in Objects \ {n} : order'[o] = order[o]
  <2>1. pc[h] = "idle" /\ n \notin Live /\ UNCHANGED <<book, iteration_count>>
    BY DEF ProcessOrderEs, Live, TypeOK
  <2>2. /\ pc' = pc \/ pc' = [pc EXCEPT ![h] = "placing"]
        /\ \E x : order' = [order EXCEPT ![n] = x]
    BY DEF ProcessOrderEs, Accept
  <2>3. pc'[h] \in {"idle", "placing"}
    BY <2>1, <2>2 DEF TypeOK
  <2>4. \A o \in Objects \ {n} : order'[o] = order[o]
    BY <2>2 DEF TypeOK
  <2> QED BY <2>1, <2>3, <2>4
<1> HIDE DEF n
<1>2. LoopBounded(h) /\ Uncrossed /\ BookInv(h)
  BY <1>1 DEF UncrossedInv, ReplayInv, EngineInv
<1>3. \A s \in OrderSide : \A o \in book[s] : order'[o].price = order[o].price
  BY <1>1, <1>2, BookLive
<1>4. Uncrossed'
  BY <1>1, <1>2, <1>3, UncrossedKept
<1>5. LoopBounded(h)'
  BY <1>1, <1>2 DEF LoopBounded
<1> QED BY <1>4, <1>5 DEF UncrossedInv

LEMMA UncrossedPlace ==
    ASSUME TypeOK, NEW h \in Handlers, ReplayInv(h), UncrossedInv(h), PlaceOrder(h)
    PROVE  UncrossedInv(h)'
<1>1. /\ pc[h] = "placing" /\ pc'[h] = "match"
      /\ UNCHANGED <<book, order, taker, iteration_count>>
  BY DEF PlaceOrder, TypeOK
<1>2. LoopBounded(h) /\ Uncrossed /\ BookInv(h) /\ taker[h] \in Live
  BY <1>1 DEF UncrossedInv, ReplayInv, EngineInv, TakerInv, Working
<1>3. Opposite(order[taker[h]].side) \in OrderSide
  BY DEF Opposite, OrderSide
<1>4. Cardinality(Facing(h)) \in Nat /\ Cardinality(Facing(h)) < MaxOrders
  BY <1>2, <1>3, BookLive DEF Facing
<1>5. iteration_count[h] = 0 /\ Facing(h)' = Facing(h)
  BY <1>1, <1>2 DEF LoopBounded, Facing
<1>6. LoopBounded(h)'
  BY <1>1, <1>4, <1>5 DEF LoopBounded
<1>7. Uncrossed'
  BY <1>1, <1>2 DEF Uncrossed
<1> QED BY <1>6, <1>7 DEF UncrossedInv

LEMMA UncrossedMatch ==
    ASSUME TypeOK, NEW h \in Handlers, ReplayInv(h), UncrossedInv(h),
           NEW r \in Objects, Match(h, r)
    PROVE  UncrossedInv(h)'
<1>t. PICK t : t = taker[h]
  OBVIOUS
<1>q. PICK qty : qty = MinOf(order[t].remaining, order[r].remaining)
  OBVIOUS
<1>1. /\ pc[h] = "match" /\ pc'[h] = "trade" /\ UNCHANGED <<book, taker>>
      /\ order' = [order EXCEPT ![t] = Fill(t, qty), ![r] = Fill(r, qty)]
      /\ trade'[h] = NewTrade(t, r, qty) /\ order[t].remaining > 0
      /\ iteration_count'[h] = iteration_count[h] + 1
      /\ IsBest(Opposite(order[t].side), r)
  BY <1>t, <1>q DEF Match, Meets, TypeOK
<1>2. LoopBounded(h) /\ Uncrossed /\ BookInv(h) /\ t \in Live
  BY <1>1, <1>t DEF UncrossedInv, ReplayInv, EngineInv, TakerInv, Working
<1>3. Opposite(order[t].side) \in OrderSide
  BY DEF Opposite, OrderSide
<1>4. r \in Live /\ r # t
  BY <1>1, <1>2, <1>3, <1>t, BookLive DEF IsBest
<1>5. /\ order[t].remaining \in Int /\ order[r].remaining \in Int /\ t \in Objects
  BY <1>2, <1>4, LiveTyped
<1>6. qty \in Int /\ (qty = order[t].remaining \/ qty = order[r].remaining)
  BY <1>5, <1>q DEF MinOf
<1>7. Matched(t, r, qty)
  BY <1>1, <1>4, <1>5, <1>6, MatchedBy
<1>8. Maker(h)' = r
  <2>1. NewTrade(t, r, qty).is_taker_buy <=> order[t].side = "BUY"
    BY DEF NewTrade
  <2>2. /\ NewTrade(t, r, qty).buy = (IF order[t].side = "BUY" THEN t ELSE r)
        /\ NewTrade(t, r, qty).sell = (IF order[t].side = "BUY" THEN r ELSE t)
    BY DEF NewTrade
  <2> QED BY <1>1, <2>1, <2>2 DEF Maker
<1>9. Uncrossed'
  <2>1. \A s \in OrderSide : \A o \in book[s] : order'[o].price = order[o].price
    BY <1>2, <1>7, BookLive DEF Matched
  <2> QED BY <1>1, <1>2, <2>1, UncrossedKept
<1>10. LoopBounded(h)'
  <2>1. Facing(h)' = Facing(h)
    <3>1. taker'[h] = t
      BY <1>1, <1>t
    <3>2. order'[t].side = order[t].side
      BY <1>5, <1>7 DEF Matched
    <3> QED BY <1>1, <1>t, <3>1, <3>2 DEF Facing
  <2>2. iteration_count[h] + Cardinality(Facing(h)) < MaxOrders
    BY <1>1, <1>2, <1>t DEF LoopBounded
  <2>3. iteration_count[h] \in Nat /\ Cardinality(Facing(h)) \in Nat
    BY <1>2, <1>3, <1>t, BookLive DEF TypeOK, Facing
  <2>4. iteration_count'[h] + Cardinality(Facing(h)') <= MaxOrders
    BY <1>1, <2>1, <2>2, <2>3, EventEngineAssumption
  <2>5. order'[t].remaining > 0 => order'[r].remaining = 0
    <3>1. /\ order'[t].remaining = order[t].remaining - qty
          /\ order'[r].remaining = order[r].remaining - qty
      BY <1>5, <1>7 DEF Matched
    <3> QED BY <1>5, <1>6, <3>1
  <2>6. taker'[h] = t
    BY <1>1, <1>t
  <2> QED BY <1>1, <1>8, <2>4, <2>5, <2>6 DEF LoopBounded
<1> QED BY <1>9, <1>10 DEF UncrossedInv

LEMMA UncrossedReport ==
    ASSUME TypeOK, NEW h \in Handlers, ReplayInv(h), UncrossedInv(h), ReportTrade(h)
    PROVE  UncrossedInv(h)'
<1>t. PICK t : t = taker[h]
  OBVIOUS
<1>r. PICK r : r = Maker(h)
  OBVIOUS
<1>o. PICK opp : opp = Opposite(order[t].side)
  OBVIOUS
<1>1. /\ pc[h] = "trade" /\ pc'[h] \in {"match", "done"} /\ UNCHANGED <<order, taker, iteration_count>>
      /\ book' = IF order[r].remaining = 0 THEN [book EXCEPT ![order[r].side] = @ \ {r}] ELSE book
  BY <1>r DEF ReportTrade, TypeOK
<1>2. LoopBounded(h) /\ Uncrossed /\ BookInv(h) /\ HandInv(h)
  BY <1>1 DEF UncrossedInv, ReplayInv, EngineInv
<1>3. opp \in OrderSide /\ r \in book[opp]
  BY <1>1, <1>2, <1>r, <1>t, <1>o DEF HandInv, Opposite, OrderSide
<1>4. /\ order[r].side = opp /\ IsFiniteSet(book[opp]) /\ Cardinality(book[opp]) \in Nat
      /\ iteration_count[h] \in Nat
  BY <1>2, <1>3, BookLive DEF TypeOK
<1>5. Uncrossed'
  <2>1. \A s \in OrderSide : book'[s] \subseteq book[s]
    BY <1>1 DEF TypeOK
  <2> QED BY <1>1, <1>2, <2>1, UncrossedKept
<1>6. LoopBounded(h)'
  <2> SUFFICES ASSUME pc'[h] = "match", order'[taker'[h]].remaining > 0
               PROVE  iteration_count'[h] + Cardinality(Facing(h)') < MaxOrders
    BY <1>1 DEF LoopBounded
  <2>1. taker'[h] = t /\ order[t].remaining > 0 /\ iteration_count'[h] = iteration_count[h]
    BY <1>1, <1>t
  <2>2. order[r].remaining = 0 /\ iteration_count[h] + Cardinality(book[opp]) <= MaxOrders
    BY <1>1, <1>2, <1>o, <1>r, <1>t, <2>1 DEF LoopBounded, Facing
  <2>3. book'[opp] = book[opp] \ {r}
    BY <1>1, <1>3, <1>4, <2>2 DEF TypeOK
  <2>4. Cardinality(book'[opp]) = Cardinality(book[opp]) - 1
    BY <1>3, <1>4, <2>3, FS_RemoveElement
  <2>5. Facing(h)' = book'[opp]
    BY <1>1, <1>o, <1>t, <2>1 DEF Facing
  <2>6. iteration_count[h] + (Cardinality(book[opp]) - 1) < MaxOrders
    BY <1>4, <2>2, EventEngineAssumption
  <2> QED BY <2>1, <2>4, <2>5, <2>6
<1> QED BY <1>5, <1>6 DEF UncrossedInv

\* The best order of the other side does not match, so none does.
LEMMA NoneMatches ==
    ASSUME TypeOK, NEW h \in Handlers, BookInv(h), NEW t \in Live,
           NEW opp, opp = Opposite(order[t].side),
           \A r \in Objects : IsBest(opp, r) => ~CanMatchDeterministic(order[t], order[r])
    PROVE  \A a \in book[opp] : IF order[t].side = "BUY" THEN order[t].price < order[a].price
                                ELSE order[a].price < order[t].price
<1> SUFFICES ASSUME NEW a \in book[opp]
             PROVE  IF order[t].side = "BUY" THEN order[t].price < order[a].price
                    ELSE order[a].price < order[t].price
  OBVIOUS
<1>1. order[t].side \in OrderSide /\ opp \in OrderSide /\ order[t].price \in Int
  BY LiveTyped DEF Opposite, OrderSide
<1>2. PICK r \in Objects : IsBest(opp, r)
  BY <1>1, BestExists
<1>3. /\ r \in book[opp] /\ ~KeyBefore(order[a], order[r])
      /\ ~CanMatchDeterministic(order[t], order[r])
  BY <1>2 DEF IsBest
<1>4. \A o \in {a, r} : order[o].side = opp /\ order[o].price \in Int
  BY <1>1, <1>3, BookLive
<1>5. IF order[t].side = "BUY" THEN order[t].price < order[r].price
      ELSE order[r].price < order[t].price
  BY <1>1, <1>3, <1>4 DEF CanMatchDeterministic
<1>6. IF opp = "BUY" THEN order[r].price >= order[a].price ELSE order[r].price <= order[a].price
  BY <1>3, <1>4 DEF KeyBefore, PriceBetter
<1> QED BY <1>1, <1>4, <1>5, <1>6 DEF Opposite, OrderSide

LEMMA UncrossedFinish ==
    ASSUME MaxOrders <= MaxIterations,
           TypeOK, NEW h \in Handlers, ReplayInv(h), UncrossedInv(h), FinishOrder(h)
    PROVE  UncrossedInv(h)'
<1>t. PICK t : t = taker[h]
  OBVIOUS
<1>o. PICK opp : opp = Opposite(order[t].side)
  OBVIOUS
<1>x. PICK x : x = [order[t] EXCEPT !.status = FinalStatus(order[t])]
  OBVIOUS
<1>1. /\ pc[h] \in {"match", "done"} /\ pc'[h] = "idle" /\ iteration_count'[h] = 0
      /\ order' = [order EXCEPT ![t] = x]
      /\ book' = IF Rests(x) THEN [book EXCEPT ![x.side] = @ \cup {t}] ELSE book
      /\ \A r \in Objects : ~Meets(h, r)
  BY <1>t, <1>x DEF FinishOrder, TypeOK
<1>2. LoopBounded(h) /\ Uncrossed /\ BookInv(h) /\ TakerInv(h) /\ t \in Live
  BY <1>1, <1>t DEF UncrossedInv, ReplayInv, EngineInv, TakerInv, Working
<1>3. /\ t \in Objects /\ order[t] \in Order /\ order[t].side \in OrderSide
      /\ order[t].price \in Int /\ opp \in OrderSide /\ opp # order[t].side
  BY <1>2, <1>o, LiveTyped DEF Opposite, OrderSide
<1>4. /\ x.side = order[t].side /\ x.type = order[t].type /\ x.price = order[t].price
      /\ x.remaining = order[t].remaining
  BY <1>3, <1>x DEF Order
<1>5. \A o \in Objects : order'[o].price = order[o].price
  BY <1>1, <1>3, <1>4 DEF TypeOK
<1>6. \A s \in OrderSide : \A o \in book[s] : o \in Objects
  BY <1>2, BookLive
<1>7. LoopBounded(h)'
  BY <1>1 DEF LoopBounded
<1>8. Uncrossed'
  <2>1. CASE ~Rests(x)
    BY <1>1, <1>2, <1>5, <1>6, <2>1, UncrossedKept
  <2>2. CASE Rests(x)
    <3>1. order[t].type = "LIMIT" /\ order[t].remaining > 0 /\ pc[h] = "match"
      BY <1>1, <1>2, <1>4, <1>t, <2>2 DEF Rests, TakerInv
    <3>2. iteration_count[h] < MaxIterations
      <4>1. iteration_count[h] + Cardinality(book[opp]) < MaxOrders
        BY <1>2, <1>o, <1>t, <3>1 DEF LoopBounded, Facing
      <4>2. iteration_count[h] \in Nat /\ Cardinality(book[opp]) \in Nat
        BY <1>2, <1>3, BookLive DEF TypeOK
      <4> QED BY <4>1, <4>2, EventEngineAssumption
    <3>3. \A r \in Objects : IsBest(opp, r) => ~CanMatchDeterministic(order[t], order[r])
      BY <1>1, <1>o, <1>t, <3>1, <3>2 DEF Meets
    <3>4. \A a \in book[opp] : IF order[t].side = "BUY" THEN order[t].price < order[a].price
                               ELSE order[a].price < order[t].price
      BY <1>2, <1>o, <3>3, NoneMatches
    <3>5. \A s \in OrderSide : book'[s] = IF s = order[t].side THEN book[s] \cup {t} ELSE book[s]
      BY <1>1, <1>3, <1>4, <2>2 DEF TypeOK
    <3> SUFFICES ASSUME NEW b \in book'["BUY"], NEW a \in book'["SELL"]
                 PROVE  order'[b].price < order'[a].price
      BY DEF Uncrossed
    <3>6. CASE b \in book["BUY"] /\ a \in book["SELL"]
      BY <1>2, <1>5, <1>6, <3>6 DEF Uncrossed, OrderSide
    <3>7. CASE b \notin book["BUY"]
      <4>1. b = t /\ order[t].side = "BUY" /\ opp = "SELL" /\ a \in book["SELL"]
        BY <1>3, <3>5, <3>7 DEF OrderSide
      <4> QED BY <1>3, <1>5, <1>6, <3>4, <4>1 DEF OrderSide
    <3>8. CASE a \notin book["SELL"]
      <4>1. a = t /\ order[t].side = "SELL" /\ opp = "BUY" /\ b \in book["BUY"]
        BY <1>3, <3>5, <3>8 DEF OrderSide
      <4> QED BY <1>3, <1>5, <1>6, <3>4, <4>1 DEF OrderSide
    <3> QED BY <3>6, <3>7, <3>8
  <2> QED BY <2>1, <2>2
<1> QED BY <1>7, <1>8 DEF UncrossedInv

LEMMA UncrossedStep ==
    ASSUME MaxOrders <= MaxIterations, NEW h \in Handlers, Handlers = {h},
           TypeOK, TypeOK', ReplayInv(h), UncrossedInv(h), [Next]_vars
    PROVE  UncrossedInv(h)'
<1>0. ASSUME UNCHANGED <<order, book, pc, taker, trade, iteration_count>>
      PROVE  UncrossedInv(h)'
  BY <1>0 DEF UncrossedInv, LoopBounded, Uncrossed, Facing, Maker
<1>1. CASE UNCHANGED vars
  BY <1>0, <1>1 DEF vars, handlerVars
<1>2. CASE CancelOrderEs(h) \/ ReplayEvents(h)
  BY <1>0, <1>2 DEF CancelOrderEs, ReplayEvents, handlerVars
<1>3. ASSUME NEW o \in Objects, DestroyOrder(o) PROVE UncrossedInv(h)'
  BY <1>0, <1>3 DEF DestroyOrder, handlerVars
<1>4. CASE Restart
  BY <1>4 DEF Restart, UncrossedInv, LoopBounded, Uncrossed, OrderSide
<1>5. CASE \E g \in Handlers : \/ ProcessOrderEs(g)
                               \/ PlaceOrder(g)
                               \/ \E r \in Objects : Match(g, r)
                               \/ ReportTrade(g)
                               \/ FinishOrder(g)
  BY <1>5, UncrossedProcess, UncrossedPlace, UncrossedMatch, UncrossedReport, UncrossedFinish
<1> QED BY <1>1, <1>2, <1>3, <1>4, <1>5 DEF Next

LEMMA UncrossedInit == ASSUME NEW h \in Handlers, Init PROVE UncrossedInv(h)
BY DEF Init, UncrossedInv, LoopBounded, Uncrossed, OrderSide

\* When one thread hands in the orders, and fewer than the loop has turns, each match
\* follows from the log, and no two orders left at rest could trade.
THEOREM MatchesFollow ==
    ASSUME NEW CONSTANT h \in Handlers, Handlers = {h}, MaxOrders <= MaxIterations
    PROVE  Spec => []MatchesDetermined
<1>1. TypeInv => TypeOK
  BY DEF TypeInv
<1>2. Init => ReplayInv(h) /\ UncrossedInv(h)
  BY ReplayInit, UncrossedInit
<1>3. TypeOK /\ TypeOK' /\ ReplayInv(h) /\ UncrossedInv(h) /\ [Next]_vars
        => ReplayInv(h)' /\ UncrossedInv(h)'
  BY ReplayStep, UncrossedStep
<1>4. TypeOK /\ ReplayInv(h) /\ UncrossedInv(h) => MatchesDetermined
  <2> SUFFICES ASSUME TypeOK, ReplayInv(h), UncrossedInv(h) PROVE MatchesDetermined
    OBVIOUS
  <2>1. MatchesFollowFromLog
    BY ReplayTells
  <2>2. BookUncrossed
    BY DEF BookUncrossed, UncrossedInv, Uncrossed
  <2> QED BY <2>1, <2>2 DEF MatchesDetermined
<1> QED BY <1>1, <1>2, <1>3, <1>4, TypeInit, TypeStep, PTL DEF Spec
=============================================================================
