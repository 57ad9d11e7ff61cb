---------------------------- MODULE TradingService ----------------------------
(***************************************************************************)
(* The trading service: TradingService (services/trading_service/          *)
(* trading_service.cpp) and its CQRS variant TradingServiceCQRS            *)
(* (trading_service_cqrs.cpp), either of which is deployed in front of the *)
(* matching service.  gRPC threads take requests at the same time; each    *)
(* step is one access to shared state or one end of a remote call.         *)
(*                                                                         *)
(* The n-th order has the number n.  A remote call may fail before the     *)
(* matching service saw it or after.  What the engine leaves of an order   *)
(* is left open; it is EventSourcedEngine's affair.  The matching          *)
(* service's CancelOrder finds no order, ever (EventSourcedEngine).        *)
(***************************************************************************)
EXTENDS AccountBalances, Sequences, SequencesExt

CONSTANTS
    Deployments,    \* "service", "cqrs": what Init chooses from
    Requests,       \* the orders clients may send
    MaxOrders,      \* bound: orders sent
    MaxPayments,    \* bound: changes of a balance
    max_quantity_, quantity_step_, price_tick_,    \* OrderValidator's rules
    default_limit_,                                \* PositionManager's
    Payments        \* the amounts paid in or out

Order == [user : Users, type : {"LIMIT", "MARKET"}, price : Int, quantity : Int]

ASSUME TradingAssumption ==
    /\ Deployments \subseteq {"service", "cqrs"}
    /\ Requests \subseteq Order /\ Payments \subseteq Int
    /\ MaxOrders \in Nat /\ MaxPayments \in Nat

VARIABLES
    deployed,
    request,        \* the orders sent, in the order of next_order_id_
    outcome,        \* order -> "open", "accepted", "refused": what its client was told
    pc, cur,        \* where each thread is, and the order or user it is about
    reply,          \* the remaining quantity in the reply a thread holds
    orders_, user_orders_, orders_mutex_,
    engine,         \* order -> what the engine left of it, for the orders it took
    lost_reply,     \* history: orders taken whose reply was lost
    known, shown,   \* a query: what was acknowledged when it began, what it answered
    payments        \* balance changes so far

requestVars == <<request, outcome>>
storeVars == <<orders_, user_orders_, orders_mutex_>>
engineVars == <<engine, lost_reply>>
queryVars == <<known, shown>>
threadVars == <<pc, cur, reply>>
vars == <<deployed, requestVars, threadVars, storeVars, engineVars, queryVars, payments, accountVars>>

Nobody == 0
NoReply == -1

Init ==
    /\ AccountInit
    /\ deployed \in Deployments
    /\ request = <<>> /\ outcome = <<>>
    /\ pc = [t \in Threads |-> "idle"] /\ cur = [t \in Threads |-> 0]
    /\ reply = [t \in Threads |-> NoReply]
    /\ orders_ = <<>> /\ user_orders_ = [u \in Users |-> <<>>] /\ orders_mutex_ = Nobody
    /\ engine = <<>> /\ lost_reply = {}
    /\ known = [t \in Threads |-> {}] /\ shown = [t \in Threads |-> {}]
    /\ payments = 0

Sent(t) == request[cur[t]]
Free == orders_mutex_ = Nobody
Goto(t, label) == pc' = [pc EXCEPT ![t] = label]

\* required_margin, in units of a tenth.
Margin(o) == o.price * o.quantity

Enter(t, step) == call' = [call EXCEPT ![t] = [Out EXCEPT !.at = step]]
Leave(t) == call' = [call EXCEPT ![t] = Out]

Answer(t, result) ==
    /\ outcome' = [outcome EXCEPT ![cur[t]] = result]
    /\ pc' = [pc EXCEPT ![t] = "idle"]
    /\ cur' = [cur EXCEPT ![t] = 0]
-----------------------------------------------------------------------------
(* SubmitOrder, handleSubmitOrder: the checks *)

\* OrderValidator::validate.  Orders name an existing user and instrument.
IsValid(o) ==
    /\ o.quantity > 0 /\ o.quantity <= max_quantity_
    /\ o.quantity % quantity_step_ = 0
    /\ o.type = "LIMIT" => o.price > 0 /\ o.price % price_tick_ = 0

Submit(t, o) ==
    /\ pc[t] = "idle" /\ Len(request) < MaxOrders
    /\ request' = Append(request, o)
    /\ IF IsValid(o)
       THEN /\ outcome' = Append(outcome, "open")
            /\ cur' = [cur EXCEPT ![t] = Len(request) + 1]
            /\ Goto(t, "check") /\ Enter(t, "check balance")
       ELSE /\ outcome' = Append(outcome, "refused")
            /\ UNCHANGED <<cur, pc, call>>
    /\ UNCHANGED <<deployed, reply, storeVars, engineVars, queryVars, payments,
                   balance, frozen, peak>>

\* PositionManager::checkPositionLimit compares the order alone with the limit.
WithinPositionLimit(o) == o.quantity <= default_limit_

PassesChecks(t) ==
    /\ pc[t] = "check" /\ At(t, "yes") /\ WithinPositionLimit(Sent(t))
    /\ Goto(t, "freeze") /\ Enter(t, "freeze")
    /\ UNCHANGED <<deployed, requestVars, cur, reply, storeVars, engineVars, queryVars, payments,
                   balance, frozen, peak>>

FailsChecks(t) ==
    /\ pc[t] = "check"
    /\ At(t, "no") \/ (At(t, "yes") /\ ~WithinPositionLimit(Sent(t)))
    /\ Answer(t, "refused") /\ Leave(t)
    /\ UNCHANGED <<deployed, request, reply, storeVars, engineVars, queryVars, payments,
                   balance, frozen, peak>>

FailsToFreeze(t) ==
    /\ pc[t] = "freeze" /\ At(t, "no")
    /\ Answer(t, "refused") /\ Leave(t)
    /\ UNCHANGED <<deployed, request, reply, storeVars, engineVars, queryVars, payments,
                   balance, frozen, peak>>

Froze(t) ==
    /\ pc[t] = "freeze" /\ At(t, "yes")
    /\ Goto(t, "call") /\ Leave(t)
    /\ UNCHANGED <<deployed, requestVars, cur, reply, storeVars, engineVars, queryVars, payments,
                   balance, frozen, peak>>
-----------------------------------------------------------------------------
(* The remote call ProcessOrder *)

Extend(f, n, v) == [m \in DOMAIN f \cup {n} |-> IF m = n THEN v ELSE f[m]]

\* The call fails before the matching service has seen it: no connection.
RequestLost(t) ==
    /\ pc[t] = "call"
    /\ Goto(t, "give back") /\ Enter(t, "unfreeze")
    /\ UNCHANGED <<deployed, requestVars, cur, reply, storeVars, engineVars, queryVars, payments,
                   balance, frozen, peak>>

\* MatchingService::ProcessOrder: the engine keeps the order; the answer is always
\* a success.
EngineTakes(t) ==
    /\ pc[t] = "call"
    /\ \E remaining \in 0 .. Sent(t).quantity : engine' = Extend(engine, cur[t], remaining)
    /\ Goto(t, "taken")
    /\ UNCHANGED <<deployed, requestVars, cur, reply, storeVars, lost_reply, queryVars, payments,
                   accountVars>>

AfterReply == IF deployed = "service" THEN "store" ELSE "accept"

ReplyArrives(t) ==
    /\ pc[t] = "taken"
    /\ reply' = [reply EXCEPT ![t] = engine[cur[t]]]
    /\ Goto(t, AfterReply)
    /\ UNCHANGED <<deployed, requestVars, cur, storeVars, engineVars, queryVars, payments,
                   accountVars>>

\* The matching service goes down, or the connection, before the reply is there.
ReplyLost(t) ==
    /\ pc[t] = "taken"
    /\ lost_reply' = lost_reply \cup {cur[t]}
    /\ Goto(t, "give back") /\ Enter(t, "unfreeze")
    /\ UNCHANGED <<deployed, requestVars, cur, reply, storeVars, engine, queryVars, payments,
                   balance, frozen, peak>>

GaveBack(t) ==
    /\ pc[t] = "give back" /\ At(t, "yes")
    /\ Answer(t, "refused") /\ Leave(t)
    /\ UNCHANGED <<deployed, request, reply, storeVars, engineVars, queryVars, payments,
                   balance, frozen, peak>>
-----------------------------------------------------------------------------
(* The rest of SubmitOrder *)

Status(o, remaining) ==
    IF remaining = 0 THEN "FILLED" ELSE IF remaining < o.quantity THEN "PARTIAL" ELSE "PENDING"

StoredSlip(t) == [remaining |-> Sent(t).quantity - reply[t], status |-> Status(Sent(t), reply[t])]
Stored(t) == [remaining |-> reply[t], status |-> Status(Sent(t), reply[t])]

\* handle_trade_event, between this and the update, does nothing.
Store(t) ==
    /\ pc[t] = "store" /\ Free
    /\ orders_' = Extend(orders_, cur[t], Stored(t))
    /\ user_orders_' = [user_orders_ EXCEPT ![Sent(t).user] = Append(@, cur[t])]
    /\ Goto(t, "update")
    /\ UNCHANGED <<deployed, requestVars, cur, reply, orders_mutex_, engineVars, queryVars, payments,
                   accountVars>>

\* update_order_from_match, in a critical section of its own.
Update(t) ==
    /\ pc[t] = "update" /\ Free
    /\ orders_' = [orders_ EXCEPT ![cur[t]] = Stored(t)]
    /\ Goto(t, "accept")
    /\ UNCHANGED <<deployed, requestVars, cur, reply, user_orders_, orders_mutex_, engineVars,
                   queryVars, payments, accountVars>>

\* The variant with CQRS answers without having stored anything.
Accept(t) ==
    /\ pc[t] = "accept"
    /\ Answer(t, "accepted")
    /\ reply' = [reply EXCEPT ![t] = NoReply]
    /\ UNCHANGED <<deployed, request, storeVars, engineVars, queryVars, payments, accountVars>>
-----------------------------------------------------------------------------
(* CancelOrder *)

\* The service looks the order up and then holds orders_mutex_ over the remote call.
Cancel(t, u, n) ==
    /\ pc[t] = "idle" /\ deployed = "service" /\ Free
    /\ n \in DOMAIN orders_ /\ request[n].user = u /\ orders_[n].status # "FILLED"
    /\ orders_mutex_' = t
    /\ Goto(t, "cancel")
    /\ UNCHANGED <<deployed, requestVars, cur, reply, orders_, user_orders_, engineVars, queryVars,
                   payments, accountVars>>

\* The CQRS variant asks the matching service at once.
CancelAtOnce(t) ==
    /\ pc[t] = "idle" /\ deployed = "cqrs" /\ request # <<>>
    /\ Goto(t, "cancel")
    /\ UNCHANGED <<deployed, requestVars, cur, reply, storeVars, engineVars, queryVars, payments,
                   accountVars>>

ReleasedSlip(t) == orders_mutex_
Released(t) == IF orders_mutex_ = t THEN Nobody ELSE orders_mutex_

\* The call fails or its answer is a refusal: "Failed to cancel order".
CancelRefused(t) ==
    /\ pc[t] = "cancel"
    /\ orders_mutex_' = Released(t)
    /\ Goto(t, "idle")
    /\ UNCHANGED <<deployed, requestVars, cur, reply, orders_, user_orders_, engineVars, queryVars,
                   payments, accountVars>>
-----------------------------------------------------------------------------
(* QueryUserOrders *)

Accepted == {n \in DOMAIN outcome : outcome[n] = "accepted"}
OrdersOf(u) == {n \in DOMAIN request : request[n].user = u}

BeginQuery(t, u) ==
    /\ pc[t] = "idle"
    /\ known' = [known EXCEPT ![t] = Accepted \cap OrdersOf(u)]
    /\ cur' = [cur EXCEPT ![t] = u]
    /\ Goto(t, "query")
    /\ UNCHANGED <<deployed, requestVars, reply, storeVars, engineVars, shown, payments, accountVars>>

Listed(u) == {n \in ToSet(user_orders_[u]) : n \in DOMAIN orders_}

\* The views the CQRS variant reads are never filled: updateOrderView and the other
\* two are empty, so the index of a user's orders is too.
Query(t) ==
    /\ pc[t] = "query" /\ (deployed = "service" => Free)
    /\ shown' = [shown EXCEPT ![t] = IF deployed = "service" THEN Listed(cur[t]) ELSE {}]
    /\ Goto(t, "answer")
    /\ UNCHANGED <<deployed, requestVars, cur, reply, storeVars, engineVars, known, payments,
                   accountVars>>

EndQuery(t) ==
    /\ pc[t] = "answer"
    /\ known' = [known EXCEPT ![t] = {}] /\ shown' = [shown EXCEPT ![t] = {}]
    /\ cur' = [cur EXCEPT ![t] = 0]
    /\ Goto(t, "idle")
    /\ UNCHANGED <<deployed, requestVars, reply, storeVars, engineVars, payments, accountVars>>
-----------------------------------------------------------------------------
Pay(u, amount) ==
    /\ payments < MaxPayments
    /\ payments' = payments + 1
    /\ UpdateBalance(u, amount)
    /\ UNCHANGED <<deployed, requestVars, threadVars, storeVars, engineVars, queryVars>>

InAccount(t) ==
    /\ pc[t] \in {"check", "freeze", "give back"}
    /\ AccountStep(t, Sent(t).user, Margin(Sent(t)))
    /\ UNCHANGED <<deployed, requestVars, threadVars, storeVars, engineVars, queryVars, payments>>

Remote(t) == RequestLost(t) \/ EngineTakes(t) \/ ReplyArrives(t) \/ ReplyLost(t) \/ CancelRefused(t)

Local(t) == \/ PassesChecks(t) \/ FailsChecks(t) \/ FailsToFreeze(t) \/ Froze(t) \/ GaveBack(t)
            \/ Store(t) \/ Update(t) \/ Accept(t) \/ Query(t) \/ EndQuery(t)

Request(t) == \/ \E o \in Requests : Submit(t, o)
              \/ \E u \in Users : BeginQuery(t, u) \/ (\E n \in DOMAIN orders_ : Cancel(t, u, n))
              \/ CancelAtOnce(t)

Next == \/ \E t \in Threads : Request(t) \/ InAccount(t) \/ Remote(t) \/ Local(t)
        \/ \E u \in Users, amount \in Payments : Pay(u, amount)

Spec == Init /\ [][Next]_vars

\* A thread's wait: for the mutex, or for an exchange to succeed.
Waits(t) ==
    \/ Store(t) \/ Update(t) \/ Query(t)
    \/ /\ InAccount(t)
       /\ \/ FreezeSwaps(t, Sent(t).user, Margin(Sent(t)))
          \/ UnfreezeSwaps(t, Sent(t).user, Margin(Sent(t)))

\* Threads run; a remote call ends one way or the other; a mutex that is free again
\* and again is got, and an exchange that is possible again and again succeeds.
Fairness == \A t \in Threads :
    WF_vars(InAccount(t) \/ Remote(t) \/ Local(t)) /\ SF_vars(Waits(t))

FairSpec == Spec /\ Fairness
-----------------------------------------------------------------------------
(* What the service promises. *)

Labels == {"idle", "check", "freeze", "call", "taken", "give back", "store", "update", "accept",
           "cancel", "query", "answer"}

\* Type correctness.
TypeOK ==
    /\ AccountTypeOK
    /\ deployed \in {"service", "cqrs"}
    /\ request \in Seq(Requests) /\ outcome \in Seq({"open", "accepted", "refused"})
    /\ Len(request) = Len(outcome)
    /\ pc \in [Threads -> Labels] /\ reply \in [Threads -> Int]
    /\ \A t \in Threads : pc[t] \notin {"idle", "cancel", "query", "answer"} =>
                             cur[t] \in DOMAIN request
    /\ DOMAIN orders_ \subseteq DOMAIN request /\ DOMAIN engine \subseteq DOMAIN request
    /\ user_orders_ \in [Users -> Seq(DOMAIN request)]
    /\ orders_mutex_ \in Threads \cup {Nobody}
    /\ lost_reply \subseteq DOMAIN engine
    /\ known \in [Threads -> SUBSET DOMAIN request] /\ shown \in [Threads -> SUBSET DOMAIN request]
    /\ payments \in 0 .. MaxPayments

\* The order of thread t has its margin frozen.
Freezing(t) == \/ pc[t] = "freeze" /\ At(t, "yes")
               \/ pc[t] \in {"call", "taken", "store", "update", "accept"}
               \/ pc[t] = "give back" /\ ~At(t, "yes")

Held(n) == outcome[n] = "accepted" \/ \E t \in Threads : cur[t] = n /\ Freezing(t)

HeldOf(u) == {n \in OrdersOf(u) : Held(n)}

Margins == [n \in DOMAIN request |-> Margin(request[n])]

\* freezeBalance and unfreezeBalance under concurrent submissions: what is frozen is
\* the margin of the orders accepted and of those in progress, to the unit; nothing
\* is frozen twice, given back twice, or left behind by an order that was refused.
FrozenIsHeld == \A u \in Users : frozen[u] = SumFunctionOnSet(Margins, HeldOf(u))

\* freezeBalance checks a balance and a frozen amount loaded at different times:
\* still, never more is frozen than the largest balance the account has had.
FrozenWithinPeak == \A u \in Users : frozen[u] <= peak[u]

\* SubmitOrder and the matching service: an accepted order is in the engine, and an
\* order in the engine has its margin frozen unless the reply to it was lost.
MarginCoversEngine ==
    /\ Accepted \subseteq DOMAIN engine
    /\ \A n \in DOMAIN engine : Held(n) \/ n \in lost_reply

\* All that keeps an account's money where it belongs, at any moment: what is frozen
\* is what orders hold.
MarginExplained == TypeOK /\ FrozenIsHeld

\* Requests of any number of threads against a remote engine: nothing is frozen that
\* the account never had, and no order is in the engine without its margin but those
\* the service never heard of.
MarginCovered == FrozenWithinPeak /\ MarginCoversEngine

\* orders_ and user_orders_: what is stored is listed once, with its user, and says
\* what the engine answered; the service stores exactly the orders it accepts, the
\* CQRS variant none.
StoreIsExact ==
    /\ \A u \in Users :
         /\ ToSet(user_orders_[u]) = DOMAIN orders_ \cap OrdersOf(u)
         /\ Len(user_orders_[u]) = Cardinality(ToSet(user_orders_[u]))
    /\ \A n \in DOMAIN orders_ :
         orders_[n] = [remaining |-> engine[n], status |-> Status(request[n], engine[n])]
    /\ DOMAIN orders_ \cap {n \in DOMAIN outcome : outcome[n] = "refused"} = {}
    /\ deployed = "service" => Accepted \subseteq DOMAIN orders_
    /\ deployed = "cqrs" => DOMAIN orders_ = {}

\* QueryUserOrders under concurrent submissions: every order acknowledged before the
\* query began is in its answer.
AcknowledgedIsShown == \A t \in Threads : pc[t] = "answer" => known[t] \subseteq shown[t]

\* The same of the service without CQRS.
ServiceShowsAcknowledged == deployed = "service" => AcknowledgedIsShown

\* The orders of the service are those its clients have been told of.
OrdersShown == StoreIsExact /\ ServiceShowsAcknowledged

\* Every request is answered, though threads retry exchanges and wait for the mutex
\* another holds over a remote call.
EveryRequestAnswered == \A t \in Threads : pc[t] # "idle" ~> pc[t] = "idle"
=============================================================================
