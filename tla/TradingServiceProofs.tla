-------------------------- MODULE TradingServiceProofs --------------------------
(***************************************************************************)
(* What the trading service keeps for any number of threads, users, orders *)
(* and payments: never more is frozen than an account has had, and what    *)
(* the engine holds is covered; what is frozen is what orders hold; what   *)
(* is stored is what was accepted.  And what the stores behind it keep:    *)
(* the replication of events, compress_events and its worker, the event    *)
(* stream with both of its read sides, the versions of an event.           *)
(***************************************************************************)
EXTENDS TradingService, EventReplication, EventCompression, EventStreams, EventVersions,
        SumTheorems, SequenceTheorems, TLAPS

\* Where a thread has an order of its own in progress, and where that order is with
\* the engine.
Working == {"check", "freeze", "call", "taken", "give back", "store", "update", "accept"}
Before == {"check", "freeze", "call"}
After == {"taken", "store", "update", "accept"}

\* The steps of a call that remember something.
Remembering == {"freeze frozen", "freeze swap", "unfreeze swap"}

\* The orders and what became of them.
Outcomes == {"open", "accepted", "refused"}

OrderType ==
    /\ request \in Seq(Requests)
    /\ outcome \in Seq(Outcomes)
    /\ Len(outcome) = Len(request)
    /\ pc \in [Threads -> Labels] /\ DOMAIN cur = Threads
    /\ DOMAIN engine \subseteq DOMAIN request

\* Each thread at work has an open order, which no other thread has; the engine has
\* it or not, as the thread's place tells.
OwnOrder(t) ==
    pc[t] \in Working =>
        /\ cur[t] \in DOMAIN request /\ outcome[cur[t]] = "open"
        /\ \A s \in Threads : pc[s] \in Working /\ cur[s] = cur[t] => s = t
        /\ pc[t] \in Before => cur[t] \notin DOMAIN engine
        /\ pc[t] \in After => cur[t] \in DOMAIN engine
        /\ pc[t] = "give back" => cur[t] \notin DOMAIN engine \/ cur[t] \in lost_reply

\* Where an order that the engine has got to.
Covered ==
    \A n \in DOMAIN engine :
        \/ outcome[n] = "accepted" \/ n \in lost_reply
        \/ \E t \in Threads : pc[t] \in After /\ cur[t] = n

OrderInv ==
    /\ OrderType
    /\ \A t \in Threads : OwnOrder(t)
    /\ Covered
    /\ Accepted \subseteq DOMAIN engine

\* What a call has loaded was so once, and what it is about to write is within it.
Remembers(t) ==
    /\ call[t].at \in Steps => pc[t] \in {"check", "freeze", "give back"}
    /\ call[t].at \in Remembering => Margin(Sent(t)) > 0
    /\ call[t].at \in {"freeze frozen", "freeze swap"} => call[t].seen <= peak[Sent(t).user]
    /\ call[t].at = "freeze swap" => call[t].expected + Margin(Sent(t)) <= call[t].seen

AccountInv ==
    /\ AccountTypeOK
    /\ \A u \in Users : balance[u] <= peak[u] /\ frozen[u] <= peak[u]
    /\ \A t \in Threads : Remembers(t)

TradingInv == OrderInv /\ AccountInv
-----------------------------------------------------------------------------
\* A margin is a number, and is one's that there is.
LEMMA MarginIsInt ==
    ASSUME NEW n \in DOMAIN request, OrderType
    PROVE  request[n] \in Order /\ request[n].user \in Users /\ Margin(request[n]) \in Int
<1>1. request[n] \in Order
  BY TradingAssumption DEF OrderType
<1> QED BY <1>1 DEF Order, Margin

\* An order is given an outcome.
LEMMA OutcomeGiven ==
    ASSUME outcome \in Seq(Outcomes), NEW n \in 1 .. Len(outcome), NEW result \in Outcomes,
           outcome' = [outcome EXCEPT ![n] = result]
    PROVE  outcome' \in Seq(Outcomes) /\ Len(outcome') = Len(outcome)
  BY ExceptSeq

\* Each order sent has an outcome.
LEMMA SameOrders ==
    ASSUME OrderType
    PROVE  DOMAIN outcome = DOMAIN request /\ DOMAIN outcome = 1 .. Len(outcome)
<1>1. /\ request \in Seq(Requests) /\ outcome \in Seq(Outcomes)
      /\ Len(outcome) = Len(request)
  BY DEF OrderType
<1>2. DOMAIN outcome = 1 .. Len(outcome) /\ DOMAIN request = 1 .. Len(request)
  BY <1>1
<1> QED BY <1>1, <1>2

LEMMA TradingInitial == Init => TradingInv
<1> SUFFICES ASSUME Init PROVE TradingInv
  OBVIOUS
<1>1. OrderInv
  <2>1. DOMAIN outcome = {} /\ DOMAIN engine = {}
    BY DEF Init
  <2>2. \A t \in Threads : pc[t] = "idle"
    BY DEF Init
  <2>3. OrderType
    BY <2>1 DEF Init, OrderType, Labels
  <2>4. \A t \in Threads : OwnOrder(t)
    BY <2>2 DEF OwnOrder, Working
  <2> QED BY <2>1, <2>3, <2>4 DEF OrderInv, Covered, Accepted
<1>2. AccountInv
  <2>1. AccountTypeOK
    <3>1. 0 \in 0 .. MaxBalance /\ 0 \in Nat
      BY BalanceAssumption
    <3>2. Out \in [at : Steps \cup {"out", "yes", "no"}, seen : 0 .. MaxBalance, expected : Nat]
      BY <3>1 DEF Out
    <3> QED BY <3>1, <3>2 DEF Init, AccountInit, AccountTypeOK
  <2>2. \A u \in Users : balance[u] <= peak[u] /\ frozen[u] <= peak[u]
    <3>1. \A u \in Users : balance[u] = 0 /\ frozen[u] = 0 /\ peak[u] = 0
      BY DEF Init, AccountInit
    <3>2. 0 <= 0
      OBVIOUS
    <3> QED BY <3>1, <3>2, Zenon
  <2>3. \A t \in Threads : call[t].at = "out"
    BY DEF Init, AccountInit, Out
  <2>4. \A t \in Threads : Remembers(t)
    BY <2>3 DEF Remembers, Remembering, Steps
  <2> QED BY <2>1, <2>2, <2>4 DEF AccountInv
<1> QED BY <1>1, <1>2 DEF TradingInv
-----------------------------------------------------------------------------
(* The orders *)

\* Steps that concern neither an order nor where a thread is.
LEMMA OrdersStay ==
    ASSUME OrderInv, UNCHANGED <<request, outcome, pc, cur, engine, lost_reply>>
    PROVE  OrderInv'
  BY DEF OrderInv, OrderType, OwnOrder, Covered, Accepted

\* Thread t, at work, goes on without an answer, and the engine gains its order or not.
LEMMA OrderMoves ==
    ASSUME OrderInv, NEW t \in Threads, pc[t] \in Working, NEW next \in Working,
           pc' = [pc EXCEPT ![t] = next],
           UNCHANGED <<request, outcome, cur>>,
           DOMAIN engine \subseteq DOMAIN engine',
           DOMAIN engine' \subseteq DOMAIN engine \cup {cur[t]},
           lost_reply \subseteq lost_reply',
           next \in Before => cur[t] \notin DOMAIN engine',
           next \in After => cur[t] \in DOMAIN engine',
           next = "give back" => cur[t] \notin DOMAIN engine' \/ cur[t] \in lost_reply'
    PROVE  OrderInv'
<1>1. OrderType /\ (\A s \in Threads : OwnOrder(s)) /\ Covered /\ Accepted \subseteq DOMAIN engine
  BY DEF OrderInv
<1>2. next \in Labels /\ cur[t] \in DOMAIN request
  BY <1>1 DEF Working, Labels, OwnOrder
<1>3. OrderType'
  BY <1>1, <1>2 DEF OrderType
<1>4. pc'[t] = next /\ \A s \in Threads : s # t => pc'[s] = pc[s]
  BY <1>1 DEF OrderType
<1>5. \A s \in Threads : OwnOrder(s)'
  <2> SUFFICES ASSUME NEW s \in Threads, pc'[s] \in Working PROVE OwnOrder(s)'
    BY DEF OwnOrder
  <2>1. pc[s] \in Working /\ OwnOrder(s) /\ OwnOrder(t)
    BY <1>1, <1>4
  <2>2. \A r \in Threads : pc'[r] \in Working /\ cur'[r] = cur'[s] => r = s
    BY <2>1, <1>4 DEF OwnOrder
  <2>3. CASE s = t
    BY <2>1, <2>2, <2>3, <1>4 DEF OwnOrder
  <2>4. CASE s # t
    <3>1. cur[s] # cur[t]
      BY <2>1, <2>4 DEF OwnOrder
    <3>2. cur[s] \in DOMAIN engine' <=> cur[s] \in DOMAIN engine
      BY <3>1
    <3> QED BY <2>1, <2>2, <2>4, <3>2, <1>4 DEF OwnOrder
  <2> QED BY <2>3, <2>4
<1>6. Covered'
  <2> SUFFICES ASSUME NEW n \in DOMAIN engine', outcome[n] # "accepted", n \notin lost_reply'
               PROVE  \E s \in Threads : pc'[s] \in After /\ cur[s] = n
    BY DEF Covered
  <2>1. CASE n = cur[t]
    <3>1. next \notin Before /\ next # "give back"
      BY <2>1
    <3>2. next \in After
      BY <3>1 DEF Working, Before, After
    <3> QED BY <2>1, <3>2, <1>4
  <2>2. CASE n # cur[t]
    <3>1. n \in DOMAIN engine /\ n \notin lost_reply
      BY <2>2
    <3>2. PICK s \in Threads : pc[s] \in After /\ cur[s] = n
      BY <1>1, <3>1 DEF Covered
    <3> QED BY <2>2, <3>2, <1>4
  <2> QED BY <2>1, <2>2
<1>7. (Accepted \subseteq DOMAIN engine)'
  BY <1>1 DEF Accepted
<1> QED BY <1>3, <1>5, <1>6, <1>7 DEF OrderInv

\* A thread without an order comes and goes.
LEMMA OtherMoves ==
    ASSUME OrderInv, NEW t \in Threads, pc[t] \notin Working, NEW next \in Labels \ Working,
           pc' = [pc EXCEPT ![t] = next], DOMAIN cur' = Threads,
           \A s \in Threads \ {t} : cur'[s] = cur[s],
           UNCHANGED <<request, outcome, engine, lost_reply>>
    PROVE  OrderInv'
<1>1. OrderType /\ (\A s \in Threads : OwnOrder(s)) /\ Covered /\ Accepted \subseteq DOMAIN engine
  BY DEF OrderInv
<1>2. OrderType'
  BY <1>1 DEF OrderType
<1>3. pc'[t] = next /\ \A s \in Threads : s # t => pc'[s] = pc[s]
  BY <1>1 DEF OrderType
<1>4. ASSUME NEW s \in Threads PROVE OwnOrder(s)'
  <2> SUFFICES ASSUME pc'[s] \in Working PROVE OwnOrder(s)'
    BY DEF OwnOrder
  <2>1. s # t /\ pc[s] \in Working /\ OwnOrder(s) /\ cur'[s] = cur[s]
    BY <1>1, <1>3
  <2>2. \A r \in Threads : pc'[r] \in Working => r # t /\ pc[r] \in Working /\ cur'[r] = cur[r]
    BY <1>3
  <2> QED BY <2>1, <2>2, <1>3 DEF OwnOrder
<1>5. Covered'
  <2>1. \A s \in Threads : pc[s] \in After => s # t
    BY DEF After, Working
  <2> QED BY <1>1, <1>3, <2>1 DEF Covered
<1>6. (Accepted \subseteq DOMAIN engine)'
  BY <1>1 DEF Accepted
<1> QED BY <1>2, <1>4, <1>5, <1>6 DEF OrderInv

\* Thread t is told what became of its order, and leaves it.
LEMMA OrderEnds ==
    ASSUME OrderInv, NEW t \in Threads, pc[t] \in Working, NEW result \in {"accepted", "refused"},
           Answer(t, result), UNCHANGED <<request, engine, lost_reply>>,
           result = "accepted" => pc[t] \in After,
           result = "refused" => pc[t] \in Before \cup {"give back"}
    PROVE  OrderInv'
<1>1. OrderType /\ (\A s \in Threads : OwnOrder(s)) /\ Covered /\ Accepted \subseteq DOMAIN engine
  BY DEF OrderInv
<1>2. /\ cur[t] \in DOMAIN request /\ outcome[cur[t]] = "open"
      /\ DOMAIN outcome = DOMAIN request
      /\ \A s \in Threads : pc[s] \in Working /\ cur[s] = cur[t] => s = t
  <2>1. DOMAIN outcome = DOMAIN request
    BY <1>1, SameOrders
  <2> QED BY <1>1, <2>1 DEF OwnOrder
<1>3. /\ outcome' = [outcome EXCEPT ![cur[t]] = result]
      /\ pc' = [pc EXCEPT ![t] = "idle"] /\ cur' = [cur EXCEPT ![t] = 0]
  BY DEF Answer
<1>4. /\ DOMAIN outcome' = DOMAIN outcome /\ outcome'[cur[t]] = result
      /\ \A n \in DOMAIN outcome : n # cur[t] => outcome'[n] = outcome[n]
  BY <1>2, <1>3
<1>5. /\ pc'[t] \notin Working
      /\ \A s \in Threads : s # t => pc'[s] = pc[s] /\ cur'[s] = cur[s]
  BY <1>1, <1>3 DEF OrderType, Working
<1>6. OrderType'
  <2>1. outcome' \in Seq(Outcomes) /\ Len(outcome') = Len(request)
    <3>1. result \in Outcomes /\ cur[t] \in 1 .. Len(outcome)
      BY <1>1, <1>2, SameOrders DEF Outcomes
    <3>2. outcome \in Seq(Outcomes) /\ Len(outcome) = Len(request)
      BY <1>1 DEF OrderType
    <3> QED BY <3>1, <3>2, <1>3, OutcomeGiven
  <2> QED BY <1>1, <1>3, <2>1 DEF OrderType, Labels
<1>7. ASSUME NEW s \in Threads PROVE OwnOrder(s)'
  <2> SUFFICES ASSUME pc'[s] \in Working PROVE OwnOrder(s)'
    BY DEF OwnOrder
  <2>1. s # t /\ pc[s] \in Working /\ OwnOrder(s) /\ cur'[s] = cur[s]
    BY <1>1, <1>5
  <2>2. outcome'[cur[s]] = "open"
    <3>1. cur[s] # cur[t] /\ cur[s] \in DOMAIN outcome /\ outcome[cur[s]] = "open"
      BY <2>1, <1>2 DEF OwnOrder
    <3> QED BY <3>1, <1>4
  <2>3. \A r \in Threads : pc'[r] \in Working => r # t /\ pc[r] \in Working /\ cur'[r] = cur[r]
    BY <1>5
  <2> QED BY <2>1, <2>2, <2>3, <1>5 DEF OwnOrder
<1>8. Covered'
  <2> SUFFICES ASSUME NEW n \in DOMAIN engine, outcome'[n] # "accepted", n \notin lost_reply
               PROVE  \E s \in Threads : pc'[s] \in After /\ cur'[s] = n
    BY DEF Covered
  <2>1. n \in DOMAIN outcome
    BY <1>1, <1>2 DEF OrderType
  <2>2. n # cur[t]
    <3>1. CASE result = "accepted"
      BY <3>1, <1>4
    <3>2. CASE result = "refused"
      BY <3>2, <1>1 DEF OwnOrder
    <3> QED BY <3>1, <3>2
  <2>3. PICK s \in Threads : pc[s] \in After /\ cur[s] = n
    BY <1>1, <1>4, <2>1, <2>2 DEF Covered
  <2> QED BY <2>2, <2>3, <1>5
<1>9. (Accepted \subseteq DOMAIN engine)'
  <2> SUFFICES ASSUME NEW n \in DOMAIN outcome, outcome'[n] = "accepted" PROVE n \in DOMAIN engine
    BY <1>4 DEF Accepted
  <2>1. CASE n = cur[t]
    BY <2>1, <1>1, <1>4 DEF OwnOrder
  <2>2. CASE n # cur[t]
    BY <2>2, <1>1, <1>4 DEF Accepted
  <2> QED BY <2>1, <2>2
<1> QED BY <1>6, <1>7, <1>8, <1>9 DEF OrderInv

\* An order comes, refused at once or given to thread t.
LEMMA OrderComes ==
    ASSUME OrderInv, NEW t \in Threads, NEW o \in Requests, Submit(t, o)
    PROVE  OrderInv'
<1>1. OrderType /\ (\A s \in Threads : OwnOrder(s)) /\ Covered /\ Accepted \subseteq DOMAIN engine
  BY DEF OrderInv
<1> DEFINE n == Len(request) + 1
<1>2. /\ request' = Append(request, o) /\ pc[t] = "idle"
      /\ UNCHANGED <<engine, lost_reply>>
  BY DEF Submit, engineVars
<1>3. /\ n \in Nat \ {0} /\ n \notin DOMAIN request /\ DOMAIN outcome = DOMAIN request
      /\ request' \in Seq(Requests) /\ Len(request') = n
      /\ DOMAIN request' = DOMAIN request \cup {n}
  BY <1>1, <1>2 DEF OrderType
<1>4. PICK result \in {"open", "refused"} :
        /\ outcome' = Append(outcome, result)
        /\ \/ result = "refused" /\ UNCHANGED <<pc, cur>>
           \/ /\ result = "open"
              /\ pc' = [pc EXCEPT ![t] = "check"] /\ cur' = [cur EXCEPT ![t] = n]
  <2>1. CASE IsValid(o)
    BY <2>1 DEF Submit, Goto
  <2>2. CASE ~IsValid(o)
    BY <2>2 DEF Submit
  <2> QED BY <2>1, <2>2
<1>5. /\ outcome' \in Seq(Outcomes) /\ Len(outcome') = n
      /\ DOMAIN outcome' = DOMAIN outcome \cup {n} /\ outcome'[n] = result
      /\ \A m \in DOMAIN outcome : outcome'[m] = outcome[m]
  BY <1>1, <1>3, <1>4 DEF OrderType, Outcomes
<1>6. \A s \in Threads : s # t => pc'[s] = pc[s] /\ cur'[s] = cur[s]
  BY <1>1, <1>4 DEF OrderType
<1>7. \/ pc'[t] = "idle" /\ pc' = pc
      \/ pc'[t] = "check" /\ cur'[t] = n /\ outcome'[n] = "open"
  BY <1>1, <1>2, <1>4, <1>5 DEF OrderType
<1>8. OrderType'
  <2>1. pc' \in [Threads -> Labels] /\ DOMAIN cur' = Threads
    BY <1>1, <1>4 DEF OrderType, Labels
  <2>2. DOMAIN engine' \subseteq DOMAIN request'
    BY <1>1, <1>2, <1>3 DEF OrderType
  <2> QED BY <2>1, <2>2, <1>3, <1>5 DEF OrderType
<1>9. \A s \in Threads : pc[s] \in Working => cur[s] # n /\ s # t
  <2>1. "idle" \notin Working
    BY DEF Working
  <2> QED BY <2>1, <1>1, <1>2, <1>3 DEF OwnOrder
<1>10. ASSUME NEW s \in Threads PROVE OwnOrder(s)'
  <2> SUFFICES ASSUME pc'[s] \in Working PROVE OwnOrder(s)'
    BY DEF OwnOrder
  <2>1. CASE s = t
    <3>1. pc'[t] = "check" /\ cur'[t] = n /\ outcome'[n] = "open"
      BY <2>1, <1>7 DEF Working
    <3>2. n \notin DOMAIN engine
      BY <1>1, <1>3 DEF OrderType
    <3>3. \A r \in Threads : pc'[r] \in Working /\ cur'[r] = n => r = t
      BY <1>6, <1>9
    <3> QED BY <2>1, <3>1, <3>2, <3>3, <1>2, <1>3 DEF OwnOrder, After
  <2>2. CASE s # t
    <3>1. OwnOrder(s) /\ pc[s] \in Working /\ pc'[s] = pc[s] /\ cur'[s] = cur[s] /\ cur[s] # n
      BY <2>2, <1>1, <1>6, <1>9
    <3>2. cur[s] \in DOMAIN request' /\ outcome'[cur[s]] = "open"
      BY <3>1, <1>3, <1>5 DEF OwnOrder
    <3>3. \A r \in Threads : pc'[r] \in Working /\ cur'[r] = cur[s] => r = s
      <4> TAKE r \in Threads
      <4>1. CASE r = t
        BY <3>1, <4>1, <1>7 DEF Working
      <4>2. CASE r # t
        BY <3>1, <4>2, <1>6 DEF OwnOrder
      <4> QED BY <4>1, <4>2
    <3> QED BY <3>1, <3>2, <3>3, <1>2 DEF OwnOrder
  <2> QED BY <2>1, <2>2
<1>11. Covered'
  <2> SUFFICES ASSUME NEW m \in DOMAIN engine, outcome'[m] # "accepted", m \notin lost_reply
               PROVE  \E s \in Threads : pc'[s] \in After /\ cur'[s] = m
    BY <1>2 DEF Covered
  <2>1. m \in DOMAIN outcome /\ outcome[m] # "accepted"
    BY <1>1, <1>3, <1>5 DEF OrderType
  <2>2. PICK s \in Threads : pc[s] \in After /\ cur[s] = m
    BY <1>1, <2>1 DEF Covered
  <2>3. s # t
    BY <2>2, <1>2 DEF After
  <2> QED BY <2>2, <2>3, <1>6
<1>12. (Accepted \subseteq DOMAIN engine)'
  BY <1>1, <1>2, <1>3, <1>4, <1>5 DEF Accepted
<1> QED BY <1>8, <1>10, <1>11, <1>12 DEF OrderInv
-----------------------------------------------------------------------------
(* The accounts *)

Calling == {"check", "freeze", "give back"}

Calls == [at : Steps \cup {"out", "yes", "no"}, seen : 0 .. MaxBalance, expected : Nat]

\* What the call of another thread remembers stays true, for its order is the same.
LEMMA CallChanges ==
    ASSUME AccountInv, NEW t \in Threads,
           UNCHANGED <<balance, peak>>,
           frozen' \in [Users -> Nat], \A u \in Users : frozen'[u] <= peak[u],
           call' \in [Threads -> Calls], \A s \in Threads \ {t} : call'[s] = call[s],
           Remembers(t)',
           \A s \in Threads \ {t} : pc[s] \in Calling => pc'[s] = pc[s] /\ Sent(s)' = Sent(s)
    PROVE  AccountInv'
<1>1. AccountTypeOK'
  BY DEF AccountInv, AccountTypeOK, Calls
<1>2. \A u \in Users : balance'[u] <= peak'[u] /\ frozen'[u] <= peak'[u]
  BY DEF AccountInv
<1>3. ASSUME NEW s \in Threads \ {t} PROVE Remembers(s)'
  <2>1. Remembers(s) /\ call'[s] = call[s]
    BY DEF AccountInv
  <2>2. CASE call[s].at \in Steps
    <3>1. pc[s] \in Calling
      BY <2>1, <2>2 DEF Remembers, Calling
    <3>2. pc'[s] = pc[s] /\ Sent(s)' = Sent(s)
      BY <3>1
    <3>3. Margin(Sent(s))' = Margin(Sent(s)) /\ peak' = peak
      BY <3>2 DEF Margin
    <3> QED BY <2>1, <3>2, <3>3 DEF Remembers
  <2>3. CASE call[s].at \notin Steps
    <3>1. call[s].at \notin {"freeze frozen", "freeze swap", "unfreeze swap"}
      BY <2>3 DEF Steps
    <3> QED BY <2>1, <2>3, <3>1 DEF Remembers, Remembering
  <2> QED BY <2>2, <2>3
<1> QED BY <1>1, <1>2, <1>3 DEF AccountInv

\* A thread that is not in a call does something else.
LEMMA CallsStay ==
    ASSUME OrderInv, AccountInv, NEW t \in Threads, pc[t] \notin Calling,
           pc'[t] \notin Calling \/ pc'[t] = pc[t],
           UNCHANGED <<request, accountVars>>,
           \A s \in Threads \ {t} : pc'[s] = pc[s] /\ cur'[s] = cur[s]
    PROVE  AccountInv'
<1>1. /\ AccountTypeOK /\ Remembers(t)
      /\ call' = call /\ balance' = balance /\ frozen' = frozen /\ peak' = peak
  BY DEF AccountInv, accountVars
<1>2. call[t].at \notin Steps
  BY <1>1 DEF Remembers, Calling
<1>3. Remembers(t)'
  <2>1. call[t].at \notin {"freeze frozen", "freeze swap", "unfreeze swap"}
    BY <1>2 DEF Steps
  <2> QED BY <1>1, <1>2, <2>1 DEF Remembers, Remembering
<1>4. /\ frozen' \in [Users -> Nat] /\ (\A u \in Users : frozen'[u] <= peak[u])
      /\ call' \in [Threads -> Calls]
  BY <1>1 DEF AccountInv, AccountTypeOK, Calls
<1>5. \A s \in Threads \ {t} : pc'[s] = pc[s] /\ Sent(s)' = Sent(s)
  BY DEF Sent
<1> QED BY <1>1, <1>3, <1>4, <1>5, CallChanges

\* A thread starts a call, or leaves the one it is in.
LEMMA CallStarts ==
    ASSUME OrderInv, AccountInv, NEW t \in Threads,
           NEW step \in (Steps \ Remembering) \cup {"out"},
           call' = [call EXCEPT ![t] = [Out EXCEPT !.at = step]],
           UNCHANGED <<balance, frozen, peak>>,
           step \in Steps => pc'[t] \in Calling,
           \A s \in Threads \ {t} : pc[s] \in Calling => pc'[s] = pc[s] /\ Sent(s)' = Sent(s)
    PROVE  AccountInv'
<1>1. AccountTypeOK
  BY DEF AccountInv
<1>2. [Out EXCEPT !.at = step] = [at |-> step, seen |-> 0, expected |-> 0]
  BY DEF Out
<1>3. [Out EXCEPT !.at = step] \in Calls
  BY <1>2, BalanceAssumption DEF Calls
<1>4. /\ call' \in [Threads -> Calls] /\ (\A s \in Threads \ {t} : call'[s] = call[s])
      /\ call'[t].at = step
  BY <1>1, <1>2, <1>3 DEF AccountTypeOK, Calls
<1>5. Remembers(t)'
  <2>1. step \notin Remembering /\ step \notin {"freeze frozen", "freeze swap"}
    BY DEF Remembering, Steps
  <2> QED BY <1>4, <2>1 DEF Remembers, Calling
<1>6. frozen' \in [Users -> Nat] /\ \A u \in Users : frozen'[u] <= peak[u]
  BY DEF AccountInv, AccountTypeOK
<1> QED BY <1>4, <1>5, <1>6, CallChanges

\* One step of a call of the account manager.
LEMMA CallSteps ==
    ASSUME OrderInv, AccountInv, NEW t \in Threads, InAccount(t)
    PROVE  AccountInv'
<1> DEFINE u == Sent(t).user
           m == Margin(Sent(t))
<1>1. pc[t] \in Calling /\ AccountStep(t, u, m) /\ UNCHANGED <<pc, cur, request>>
  BY DEF InAccount, Calling, requestVars, threadVars
<1>2. u \in Users /\ m \in Int
  <2>1. cur[t] \in DOMAIN request /\ OrderType
    BY <1>1 DEF OrderInv, OwnOrder, Calling, Working
  <2> QED BY <2>1, MarginIsInt DEF Sent
<1>3. Sent(t)' = Sent(t) /\ \A s \in Threads : pc'[s] = pc[s] /\ Sent(s)' = Sent(s)
  BY <1>1 DEF Sent
<1>4. Margin(Sent(t))' = m /\ Sent(t)'.user = u
  BY <1>3 DEF Margin
<1>5. AccountTypeOK /\ Remembers(t)
  BY DEF AccountInv
<1>6. /\ balance[u] \in 0 .. MaxBalance /\ peak[u] \in 0 .. MaxBalance /\ frozen[u] \in Nat
      /\ balance[u] <= peak[u] /\ frozen[u] <= peak[u]
      /\ call[t].at \in Steps \cup {"out", "yes", "no"}
      /\ call[t].seen \in 0 .. MaxBalance /\ call[t].expected \in Nat
      /\ call \in [Threads -> Calls] /\ frozen \in [Users -> Nat]
      /\ \A v \in Users : frozen[v] <= peak[v]
  BY <1>2, <1>5 DEF AccountInv, AccountTypeOK, Calls
<1> HIDE DEF u, m
<1>7. ASSUME UNCHANGED <<balance, peak>>,
             frozen' \in [Users -> Nat], \A v \in Users : frozen'[v] <= peak[v],
             NEW c \in Calls, call' = [call EXCEPT ![t] = c], c.at \notin {"freeze swap"},
             c.at \in Remembering => m > 0,
             c.at = "freeze frozen" => c.seen <= peak[u]
      PROVE  AccountInv'
  <2>1. /\ call' \in [Threads -> Calls] /\ call'[t] = c
        /\ \A s \in Threads \ {t} : call'[s] = call[s]
    BY <1>6, <1>7
  <2>2. Remembers(t)'
    BY <1>1, <1>3, <1>4, <1>7, <2>1 DEF Remembers, Calling
  <2> QED BY <1>3, <1>7, <2>1, <2>2, CallChanges
<1>8. 0 \in 0 .. MaxBalance /\ 0 \in Nat
  BY BalanceAssumption
<1>9. ASSUME NEW answer \in {"yes", "no"}, UNCHANGED <<balance, peak>>, Return(t, answer),
             frozen' \in [Users -> Nat], \A v \in Users : frozen'[v] <= peak[v]
      PROVE  AccountInv'
  <2> DEFINE c == [Out EXCEPT !.at = answer]
  <2>1. c = [at |-> answer, seen |-> 0, expected |-> 0]
    BY DEF Out
  <2>2. c \in Calls /\ c.at = answer
    BY <2>1, <1>8 DEF Calls
  <2>3. c.at \notin Remembering /\ c.at # "freeze swap" /\ c.at # "freeze frozen"
    BY <2>2 DEF Remembering
  <2>4. call' = [call EXCEPT ![t] = c]
    BY <1>9 DEF Return
  <2> HIDE DEF c
  <2> QED BY <2>2, <2>3, <2>4, <1>7, <1>9
\* Loads
<1>10. ASSUME UNCHANGED <<balance, frozen, peak>>, NEW step \in Steps \ {"freeze swap"},
              call' \in [Threads -> Calls], \A s \in Threads \ {t} : call'[s] = call[s],
              call'[t].at = step, step \in Remembering => m > 0,
              step = "freeze frozen" => call'[t].seen <= peak[u]
       PROVE  AccountInv'
  <2>1. frozen' \in [Users -> Nat] /\ \A v \in Users : frozen'[v] <= peak[v]
    BY <1>6, <1>10
  <2>2. step \in Steps /\ step # "freeze swap"
    BY <1>10
  <2>3. Remembers(t)'
    BY <2>2, <1>1, <1>3, <1>4, <1>10 DEF Remembers, Calling
  <2> QED BY <2>1, <2>3, <1>3, <1>10, CallChanges
<1>11. ASSUME NEW step \in Steps, NEW seen \in 0 .. MaxBalance, NEW expected \in Nat,
              \/ /\ call' = [call EXCEPT ![t].at = step, ![t].seen = seen]
                 /\ expected = call[t].expected
              \/ /\ call' = [call EXCEPT ![t].at = step, ![t].expected = expected]
                 /\ seen = call[t].seen
       PROVE  /\ call' \in [Threads -> Calls] /\ \A s \in Threads \ {t} : call'[s] = call[s]
              /\ call'[t].at = step /\ call'[t].seen = seen /\ call'[t].expected = expected
  <2>1. CASE call' = [call EXCEPT ![t].at = step, ![t].seen = seen] /\ expected = call[t].expected
    BY <2>1, <1>6 DEF Calls
  <2>2. CASE call' = [call EXCEPT ![t].at = step, ![t].expected = expected] /\ seen = call[t].seen
    BY <2>2, <1>6 DEF Calls
  <2> QED BY <2>1, <2>2, <1>11
<1>12. ASSUME CheckLoadsBalance(t, u) PROVE AccountInv'
  <2>1. "check frozen" \in Steps \ {"freeze swap"} /\ "check frozen" \notin Remembering
    BY DEF Steps, Remembering
  <2>2. /\ call' = [call EXCEPT ![t].at = "check frozen", ![t].seen = balance[u]]
        /\ UNCHANGED <<balance, frozen, peak>>
    BY <1>12 DEF CheckLoadsBalance
  <2>3. /\ call' \in [Threads -> Calls] /\ \A s \in Threads \ {t} : call'[s] = call[s]
        /\ call'[t].at = "check frozen"
    BY <2>1, <2>2, <1>6, <1>11
  <2> QED BY <2>1, <2>2, <2>3, <1>10
<1>13. ASSUME CheckLoadsFrozen(t, u, m) PROVE AccountInv'
  <2>1. PICK answer \in {"yes", "no"} : Return(t, answer)
    BY <1>13 DEF CheckLoadsFrozen
  <2> QED BY <2>1, <1>6, <1>9, <1>13 DEF CheckLoadsFrozen
<1>14. ASSUME RefusesAmount(t, m) PROVE AccountInv'
  BY <1>6, <1>9, <1>14 DEF RefusesAmount
<1>15. ASSUME FreezeLoadsBalance(t, u, m) PROVE AccountInv'
  <2>1. "freeze frozen" \in Steps \ {"freeze swap"} /\ m > 0
    BY <1>15 DEF Steps, FreezeLoadsBalance
  <2>2. /\ call' = [call EXCEPT ![t].at = "freeze frozen", ![t].seen = balance[u]]
        /\ UNCHANGED <<balance, frozen, peak>>
    BY <1>15 DEF FreezeLoadsBalance
  <2>3. /\ call' \in [Threads -> Calls] /\ \A s \in Threads \ {t} : call'[s] = call[s]
        /\ call'[t].at = "freeze frozen" /\ call'[t].seen = balance[u]
    BY <2>1, <2>2, <1>6, <1>11
  <2> QED BY <2>1, <2>2, <2>3, <1>6, <1>10
<1>16. ASSUME FreezeLoadsFrozen(t, u, m) PROVE AccountInv'
  <2>1. m > 0 /\ call[t].seen <= peak[u] /\ UNCHANGED <<balance, frozen, peak>>
    <3>1. call[t].at = "freeze frozen" /\ "freeze frozen" \in Remembering
      BY <1>16 DEF FreezeLoadsFrozen, At, Remembering
    <3> QED BY <3>1, <1>5, <1>16 DEF Remembers, FreezeLoadsFrozen, u, m
  <2>2. CASE Covers(call[t].seen, frozen[u], m)
    <3>1. "freeze swap" \in Steps
      BY DEF Steps
    <3>2. /\ call' \in [Threads -> Calls] /\ \A s \in Threads \ {t} : call'[s] = call[s]
          /\ call'[t].at = "freeze swap" /\ call'[t].seen = call[t].seen
          /\ call'[t].expected = frozen[u]
      <4>1. call' = [call EXCEPT ![t].at = "freeze swap", ![t].expected = frozen[u]]
        BY <2>2, <1>16 DEF FreezeLoadsFrozen
      <4> QED BY <3>1, <4>1, <1>6, <1>11
    <3>3. frozen[u] + m <= call[t].seen
      BY <2>2, <1>2, <1>6 DEF Covers
    <3>4. Remembers(t)'
      BY <2>1, <3>2, <3>3, <1>1, <1>3, <1>4 DEF Remembers, Calling
    <3> QED BY <2>1, <3>2, <3>4, <1>3, <1>6, CallChanges
  <2>3. CASE ~Covers(call[t].seen, frozen[u], m)
    BY <2>1, <2>3, <1>6, <1>9, <1>16 DEF FreezeLoadsFrozen
  <2> QED BY <2>2, <2>3
<1>17. ASSUME FreezeSwaps(t, u, m) PROVE AccountInv'
  <2>1. m > 0 /\ call[t].seen <= peak[u] /\ call[t].expected + m <= call[t].seen
    <3>1. call[t].at = "freeze swap" /\ "freeze swap" \in Remembering
      BY <1>17 DEF FreezeSwaps, At, Remembering
    <3> QED BY <3>1, <1>5 DEF Remembers, u, m
  <2>2. frozen' = [frozen EXCEPT ![u] = call[t].expected + m]
    BY <1>17 DEF FreezeSwaps
  <2>3. call[t].expected + m \in Nat /\ call[t].expected + m <= peak[u]
    BY <2>1, <1>2, <1>6
  <2>4. frozen' \in [Users -> Nat] /\ \A v \in Users : frozen'[v] <= peak[v]
    BY <2>2, <2>3, <1>6
  <2> QED BY <2>4, <1>9, <1>17 DEF FreezeSwaps
<1>18. ASSUME FreezeSwapFails(t, u) PROVE AccountInv'
  <2>1. m > 0 /\ call[t].seen <= peak[u] /\ UNCHANGED <<balance, frozen, peak>>
    <3>1. call[t].at = "freeze swap" /\ "freeze swap" \in Remembering
      BY <1>18 DEF FreezeSwapFails, At, Remembering
    <3> QED BY <3>1, <1>5, <1>18 DEF Remembers, FreezeSwapFails, u, m
  <2>2. "freeze frozen" \in Steps \ {"freeze swap"}
    BY DEF Steps
  <2>3. call' = [call EXCEPT ![t].at = "freeze frozen", ![t].expected = 0]
    BY <1>18 DEF FreezeSwapFails
  <2>4. /\ call' \in [Threads -> Calls] /\ \A s \in Threads \ {t} : call'[s] = call[s]
        /\ call'[t].at = "freeze frozen" /\ call'[t].seen = call[t].seen
    BY <2>2, <2>3, <1>6, <1>8, <1>11
  <2> QED BY <2>1, <2>2, <2>4, <1>10
<1>19. ASSUME UnfreezeLoads(t, u, m) PROVE AccountInv'
  <2>1. CASE m > 0 /\ frozen[u] > 0
    <3>1. "unfreeze swap" \in Steps \ {"freeze swap"} /\ "unfreeze swap" # "freeze frozen"
      BY DEF Steps
    <3>2. /\ call' = [call EXCEPT ![t].at = "unfreeze swap", ![t].expected = frozen[u]]
          /\ UNCHANGED <<balance, frozen, peak>>
      BY <2>1, <1>19 DEF UnfreezeLoads
    <3>3. /\ call' \in [Threads -> Calls] /\ \A s \in Threads \ {t} : call'[s] = call[s]
          /\ call'[t].at = "unfreeze swap"
      BY <3>1, <3>2, <1>6, <1>11
    <3> QED BY <2>1, <3>1, <3>2, <3>3, <1>10
  <2>2. CASE ~(m > 0 /\ frozen[u] > 0)
    BY <2>2, <1>6, <1>9, <1>19 DEF UnfreezeLoads
  <2> QED BY <2>1, <2>2
<1>20. ASSUME UnfreezeSwaps(t, u, m) PROVE AccountInv'
  <2>1. m > 0 /\ call[t].expected = frozen[u]
    <3>1. call[t].at = "unfreeze swap" /\ "unfreeze swap" \in Remembering
      BY <1>20 DEF UnfreezeSwaps, At, Remembering
    <3> QED BY <3>1, <1>5, <1>20 DEF Remembers, UnfreezeSwaps, Swaps, m
  <2>2. Available(call[t].expected, m) \in Nat /\ Available(call[t].expected, m) <= peak[u]
    BY <2>1, <1>2, <1>6 DEF Available
  <2>3. frozen' = [frozen EXCEPT ![u] = Available(call[t].expected, m)]
    BY <1>20 DEF UnfreezeSwaps
  <2>4. frozen' \in [Users -> Nat] /\ \A v \in Users : frozen'[v] <= peak[v]
    BY <2>2, <2>3, <1>6
  <2> QED BY <2>4, <1>9, <1>20 DEF UnfreezeSwaps
<1>21. ASSUME UnfreezeSwapFails(t, u) PROVE AccountInv'
  <2>1. "unfreeze" \in Steps \ {"freeze swap"} /\ "unfreeze" \notin Remembering
    BY DEF Steps, Remembering
  <2>2. /\ call' = [call EXCEPT ![t].at = "unfreeze", ![t].expected = 0]
        /\ UNCHANGED <<balance, frozen, peak>>
    BY <1>21 DEF UnfreezeSwapFails
  <2>3. /\ call' \in [Threads -> Calls] /\ \A s \in Threads \ {t} : call'[s] = call[s]
        /\ call'[t].at = "unfreeze"
    BY <2>1, <2>2, <1>6, <1>8, <1>11
  <2> QED BY <2>1, <2>2, <2>3, <1>10
<1> QED
  BY <1>1, <1>12, <1>13, <1>14, <1>15, <1>16, <1>17, <1>18, <1>19, <1>20, <1>21
     DEF AccountStep, CheckBalance, Freeze, Unfreeze

\* A balance changes; the largest there has been with it.
LEMMA PayKeeps ==
    ASSUME OrderInv, AccountInv, NEW u \in Users, NEW amount \in Payments, Pay(u, amount)
    PROVE  AccountInv'
<1> DEFINE b == balance[u] + amount
<1>1. AccountTypeOK /\ MaxBalance \in Nat /\ amount \in Int
  BY BalanceAssumption, TradingAssumption DEF AccountInv
<1>2. /\ b \in 0 .. MaxBalance
      /\ balance' = [balance EXCEPT ![u] = b]
      /\ peak' = [peak EXCEPT ![u] = Larger(peak[u], b)]
      /\ UNCHANGED <<frozen, call, pc, cur, request>>
  <2>1. balance[u] \in Int /\ b \in Int
    BY <1>1 DEF AccountTypeOK
  <2>2. b >= 0 /\ b <= MaxBalance
    BY DEF Pay, UpdateBalance, Allowed, SetBalance
  <2>3. b \in 0 .. MaxBalance
    BY <2>1, <2>2, <1>1
  <2> QED BY <2>3 DEF Pay, UpdateBalance, SetBalance, requestVars, threadVars
<1> HIDE DEF b
<1>3. /\ peak[u] \in 0 .. MaxBalance
      /\ balance \in [Users -> 0 .. MaxBalance] /\ peak \in [Users -> 0 .. MaxBalance]
  BY <1>1 DEF AccountTypeOK
<1>4. /\ Larger(peak[u], b) \in 0 .. MaxBalance
      /\ b <= Larger(peak[u], b) /\ peak[u] <= Larger(peak[u], b)
  BY <1>1, <1>2, <1>3 DEF Larger
<1>5. \A v \in Users : /\ v # u => balance'[v] = balance[v] /\ peak'[v] = peak[v]
                       /\ balance'[u] = b /\ peak'[u] = Larger(peak[u], b)
  BY <1>2, <1>3
<1>6. AccountTypeOK'
  <2>1. balance' \in [Users -> 0 .. MaxBalance] /\ peak' \in [Users -> 0 .. MaxBalance]
    BY <1>2, <1>3, <1>4
  <2> QED BY <2>1, <1>1, <1>2 DEF AccountTypeOK
<1>7. \A v \in Users : balance[v] <= peak[v] /\ frozen[v] <= peak[v] /\ frozen[v] \in Nat
  BY <1>1 DEF AccountInv, AccountTypeOK
<1>8. ASSUME NEW v \in Users PROVE balance'[v] <= peak'[v] /\ frozen'[v] <= peak'[v]
  <2>1. CASE v = u
    BY <2>1, <1>1, <1>2, <1>3, <1>4, <1>5, <1>7
  <2>2. CASE v # u
    BY <2>2, <1>2, <1>5, <1>7
  <2> QED BY <2>1, <2>2
<1>9. \A v \in Users : peak[v] <= peak'[v] /\ peak[v] \in Int /\ peak'[v] \in Int
  <2> TAKE v \in Users
  <2>1. peak[v] \in Int /\ peak'[v] \in Int
    BY <1>1, <1>6 DEF AccountTypeOK
  <2>2. CASE v = u
    BY <2>1, <2>2, <1>4, <1>5
  <2>3. CASE v # u
    BY <2>1, <2>3, <1>5
  <2> QED BY <2>1, <2>2, <2>3
<1>10. ASSUME NEW t \in Threads PROVE Remembers(t)'
  <2>1. Remembers(t) /\ Sent(t)' = Sent(t) /\ call'[t] = call[t] /\ pc'[t] = pc[t]
    BY <1>2 DEF AccountInv, Sent
  <2>2. Margin(Sent(t))' = Margin(Sent(t)) /\ Sent(t)'.user = Sent(t).user
    BY <2>1 DEF Margin
  <2>3. ASSUME call[t].at \in {"freeze frozen", "freeze swap"}
        PROVE  call[t].seen <= peak'[Sent(t).user]
    <3>1. pc[t] \in Calling
      BY <2>1, <2>3 DEF Remembers, Calling, Steps
    <3>2. cur[t] \in DOMAIN request /\ OrderType
      BY <3>1 DEF OrderInv, OwnOrder, Calling, Working
    <3>3. Sent(t).user \in Users
      BY <3>2, MarginIsInt DEF Sent
    <3>4. call[t].seen <= peak[Sent(t).user] /\ call[t].seen \in Int
      <4>1. call[t].seen \in 0 .. MaxBalance
        BY <1>1 DEF AccountTypeOK
      <4>2. call[t].seen <= peak[Sent(t).user]
        BY <2>1, <2>3 DEF Remembers
      <4> QED BY <4>1, <4>2, <1>1
    <3> QED BY <3>3, <3>4, <1>9
  <2> QED BY <2>1, <2>2, <2>3 DEF Remembers
<1> QED BY <1>6, <1>8, <1>10 DEF AccountInv
-----------------------------------------------------------------------------
(* The steps of the service *)

\* What another thread's order is does not depend on the orders sent since.
LEMMA OthersKeepOrders ==
    ASSUME OrderInv, NEW t \in Threads,
           \A n \in DOMAIN request : request'[n] = request[n],
           \A s \in Threads \ {t} : pc'[s] = pc[s] /\ cur'[s] = cur[s]
    PROVE  \A s \in Threads \ {t} : pc[s] \in Calling => pc'[s] = pc[s] /\ Sent(s)' = Sent(s)
<1> TAKE s \in Threads \ {t}
<1> SUFFICES ASSUME pc[s] \in Calling PROVE Sent(s)' = Sent(s)
  OBVIOUS
<1>1. cur[s] \in DOMAIN request
  BY DEF OrderInv, OwnOrder, Calling, Working
<1> QED BY <1>1 DEF Sent

LEMMA SubmitKeeps ==
    ASSUME TradingInv, NEW t \in Threads, NEW o \in Requests, Submit(t, o)
    PROVE  TradingInv'
<1>1. OrderInv /\ AccountInv /\ OrderType
  BY DEF TradingInv, OrderInv
<1>2. OrderInv'
  BY <1>1, OrderComes
<1>3. /\ request' = Append(request, o) /\ UNCHANGED <<balance, frozen, peak>> /\ pc[t] = "idle"
      /\ \A n \in DOMAIN request : request'[n] = request[n]
  <2>1. request' = Append(request, o) /\ UNCHANGED <<balance, frozen, peak>> /\ pc[t] = "idle"
    BY DEF Submit
  <2>2. request \in Seq(Requests)
    BY <1>1 DEF OrderType
  <2>3. \A n \in DOMAIN request : Append(request, o)[n] = request[n]
    BY <2>2
  <2> QED BY <2>1, <2>3
<1>4. CASE IsValid(o)
  <2>1. pc' = [pc EXCEPT ![t] = "check"] /\ cur' = [cur EXCEPT ![t] = Len(request) + 1]
    BY <1>4 DEF Submit, Goto
  <2>2. \A s \in Threads \ {t} : pc'[s] = pc[s] /\ cur'[s] = cur[s]
    BY <2>1, <1>1 DEF OrderType
  <2>3. \A s \in Threads \ {t} : pc[s] \in Calling => pc'[s] = pc[s] /\ Sent(s)' = Sent(s)
    BY <2>2, <1>1, <1>3, OthersKeepOrders
  <2>4. call' = [call EXCEPT ![t] = [Out EXCEPT !.at = "check balance"]] /\ pc'[t] \in Calling
    BY <2>1, <1>1, <1>4 DEF Submit, Enter, Calling, OrderType
  <2>5. "check balance" \in (Steps \ Remembering) \cup {"out"}
    BY DEF Steps, Remembering
  <2>6. AccountInv'
    BY <2>3, <2>4, <2>5, <1>1, <1>3, CallStarts
  <2> QED BY <2>6, <1>2 DEF TradingInv
<1>5. CASE ~IsValid(o)
  <2>1. UNCHANGED <<cur, pc, call>>
    BY <1>5 DEF Submit
  <2>2. \A s \in Threads \ {t} : pc[s] \in Calling => pc'[s] = pc[s] /\ Sent(s)' = Sent(s)
    BY <2>1, <1>1, <1>3, OthersKeepOrders
  <2>3. AccountTypeOK /\ (\A u \in Users : frozen[u] <= peak[u]) /\ Remembers(t)
    BY <1>1 DEF AccountInv
  <2>4. call[t].at \notin Steps
    BY <2>3, <1>3 DEF Remembers
  <2>5. Remembers(t)'
    <3>1. call[t].at \notin {"freeze frozen", "freeze swap", "unfreeze swap"}
      BY <2>4 DEF Steps
    <3> QED BY <2>1, <2>4, <3>1 DEF Remembers, Remembering
  <2>6. /\ frozen' \in [Users -> Nat] /\ (\A u \in Users : frozen'[u] <= peak[u])
        /\ call' \in [Threads -> Calls]
    BY <2>1, <2>3, <1>3 DEF AccountTypeOK, Calls
  <2>7. AccountInv'
    BY <2>1, <2>2, <2>5, <2>6, <1>1, <1>3, CallChanges
  <2> QED BY <2>7, <1>2 DEF TradingInv
<1> QED BY <1>4, <1>5

\* A thread at work goes on; what it does in the account manager is another call.
LEMMA GoesOn ==
    ASSUME TradingInv, NEW t \in Threads, pc[t] \in Working, NEW next \in Working,
           NEW step \in {"out", "freeze", "unfreeze"},
           Goto(t, next), call' = [call EXCEPT ![t] = [Out EXCEPT !.at = step]],
           step # "out" => next \in Calling,
           UNCHANGED <<request, outcome, cur, engine, balance, frozen, peak>>,
           lost_reply \subseteq lost_reply',
           next \in Before => pc[t] \in Before,
           next \in After => pc[t] \in After,
           next = "give back" => pc[t] \in Before \/ cur[t] \in lost_reply'
    PROVE  TradingInv'
<1>1. OrderInv /\ AccountInv /\ OrderType /\ OwnOrder(t)
  BY DEF TradingInv, OrderInv
<1>2. pc' = [pc EXCEPT ![t] = next] /\ pc'[t] = next /\ \A s \in Threads \ {t} : pc'[s] = pc[s]
  BY <1>1 DEF Goto, OrderType
<1>3. /\ next \in Before => cur[t] \notin DOMAIN engine
      /\ next \in After => cur[t] \in DOMAIN engine
      /\ next = "give back" => cur[t] \notin DOMAIN engine \/ cur[t] \in lost_reply'
  BY <1>1 DEF OwnOrder
<1>4. OrderInv'
  BY <1>1, <1>2, <1>3, OrderMoves
<1>5. step \in (Steps \ Remembering) \cup {"out"} /\ (step \in Steps => step # "out")
  BY DEF Steps, Remembering
<1>6. \A s \in Threads \ {t} : pc[s] \in Calling => pc'[s] = pc[s] /\ Sent(s)' = Sent(s)
  BY <1>1, <1>2, OthersKeepOrders
<1>7. AccountInv'
  BY <1>1, <1>2, <1>5, <1>6, CallStarts
<1> QED BY <1>4, <1>7 DEF TradingInv

\* A thread tells what became of its order, out of any call.
LEMMA Answers ==
    ASSUME TradingInv, NEW t \in Threads, pc[t] \in Before \cup {"give back"},
           Answer(t, "refused"), Leave(t),
           UNCHANGED <<request, engine, lost_reply, balance, frozen, peak>>
    PROVE  TradingInv'
<1>1. OrderInv /\ AccountInv /\ OrderType /\ pc[t] \in Working
  BY DEF TradingInv, OrderInv, Before, Working
<1>2. OrderInv'
  BY <1>1, OrderEnds
<1>3. \A s \in Threads \ {t} : pc'[s] = pc[s] /\ cur'[s] = cur[s]
  BY <1>1 DEF Answer, OrderType
<1>4. \A s \in Threads \ {t} : pc[s] \in Calling => pc'[s] = pc[s] /\ Sent(s)' = Sent(s)
  BY <1>1, <1>3, OthersKeepOrders
<1>5. call' = [call EXCEPT ![t] = [Out EXCEPT !.at = "out"]] /\ "out" \notin Steps
  BY DEF Leave, Out, Steps
<1>6. AccountInv'
  BY <1>1, <1>4, <1>5, CallStarts
<1> QED BY <1>2, <1>6 DEF TradingInv

\* The same with nothing to do in the account manager, once the engine has the order.
LEMMA PlainlyGoesOn ==
    ASSUME TradingInv, NEW t \in Threads, pc[t] \in After, NEW next \in After, Goto(t, next),
           UNCHANGED <<request, outcome, cur, engine, lost_reply, accountVars>>
    PROVE  TradingInv'
<1>1. OrderInv /\ AccountInv /\ OrderType /\ OwnOrder(t)
  BY DEF TradingInv, OrderInv
<1>2. pc[t] \in Working /\ pc[t] \notin Calling
  BY DEF After, Working, Calling
<1>3. next \in Working /\ next \notin Calling /\ next \notin Before /\ next # "give back"
  BY DEF After, Working, Calling, Before
<1>4. pc' = [pc EXCEPT ![t] = next]
  BY DEF Goto
<1>5. OrderInv'
  BY <1>1, <1>2, <1>3, <1>4, OrderMoves DEF OwnOrder
<1>6. pc'[t] \notin Calling /\ \A s \in Threads \ {t} : pc'[s] = pc[s] /\ cur'[s] = cur[s]
  BY <1>1, <1>3, <1>4 DEF OrderType
<1>7. AccountInv'
  BY <1>1, <1>2, <1>6, CallsStay
<1> QED BY <1>5, <1>7 DEF TradingInv

\* A thread without an order goes from one place to another.
LEMMA OtherWork ==
    ASSUME TradingInv, NEW t \in Threads, pc[t] \notin Working, NEW next \in Labels \ Working,
           Goto(t, next), DOMAIN cur' = Threads, \A s \in Threads \ {t} : cur'[s] = cur[s],
           UNCHANGED <<request, outcome, engine, lost_reply, accountVars>>
    PROVE  TradingInv'
<1>1. OrderInv /\ AccountInv /\ OrderType
  BY DEF TradingInv, OrderInv
<1>2. pc[t] \notin Calling /\ next \notin Calling
  BY DEF Working, Calling
<1>3. pc' = [pc EXCEPT ![t] = next]
  BY DEF Goto
<1>4. OrderInv'
  BY <1>1, <1>3, OtherMoves
<1>5. pc'[t] \notin Calling /\ \A s \in Threads \ {t} : pc'[s] = pc[s] /\ cur'[s] = cur[s]
  BY <1>1, <1>2, <1>3 DEF OrderType
<1>6. AccountInv'
  BY <1>1, <1>2, <1>5, CallsStay
<1> QED BY <1>4, <1>6 DEF TradingInv

LEMMA LocalKeeps ==
    ASSUME TradingInv, NEW t \in Threads, Local(t)
    PROVE  TradingInv'
<1>1. OrderInv /\ AccountInv /\ OrderType
  BY DEF TradingInv, OrderInv
<1>2. CASE PassesChecks(t)
  <2>1. /\ Goto(t, "freeze") /\ pc[t] = "check"
        /\ call' = [call EXCEPT ![t] = [Out EXCEPT !.at = "freeze"]]
    BY <1>2 DEF PassesChecks, Enter
  <2>2. UNCHANGED <<request, outcome, cur, engine, lost_reply, balance, frozen, peak>>
    BY <1>2 DEF PassesChecks, requestVars, engineVars
  <2> QED BY <2>1, <2>2, GoesOn DEF Working, Before, After, Calling
<1>3. CASE FailsChecks(t)
  BY <1>3, Answers DEF FailsChecks, Before, engineVars
<1>4. CASE FailsToFreeze(t)
  BY <1>4, Answers DEF FailsToFreeze, Before, engineVars
<1>5. CASE Froze(t)
  <2>1. /\ Goto(t, "call") /\ pc[t] = "freeze"
        /\ call' = [call EXCEPT ![t] = [Out EXCEPT !.at = "out"]]
    BY <1>5 DEF Froze, Leave, Out
  <2>2. UNCHANGED <<request, outcome, cur, engine, lost_reply, balance, frozen, peak>>
    BY <1>5 DEF Froze, requestVars, engineVars
  <2> QED BY <2>1, <2>2, GoesOn DEF Working, Before, After
<1>6. CASE GaveBack(t)
  BY <1>6, Answers DEF GaveBack, engineVars
<1>7. CASE Store(t)
  <2>1. Goto(t, "update") /\ pc[t] = "store"
        /\ UNCHANGED <<request, outcome, cur, engine, lost_reply, accountVars>>
    BY <1>7 DEF Store, requestVars, engineVars
  <2> QED BY <2>1, PlainlyGoesOn DEF After
<1>8. CASE Update(t)
  <2>1. Goto(t, "accept") /\ pc[t] = "update"
        /\ UNCHANGED <<request, outcome, cur, engine, lost_reply, accountVars>>
    BY <1>8 DEF Update, requestVars, engineVars
  <2> QED BY <2>1, PlainlyGoesOn DEF After
<1>9. CASE Accept(t)
  <2>1. /\ Answer(t, "accepted") /\ pc[t] = "accept"
        /\ UNCHANGED <<request, engine, lost_reply, accountVars>>
    BY <1>9 DEF Accept, engineVars
  <2>2. pc[t] \in Working /\ pc[t] \in After /\ pc[t] \notin Calling
    BY <2>1 DEF Working, After, Calling
  <2>3. OrderInv'
    BY <2>1, <2>2, <1>1, OrderEnds
  <2>4. pc'[t] \notin Calling /\ \A s \in Threads \ {t} : pc'[s] = pc[s] /\ cur'[s] = cur[s]
    BY <2>1, <1>1 DEF Answer, OrderType, Calling
  <2>5. AccountInv'
    BY <2>1, <2>2, <2>4, <1>1, CallsStay
  <2> QED BY <2>3, <2>5 DEF TradingInv
<1>10. CASE Query(t)
  <2>1. Goto(t, "answer") /\ pc[t] = "query"
        /\ UNCHANGED <<request, outcome, cur, engine, lost_reply, accountVars>>
    BY <1>10 DEF Query, requestVars, engineVars
  <2> QED BY <2>1, <1>1, OtherWork DEF Labels, Working, OrderType
<1>11. CASE EndQuery(t)
  <2>1. Goto(t, "idle") /\ pc[t] = "answer" /\ cur' = [cur EXCEPT ![t] = 0]
        /\ UNCHANGED <<request, outcome, engine, lost_reply, accountVars>>
    BY <1>11 DEF EndQuery, requestVars, engineVars
  <2>2. DOMAIN cur' = Threads /\ \A s \in Threads \ {t} : cur'[s] = cur[s]
    BY <2>1, <1>1 DEF OrderType
  <2> QED BY <2>1, <2>2, OtherWork DEF Labels, Working
<1> QED
  BY <1>2, <1>3, <1>4, <1>5, <1>6, <1>7, <1>8, <1>9, <1>10, <1>11 DEF Local

LEMMA RemoteKeeps ==
    ASSUME TradingInv, NEW t \in Threads, Remote(t)
    PROVE  TradingInv'
<1>1. OrderInv /\ AccountInv /\ OrderType /\ OwnOrder(t)
  BY DEF TradingInv, OrderInv
<1>2. CASE RequestLost(t)
  <2>1. /\ Goto(t, "give back") /\ pc[t] = "call"
        /\ call' = [call EXCEPT ![t] = [Out EXCEPT !.at = "unfreeze"]]
    BY <1>2 DEF RequestLost, Enter
  <2>2. UNCHANGED <<request, outcome, cur, engine, lost_reply, balance, frozen, peak>>
    BY <1>2 DEF RequestLost, requestVars, engineVars
  <2> QED BY <2>1, <2>2, GoesOn DEF Working, Before, After, Calling
<1>3. CASE ReplyLost(t)
  <2>1. /\ Goto(t, "give back") /\ pc[t] = "taken"
        /\ call' = [call EXCEPT ![t] = [Out EXCEPT !.at = "unfreeze"]]
        /\ lost_reply' = lost_reply \cup {cur[t]}
    BY <1>3 DEF ReplyLost, Enter
  <2>2. UNCHANGED <<request, outcome, cur, engine, balance, frozen, peak>>
    BY <1>3 DEF ReplyLost, requestVars
  <2> QED BY <2>1, <2>2, GoesOn DEF Working, Before, After, Calling
<1>4. CASE EngineTakes(t)
  <2>1. /\ pc' = [pc EXCEPT ![t] = "taken"] /\ pc[t] = "call"
        /\ UNCHANGED <<request, outcome, cur, lost_reply, accountVars>>
    BY <1>4 DEF EngineTakes, Goto, requestVars
  <2>2. DOMAIN engine' = DOMAIN engine \cup {cur[t]}
    BY <1>4 DEF EngineTakes, Extend
  <2>3. OrderInv'
    <3>1. pc[t] \in Working /\ "taken" \in Working /\ "taken" \notin Before /\ "taken" # "give back"
      BY <2>1 DEF Working, Before
    <3> QED BY <2>1, <2>2, <3>1, <1>1, OrderMoves
  <2>4. /\ pc[t] \notin Calling /\ pc'[t] \notin Calling
        /\ \A s \in Threads \ {t} : pc'[s] = pc[s] /\ cur'[s] = cur[s]
    BY <2>1, <1>1 DEF OrderType, Calling
  <2>5. AccountInv'
    BY <2>1, <2>4, <1>1, CallsStay
  <2> QED BY <2>3, <2>5 DEF TradingInv
<1>5. CASE ReplyArrives(t)
  <2>1. Goto(t, AfterReply) /\ pc[t] = "taken"
        /\ UNCHANGED <<request, outcome, cur, engine, lost_reply, accountVars>>
    BY <1>5 DEF ReplyArrives, requestVars, engineVars
  <2>2. AfterReply \in After
    BY DEF AfterReply, After
  <2> QED BY <2>1, <2>2, PlainlyGoesOn DEF After
<1>6. CASE CancelRefused(t)
  <2>1. Goto(t, "idle") /\ pc[t] = "cancel"
        /\ UNCHANGED <<request, outcome, cur, engine, lost_reply, accountVars>>
    BY <1>6 DEF CancelRefused, requestVars, engineVars
  <2> QED BY <2>1, <1>1, OtherWork DEF Labels, Working, OrderType
<1> QED
  BY <1>2, <1>3, <1>4, <1>5, <1>6 DEF Remote

LEMMA RequestKeeps ==
    ASSUME TradingInv, NEW t \in Threads, Request(t)
    PROVE  TradingInv'
<1>1. OrderType
  BY DEF TradingInv, OrderInv
<1>2. ASSUME NEW o \in Requests, Submit(t, o) PROVE TradingInv'
  BY <1>2, SubmitKeeps
<1>3. ASSUME NEW u \in Users, BeginQuery(t, u) PROVE TradingInv'
  <2>1. Goto(t, "query") /\ pc[t] = "idle" /\ cur' = [cur EXCEPT ![t] = u]
        /\ UNCHANGED <<request, outcome, engine, lost_reply, accountVars>>
    BY <1>3 DEF BeginQuery, requestVars, engineVars
  <2>2. DOMAIN cur' = Threads /\ \A s \in Threads \ {t} : cur'[s] = cur[s]
    BY <2>1, <1>1 DEF OrderType
  <2> QED BY <2>1, <2>2, OtherWork DEF Labels, Working
<1>4. ASSUME NEW u, NEW n, Cancel(t, u, n) PROVE TradingInv'
  <2>1. Goto(t, "cancel") /\ pc[t] = "idle"
        /\ UNCHANGED <<request, outcome, cur, engine, lost_reply, accountVars>>
    BY <1>4 DEF Cancel, requestVars, engineVars
  <2> QED BY <2>1, <1>1, OtherWork DEF Labels, Working, OrderType
<1>5. CASE CancelAtOnce(t)
  <2>1. Goto(t, "cancel") /\ pc[t] = "idle"
        /\ UNCHANGED <<request, outcome, cur, engine, lost_reply, accountVars>>
    BY <1>5 DEF CancelAtOnce, requestVars, engineVars
  <2> QED BY <2>1, <1>1, OtherWork DEF Labels, Working, OrderType
<1> QED
  BY <1>2, <1>3, <1>4, <1>5 DEF Request

LEMMA TradingKept == TradingInv /\ [Next]_vars => TradingInv'
<1> SUFFICES ASSUME TradingInv, [Next]_vars PROVE TradingInv'
  OBVIOUS
<1>1. OrderInv /\ AccountInv
  BY DEF TradingInv
<1>2. ASSUME NEW t \in Threads, InAccount(t) PROVE TradingInv'
  <2>1. UNCHANGED <<request, outcome, pc, cur, engine, lost_reply>>
    BY <1>2 DEF InAccount, requestVars, threadVars, engineVars
  <2> QED BY <1>1, <1>2, <2>1, OrdersStay, CallSteps DEF TradingInv
<1>3. ASSUME NEW u \in Users, NEW amount \in Payments, Pay(u, amount) PROVE TradingInv'
  <2>1. UNCHANGED <<request, outcome, pc, cur, engine, lost_reply>>
    BY <1>3 DEF Pay, requestVars, threadVars, engineVars
  <2> QED BY <1>1, <1>3, <2>1, OrdersStay, PayKeeps DEF TradingInv
<1>4. CASE UNCHANGED vars
  BY <1>4 DEF TradingInv, OrderInv, OrderType, OwnOrder, Covered, Accepted, AccountInv,
              AccountTypeOK, Remembers, Margin, Sent, vars, requestVars, threadVars, engineVars,
              accountVars
<1> QED BY <1>2, <1>3, <1>4, RequestKeeps, RemoteKeeps, LocalKeeps DEF Next

\* The exchange of frozen writes what was expected plus the margin, which is within
\* the balance loaded before; an order is taken by the engine only with its margin
\* frozen, and refused only while the engine does not have it or its reply is lost.
THEOREM MarginStaysCovered == Spec => []MarginCovered
<1>1. Init => TradingInv
  BY TradingInitial
<1>2. TradingInv /\ [Next]_vars => TradingInv'
  BY TradingKept
<1>3. TradingInv => MarginCovered
  <2> SUFFICES ASSUME TradingInv PROVE MarginCovered
    OBVIOUS
  <2>1. FrozenWithinPeak
    BY DEF TradingInv, AccountInv, FrozenWithinPeak
  <2>2. ASSUME NEW n \in DOMAIN engine, n \notin lost_reply PROVE Held(n)
    <3>1. CASE outcome[n] = "accepted"
      BY <3>1 DEF Held
    <3>2. CASE outcome[n] # "accepted"
      <4>1. PICK t \in Threads : pc[t] \in After /\ cur[t] = n
        BY <2>2, <3>2 DEF TradingInv, OrderInv, Covered
      <4>2. Freezing(t)
        BY <4>1 DEF Freezing, After
      <4> QED BY <4>1, <4>2 DEF Held
    <3> QED BY <3>1, <3>2
  <2> QED BY <2>1, <2>2 DEF MarginCovered, MarginCoversEngine, TradingInv, OrderInv
<1> QED BY <1>1, <1>2, <1>3, PTL DEF Spec
-----------------------------------------------------------------------------
(* What is frozen *)

\* How far a thread's call can have got where the thread is.
Place(t) ==
    /\ pc[t] = "check" => call[t].at \in {"check balance", "check frozen", "yes", "no"}
    /\ pc[t] = "freeze" => call[t].at \in {"freeze", "freeze frozen", "freeze swap", "yes", "no"}
    /\ pc[t] = "give back" => call[t].at \in {"unfreeze", "unfreeze swap", "yes"}

\* Only an order that needs a margin gets as far as having it frozen.
HeldPositive == \A n \in DOMAIN request : Held(n) => Margin(request[n]) > 0

FrozenInv ==
    /\ TradingInv
    /\ \A t \in Threads : Place(t)
    /\ HeldPositive
    /\ FrozenIsHeld

LEMMA FrozenInitial == Init => FrozenInv
<1> SUFFICES ASSUME Init PROVE FrozenInv
  OBVIOUS
<1>1. TradingInv
  BY TradingInitial
<1>2. \A t \in Threads : Place(t)
  BY DEF Init, Place
<1>3. DOMAIN request = {}
  BY DEF Init
<1>4. ASSUME NEW u \in Users PROVE frozen[u] = SumFunctionOnSet(Margins, HeldOf(u))
  <2>1. HeldOf(u) = {}
    BY <1>3 DEF HeldOf, OrdersOf
  <2>2. frozen[u] = 0
    BY DEF Init, AccountInit
  <2> QED BY <2>1, <2>2, SumEmpty
<1> QED BY <1>1, <1>2, <1>3, <1>4 DEF FrozenInv, HeldPositive, FrozenIsHeld

\* The orders held are finitely many.
LEMMA OrdersHeld ==
    ASSUME OrderType, NEW u
    PROVE  /\ IsFiniteSet(HeldOf(u)) /\ HeldOf(u) \subseteq DOMAIN request
           /\ \A n \in DOMAIN request : Margins[n] = Margin(request[n]) /\ Margins[n] \in Int
<1>1. Len(request) \in Nat /\ DOMAIN request = 1 .. Len(request)
  BY DEF OrderType
<1>2. IsFiniteSet(DOMAIN request)
  BY <1>1, FS_Interval
<1>3. HeldOf(u) \subseteq DOMAIN request
  BY DEF HeldOf, OrdersOf
<1>4. IsFiniteSet(HeldOf(u))
  BY <1>2, <1>3, FS_Subset
<1>5. \A n \in DOMAIN request : Margins[n] = Margin(request[n]) /\ Margins[n] \in Int
  BY MarginIsInt DEF Margins
<1> QED BY <1>3, <1>4, <1>5

\* What a thread's order holds is within what is frozen.
LEMMA HoldsItsMargin ==
    ASSUME FrozenInv, NEW t \in Threads, Freezing(t)
    PROVE  /\ Margin(Sent(t)) > 0 /\ Margin(Sent(t)) \in Int /\ Sent(t).user \in Users
           /\ cur[t] \in HeldOf(Sent(t).user)
           /\ frozen[Sent(t).user] =
                Margin(Sent(t))
                  + SumFunctionOnSet(Margins, HeldOf(Sent(t).user) \ {cur[t]})
           /\ SumFunctionOnSet(Margins, HeldOf(Sent(t).user) \ {cur[t]}) \in Nat
<1> DEFINE n == cur[t]
           u == Sent(t).user
<1>1. OrderType /\ OwnOrder(t) /\ HeldPositive /\ FrozenIsHeld
  BY DEF FrozenInv, TradingInv, OrderInv
<1>2. pc[t] \in Working
  BY DEF Freezing, Working
<1>3. n \in DOMAIN request
  BY <1>1, <1>2 DEF OwnOrder
<1>4. Held(n) /\ n \in HeldOf(u)
  BY <1>3 DEF Held, HeldOf, OrdersOf, Sent
<1>5. Margin(Sent(t)) > 0 /\ Margin(Sent(t)) \in Int /\ u \in Users /\ Margins[n] = Margin(Sent(t))
  <2>1. Margin(request[n]) \in Int /\ request[n].user \in Users /\ Margins[n] = Margin(request[n])
    BY <1>1, <1>3, MarginIsInt DEF Margins
  <2> QED BY <2>1, <1>1, <1>3, <1>4 DEF HeldPositive, Sent
<1>6. /\ IsFiniteSet(HeldOf(u)) /\ HeldOf(u) \subseteq DOMAIN request
      /\ \A m \in DOMAIN request : Margins[m] = Margin(request[m]) /\ Margins[m] \in Int
  BY <1>1, OrdersHeld
<1>7. \A m \in HeldOf(u) : Margins[m] \in Int
  BY <1>6
<1> HIDE DEF n, u
<1>8. SumFunctionOnSet(Margins, HeldOf(u))
        = Margins[n] + SumFunctionOnSet(Margins, HeldOf(u) \ {n})
  BY <1>4, <1>6, <1>7, SumRemove
<1>9. SumFunctionOnSet(Margins, HeldOf(u) \ {n}) \in Nat
  <2>1. ASSUME NEW m \in HeldOf(u) \ {n} PROVE Margins[m] \in Nat
    <3>1. m \in DOMAIN request /\ Held(m)
      BY <1>6 DEF HeldOf
    <3>2. Margin(request[m]) > 0 /\ Margins[m] = Margin(request[m]) /\ Margins[m] \in Int
      BY <3>1, <1>1, <1>6 DEF HeldPositive
    <3> QED BY <3>2
  <2>2. IsFiniteSet(HeldOf(u) \ {n})
    BY <1>6, FS_Subset
  <2> QED BY <2>1, <2>2, SumType
<1>10. frozen[u] = SumFunctionOnSet(Margins, HeldOf(u))
  BY <1>1, <1>5 DEF FrozenIsHeld
<1> QED BY <1>4, <1>5, <1>8, <1>9, <1>10 DEF n, u

\* Nothing is frozen or given back, and the same orders hold their margin.
LEMMA HeldSame ==
    ASSUME FrozenInv, UNCHANGED frozen, DOMAIN request \subseteq DOMAIN request',
           \A n \in DOMAIN request : request'[n] = request[n],
           \A n \in DOMAIN request' : Held(n)' <=> n \in DOMAIN request /\ Held(n)
    PROVE  HeldPositive' /\ FrozenIsHeld'
<1>1. OrderType /\ HeldPositive /\ FrozenIsHeld
  BY DEF FrozenInv, TradingInv, OrderInv
<1>2. HeldPositive'
  BY <1>1 DEF HeldPositive, Margin
<1>3. ASSUME NEW u \in Users PROVE frozen'[u] = SumFunctionOnSet(Margins, HeldOf(u))'
  <2>1. HeldOf(u)' = HeldOf(u)
    BY DEF HeldOf, OrdersOf
  <2>2. \A n \in HeldOf(u) : Margins[n] = Margins'[n]
    BY DEF Margins, Margin, HeldOf, OrdersOf
  <2>3. IsFiniteSet(HeldOf(u))
    BY <1>1, OrdersHeld
  <2>4. SumFunctionOnSet(Margins, HeldOf(u)) = SumFunctionOnSet(Margins', HeldOf(u))
    BY <2>2, <2>3, SumSame
  <2>5. SumFunctionOnSet(Margins, HeldOf(u))' = SumFunctionOnSet(Margins', HeldOf(u))
    BY <2>1
  <2> QED BY <2>4, <2>5, <1>1 DEF FrozenIsHeld
<1> QED BY <1>2, <1>3 DEF FrozenIsHeld

\* The same when one thread moves.
LEMMA HoldersSame ==
    ASSUME FrozenInv, NEW t \in Threads, UNCHANGED frozen, DOMAIN request \subseteq DOMAIN request',
           \A n \in DOMAIN request : request'[n] = request[n],
           \A s \in Threads \ {t} : pc'[s] = pc[s] /\ cur'[s] = cur[s] /\ call'[s] = call[s],
           \A n \in DOMAIN request' :
              outcome'[n] = "accepted" \/ (cur'[t] = n /\ Freezing(t)')
                <=> /\ n \in DOMAIN request
                    /\ outcome[n] = "accepted" \/ (cur[t] = n /\ Freezing(t))
    PROVE  HeldPositive' /\ FrozenIsHeld'
<1>1. \A s \in Threads : OwnOrder(s)
  BY DEF FrozenInv, TradingInv, OrderInv
<1>2. \A s \in Threads \ {t} : Freezing(s)' <=> Freezing(s)
  BY DEF Freezing, At
<1>3. \A s \in Threads : Freezing(s) => cur[s] \in DOMAIN request
  BY <1>1 DEF Freezing, OwnOrder, Working
<1>4. ASSUME NEW n \in DOMAIN request' PROVE Held(n)' <=> n \in DOMAIN request /\ Held(n)
  BY <1>2, <1>3 DEF Held
<1> QED BY <1>4, HeldSame

\* The steps of a call that leave what is frozen as it is.
Moves == {<<"check balance", "check frozen">>, <<"check frozen", "yes">>, <<"check frozen", "no">>,
          <<"freeze", "no">>, <<"freeze", "freeze frozen">>, <<"freeze frozen", "no">>,
          <<"freeze frozen", "freeze swap">>, <<"freeze swap", "freeze frozen">>,
          <<"unfreeze", "unfreeze swap">>, <<"unfreeze swap", "unfreeze">>}

\* unfreezeBalance never finds that there is nothing to give back.
LEMMA CallMoves ==
    ASSUME FrozenInv, NEW t \in Threads, InAccount(t)
    PROVE  /\ UNCHANGED <<request, outcome, pc, cur>>
           /\ \A s \in Threads \ {t} : call'[s] = call[s]
           /\ \/ UNCHANGED frozen /\ <<call[t].at, call'[t].at>> \in Moves
              \/ FreezeSwaps(t, Sent(t).user, Margin(Sent(t))) /\ call'[t].at = "yes"
              \/ UnfreezeSwaps(t, Sent(t).user, Margin(Sent(t))) /\ call'[t].at = "yes"
<1> DEFINE u == Sent(t).user
           m == Margin(Sent(t))
<1>1. AccountStep(t, u, m) /\ UNCHANGED <<request, outcome, pc, cur>>
  BY DEF InAccount, requestVars, threadVars
<1>2. Place(t) /\ Remembers(t) /\ call \in [Threads -> Calls]
  BY DEF FrozenInv, TradingInv, AccountInv, AccountTypeOK, Calls
<1>3. At(t, "unfreeze") => m > 0 /\ frozen[u] > 0
  <2> SUFFICES ASSUME At(t, "unfreeze") PROVE m > 0 /\ frozen[u] > 0
    OBVIOUS
  <2>1. pc[t] = "give back"
    BY <1>2 DEF Place, Remembers, At, Steps
  <2>2. Freezing(t)
    BY <2>1 DEF Freezing, At
  <2>3. /\ m > 0 /\ m \in Int
        /\ \E rest \in Nat : frozen[u] = m + rest
    BY <2>2, HoldsItsMargin
  <2> HIDE DEF u, m
  <2> QED BY <2>3
<1> HIDE DEF u, m
<1>4. ASSUME NEW answer, Return(t, answer)
      PROVE  call'[t].at = answer /\ \A s \in Threads \ {t} : call'[s] = call[s]
  BY <1>2, <1>4 DEF Return, Out
<1>5. ASSUME CheckBalance(t, u, m)
      PROVE  /\ \A s \in Threads \ {t} : call'[s] = call[s]
             /\ UNCHANGED frozen /\ <<call[t].at, call'[t].at>> \in Moves
  <2>1. CASE CheckLoadsBalance(t, u)
    BY <2>1, <1>2 DEF CheckLoadsBalance, At, Moves, Calls
  <2>2. CASE CheckLoadsFrozen(t, u, m)
    BY <2>2, <1>4 DEF CheckLoadsFrozen, At, Moves
  <2> QED BY <2>1, <2>2, <1>5 DEF CheckBalance
<1>6. ASSUME Freeze(t, u, m)
      PROVE  /\ \A s \in Threads \ {t} : call'[s] = call[s]
             /\ \/ UNCHANGED frozen /\ <<call[t].at, call'[t].at>> \in Moves
                \/ FreezeSwaps(t, u, m) /\ call'[t].at = "yes"
  <2>1. CASE RefusesAmount(t, m)
    BY <2>1, <1>4 DEF RefusesAmount, At, Moves
  <2>2. CASE FreezeLoadsBalance(t, u, m)
    BY <2>2, <1>2 DEF FreezeLoadsBalance, At, Moves, Calls
  <2>3. CASE FreezeLoadsFrozen(t, u, m)
    <3>1. call[t].at = "freeze frozen" /\ UNCHANGED frozen
      BY <2>3 DEF FreezeLoadsFrozen, At
    <3>2. CASE Covers(call[t].seen, frozen[u], m)
      BY <2>3, <3>1, <3>2, <1>2 DEF FreezeLoadsFrozen, Moves, Calls
    <3>3. CASE ~Covers(call[t].seen, frozen[u], m)
      BY <2>3, <3>1, <3>3, <1>4 DEF FreezeLoadsFrozen, Moves
    <3> QED BY <3>2, <3>3
  <2>4. CASE FreezeSwaps(t, u, m)
    BY <2>4, <1>4 DEF FreezeSwaps
  <2>5. CASE FreezeSwapFails(t, u)
    BY <2>5, <1>2 DEF FreezeSwapFails, At, Moves, Calls
  <2> QED BY <2>1, <2>2, <2>3, <2>4, <2>5, <1>6 DEF Freeze
<1>7. ASSUME Unfreeze(t, u, m)
      PROVE  /\ \A s \in Threads \ {t} : call'[s] = call[s]
             /\ \/ UNCHANGED frozen /\ <<call[t].at, call'[t].at>> \in Moves
                \/ UnfreezeSwaps(t, u, m) /\ call'[t].at = "yes"
  <2>1. CASE UnfreezeLoads(t, u, m)
    BY <2>1, <1>2, <1>3 DEF UnfreezeLoads, At, Moves, Calls
  <2>2. CASE UnfreezeSwaps(t, u, m)
    BY <2>2, <1>4 DEF UnfreezeSwaps
  <2>3. CASE UnfreezeSwapFails(t, u)
    BY <2>3, <1>2 DEF UnfreezeSwapFails, At, Moves, Calls
  <2> QED BY <2>1, <2>2, <2>3, <1>7 DEF Unfreeze
<1> QED BY <1>1, <1>5, <1>6, <1>7 DEF AccountStep, u, m

\* One step of a call: the exchanges are where an order comes to hold its margin and
\* where it stops.
LEMMA CallKeepsFrozen ==
    ASSUME FrozenInv, NEW t \in Threads, InAccount(t)
    PROVE  (\A s \in Threads : Place(s)') /\ HeldPositive' /\ FrozenIsHeld'
<1> SUFFICES ASSUME NEW n, NEW u, NEW m, n = cur[t], u = Sent(t).user, m = Margin(Sent(t))
             PROVE  (\A s \in Threads : Place(s)') /\ HeldPositive' /\ FrozenIsHeld'
  OBVIOUS
<1>1. /\ UNCHANGED <<request, outcome, pc, cur>>
      /\ \A s \in Threads \ {t} : call'[s] = call[s]
      /\ \/ UNCHANGED frozen /\ <<call[t].at, call'[t].at>> \in Moves
         \/ FreezeSwaps(t, u, m) /\ call'[t].at = "yes"
         \/ UnfreezeSwaps(t, u, m) /\ call'[t].at = "yes"
  BY CallMoves
<1>2. /\ OrderType /\ OwnOrder(t) /\ Place(t) /\ Remembers(t) /\ HeldPositive /\ FrozenIsHeld
      /\ pc[t] \in Calling /\ frozen \in [Users -> Nat]
      /\ \A s \in Threads : Place(s)
  BY DEF FrozenInv, TradingInv, OrderInv, AccountInv, AccountTypeOK, InAccount, Calling
<1>3. /\ n \in DOMAIN request /\ outcome[n] # "accepted" /\ u \in Users /\ m \in Int
      /\ request[n] = Sent(t)
      /\ \A s \in Threads : pc[s] \in Working /\ cur[s] = n => s = t
  <2>1. pc[t] \in Working
    BY <1>2 DEF Calling, Working
  <2>2. n \in DOMAIN request /\ outcome[n] # "accepted"
    BY <2>1, <1>2 DEF OwnOrder
  <2>3. request[n].user \in Users /\ Margin(request[n]) \in Int
    BY <2>2, <1>2, MarginIsInt
  <2> QED BY <2>1, <2>2, <2>3, <1>2 DEF OwnOrder, Sent
<1>4. \A s \in Threads \ {t} : (Freezing(s)' <=> Freezing(s)) /\ (Freezing(s) => cur[s] # n)
  BY <1>1, <1>3 DEF Freezing, At, Working
<1>5. \A k \in DOMAIN request : k # n => (Held(k)' <=> Held(k))
  BY <1>1, <1>4 DEF Held
<1>6. (Held(n) <=> Freezing(t)) /\ (Held(n)' <=> Freezing(t)')
  BY <1>1, <1>3, <1>4 DEF Held
<1>7. \A s \in Threads \ {t} : Place(s)'
  BY <1>1, <1>2 DEF Place
<1>8. CASE UNCHANGED frozen /\ <<call[t].at, call'[t].at>> \in Moves
  <2>1. call[t].at # "yes" /\ (call'[t].at = "yes" => call[t].at = "check frozen")
    BY <1>8 DEF Moves
  <2>2. call[t].at = "check frozen" => pc[t] = "check"
    BY <1>2 DEF Place, Remembers, Steps
  <2>3. Place(t)'
    BY <1>1, <1>2, <1>8 DEF Place, Moves, Calling
  <2>4. Freezing(t)' <=> Freezing(t)
    BY <1>1, <2>1, <2>2 DEF Freezing, At
  <2>5. \A k \in DOMAIN request : Held(k)' <=> Held(k)
    BY <1>5, <1>6, <2>4
  <2>6. HeldPositive' /\ FrozenIsHeld'
    BY <1>1, <1>8, <2>5, HeldSame
  <2> QED BY <1>7, <2>3, <2>6
\* What other users' orders hold is as before, and what the sum is without this order.
<1>9. \A v \in Users \ {u} : HeldOf(v)' = HeldOf(v)
  BY <1>1, <1>3, <1>5 DEF HeldOf, OrdersOf
<1>10. HeldOf(u)' \ {n} = HeldOf(u) \ {n} /\ n \notin HeldOf(u) \ {n}
  BY <1>1, <1>5 DEF HeldOf, OrdersOf
<1>11. Margins' = Margins
  BY <1>1 DEF Margins, Margin
<1>12. Margins[n] = m
  BY <1>3 DEF Margins
<1>13. /\ IsFiniteSet(HeldOf(u) \ {n})
       /\ \A k \in (HeldOf(u) \ {n}) \cup {n} : Margins[k] \in Int
  <2>1. /\ IsFiniteSet(HeldOf(u)) /\ HeldOf(u) \subseteq DOMAIN request
        /\ \A k \in DOMAIN request : Margins[k] \in Int
    BY <1>2, OrdersHeld
  <2> QED BY <2>1, <1>3, FS_Subset
<1>14. ASSUME NEW v \in Users \ {u}, frozen'[v] = frozen[v]
       PROVE  frozen'[v] = SumFunctionOnSet(Margins, HeldOf(v))'
  <2>1. SumFunctionOnSet(Margins, HeldOf(v))' = SumFunctionOnSet(Margins, HeldOf(v))
    BY <1>9, <1>11
  <2> QED BY <2>1, <1>2, <1>14 DEF FrozenIsHeld
<1>15. CASE FreezeSwaps(t, u, m) /\ call'[t].at = "yes"
  <2>1. call[t].at = "freeze swap" /\ pc[t] = "freeze" /\ m > 0
    <3>1. call[t].at = "freeze swap"
      BY <1>15 DEF FreezeSwaps, At
    <3> QED BY <3>1, <1>2 DEF Place, Remembers, Steps, Remembering
  <2>2. Place(t)'
    BY <1>1, <1>15, <2>1 DEF Place
  <2>3. ~Freezing(t) /\ Freezing(t)'
    BY <1>1, <1>15, <2>1 DEF Freezing, At
  <2>4. HeldPositive'
    BY <1>1, <1>2, <1>3, <1>5, <2>1 DEF HeldPositive, Margin
  <2>5. HeldOf(u) = HeldOf(u) \ {n} /\ HeldOf(u)' = (HeldOf(u) \ {n}) \cup {n}
    <3>1. n \notin HeldOf(u)
      BY <1>6, <2>3 DEF HeldOf
    <3>2. n \in HeldOf(u)'
      BY <1>1, <1>3, <1>6, <2>3 DEF HeldOf, OrdersOf
    <3> QED BY <3>1, <3>2, <1>10
  <2>6. frozen' = [frozen EXCEPT ![u] = frozen[u] + m]
    BY <1>15 DEF FreezeSwaps, Swaps
  <2>7. SumFunctionOnSet(Margins, (HeldOf(u) \ {n}) \cup {n})
          = Margins[n] + SumFunctionOnSet(Margins, HeldOf(u) \ {n})
    BY <1>10, <1>13, SumAdd
  <2>8. frozen[u] = SumFunctionOnSet(Margins, HeldOf(u) \ {n})
    BY <1>2, <1>3, <2>5 DEF FrozenIsHeld
  <2>9. SumFunctionOnSet(Margins, HeldOf(u))'
          = SumFunctionOnSet(Margins, (HeldOf(u) \ {n}) \cup {n})
    BY <1>11, <2>5
  <2>10. frozen'[u] = frozen[u] + m /\ frozen[u] \in Nat
    BY <1>2, <1>3, <2>6
  <2>11. frozen'[u] = SumFunctionOnSet(Margins, HeldOf(u))'
    BY <1>3, <1>12, <2>7, <2>8, <2>9, <2>10
  <2>12. \A v \in Users \ {u} : frozen'[v] = frozen[v]
    BY <1>2, <2>6
  <2> QED BY <1>7, <1>14, <2>2, <2>4, <2>11, <2>12 DEF FrozenIsHeld
<1>16. CASE UnfreezeSwaps(t, u, m) /\ call'[t].at = "yes"
  <2>1. call[t].at = "unfreeze swap" /\ pc[t] = "give back"
    <3>1. call[t].at = "unfreeze swap"
      BY <1>16 DEF UnfreezeSwaps, At
    <3> QED BY <3>1, <1>2 DEF Place, Remembers, Steps, Remembering
  <2>2. Place(t)'
    BY <1>1, <1>16, <2>1 DEF Place
  <2>3. Freezing(t) /\ ~Freezing(t)'
    BY <1>1, <1>16, <2>1 DEF Freezing, At
  <2>4. HeldPositive'
    BY <1>1, <1>2, <1>5, <1>6, <2>3 DEF HeldPositive, Margin
  <2>5. HeldOf(u)' = HeldOf(u) \ {n}
    <3>1. n \notin HeldOf(u)'
      BY <1>6, <2>3 DEF HeldOf
    <3> QED BY <3>1, <1>10
  <2>6. /\ m > 0 /\ frozen[u] = m + SumFunctionOnSet(Margins, HeldOf(u) \ {n})
        /\ SumFunctionOnSet(Margins, HeldOf(u) \ {n}) \in Nat
    BY <2>3, HoldsItsMargin
  <2>7. frozen' = [frozen EXCEPT ![u] = Available(frozen[u], m)]
    BY <1>16 DEF UnfreezeSwaps, Swaps
  <2>8. Available(frozen[u], m) = SumFunctionOnSet(Margins, HeldOf(u) \ {n})
    BY <1>3, <2>6 DEF Available
  <2>9. SumFunctionOnSet(Margins, HeldOf(u))' = SumFunctionOnSet(Margins, HeldOf(u) \ {n})
    BY <1>11, <2>5
  <2>10. frozen'[u] = SumFunctionOnSet(Margins, HeldOf(u))'
    BY <1>2, <1>3, <2>7, <2>8, <2>9
  <2>11. \A v \in Users \ {u} : frozen'[v] = frozen[v]
    BY <1>2, <2>7
  <2> QED BY <1>7, <1>14, <2>2, <2>4, <2>10, <2>11 DEF FrozenIsHeld
<1> QED BY <1>1, <1>8, <1>15, <1>16

\* A thread goes on and its order holds its margin, or does not, as before.
LEMMA MoveKeepsFrozen ==
    ASSUME FrozenInv, NEW t \in Threads, UNCHANGED <<frozen, request, outcome>>,
           \A s \in Threads \ {t} : pc'[s] = pc[s] /\ cur'[s] = cur[s] /\ call'[s] = call[s],
           Place(t)', Freezing(t)' <=> Freezing(t), Freezing(t) => cur'[t] = cur[t]
    PROVE  (\A s \in Threads : Place(s)') /\ HeldPositive' /\ FrozenIsHeld'
<1>1. ASSUME NEW s \in Threads \ {t} PROVE Place(s)'
  <2>1. Place(s)
    BY DEF FrozenInv
  <2> QED BY <2>1 DEF Place
<1>2. HeldPositive' /\ FrozenIsHeld'
  BY HoldersSame
<1> QED BY <1>1, <1>2

\* An order is accepted that holds its margin, or refused that does not.
LEMMA AnswerKeepsFrozen ==
    ASSUME FrozenInv, NEW t \in Threads, pc[t] \in Working, NEW result \in {"accepted", "refused"},
           Answer(t, result), UNCHANGED <<frozen, request>>,
           \A s \in Threads \ {t} : call'[s] = call[s],
           result = "accepted" <=> Freezing(t)
    PROVE  (\A s \in Threads : Place(s)') /\ HeldPositive' /\ FrozenIsHeld'
<1>1. OrderType /\ OwnOrder(t) /\ DOMAIN outcome = DOMAIN request
  BY SameOrders DEF FrozenInv, TradingInv, OrderInv
<1>2. /\ outcome' = [outcome EXCEPT ![cur[t]] = result]
      /\ pc'[t] = "idle" /\ \A s \in Threads \ {t} : pc'[s] = pc[s] /\ cur'[s] = cur[s]
  BY <1>1 DEF Answer, OrderType
<1>3. cur[t] \in DOMAIN outcome /\ outcome[cur[t]] = "open"
  BY <1>1 DEF OwnOrder
<1>4. ~Freezing(t)'
  BY <1>2 DEF Freezing
<1>5. ASSUME NEW n \in DOMAIN request
      PROVE  outcome'[n] = "accepted" <=> outcome[n] = "accepted" \/ (cur[t] = n /\ Freezing(t))
  BY <1>1, <1>2, <1>3
<1>6. HeldPositive' /\ FrozenIsHeld'
  BY <1>2, <1>4, <1>5, HoldersSame
<1>7. Place(t)'
  BY <1>2 DEF Place
<1>8. ASSUME NEW s \in Threads \ {t} PROVE Place(s)'
  <2>1. Place(s)
    BY DEF FrozenInv
  <2> QED BY <2>1, <1>2 DEF Place
<1> QED BY <1>6, <1>7, <1>8

\* A thread of the service goes on outside the account manager.
LEMMA ServiceKeepsFrozen ==
    ASSUME FrozenInv, NEW t \in Threads, Local(t) \/ Remote(t)
    PROVE  (\A s \in Threads : Place(s)') /\ HeldPositive' /\ FrozenIsHeld'
<1>1. /\ OrderType /\ Place(t) /\ Remembers(t) /\ call \in [Threads -> Calls]
      /\ pc \in [Threads -> Labels] /\ DOMAIN cur = Threads
  BY DEF FrozenInv, TradingInv, OrderInv, OrderType, AccountInv, AccountTypeOK, Calls
<1>2. ASSUME NEW step, Enter(t, step)
      PROVE  call'[t].at = step /\ \A s \in Threads \ {t} : call'[s] = call[s]
  BY <1>1, <1>2 DEF Enter, Out
<1>3. ASSUME Leave(t) PROVE \A s \in Threads \ {t} : call'[s] = call[s]
  BY <1>1, <1>3 DEF Leave
<1>4. ASSUME NEW next, Goto(t, next)
      PROVE  pc'[t] = next /\ \A s \in Threads \ {t} : pc'[s] = pc[s]
  BY <1>1, <1>4 DEF Goto
\* Into a call, or out of one
<1>5. ASSUME PassesChecks(t)
      PROVE  (\A s \in Threads : Place(s)') /\ HeldPositive' /\ FrozenIsHeld'
  <2>1. /\ pc[t] = "check" /\ pc'[t] = "freeze" /\ call'[t].at = "freeze"
        /\ \A s \in Threads \ {t} : pc'[s] = pc[s] /\ cur'[s] = cur[s] /\ call'[s] = call[s]
        /\ UNCHANGED <<frozen, request, outcome, cur>>
    BY <1>2, <1>4, <1>5 DEF PassesChecks, requestVars
  <2>2. Place(t)' /\ ~Freezing(t) /\ ~Freezing(t)'
    BY <2>1 DEF Place, Freezing, At
  <2> QED BY <2>1, <2>2, MoveKeepsFrozen
<1>6. ASSUME Froze(t)
      PROVE  (\A s \in Threads : Place(s)') /\ HeldPositive' /\ FrozenIsHeld'
  <2>1. /\ pc[t] = "freeze" /\ At(t, "yes") /\ pc'[t] = "call"
        /\ \A s \in Threads \ {t} : pc'[s] = pc[s] /\ cur'[s] = cur[s] /\ call'[s] = call[s]
        /\ UNCHANGED <<frozen, request, outcome, cur>>
    BY <1>3, <1>4, <1>6 DEF Froze, requestVars
  <2>2. Place(t)' /\ Freezing(t) /\ Freezing(t)'
    BY <2>1 DEF Place, Freezing
  <2> QED BY <2>1, <2>2, MoveKeepsFrozen
<1>7. ASSUME RequestLost(t) \/ ReplyLost(t)
      PROVE  (\A s \in Threads : Place(s)') /\ HeldPositive' /\ FrozenIsHeld'
  <2>1. Enter(t, "unfreeze") /\ Goto(t, "give back") /\ pc[t] \in {"call", "taken"}
        /\ UNCHANGED <<frozen, request, outcome, cur>>
    BY <1>7 DEF RequestLost, ReplyLost, requestVars
  <2>2. /\ pc'[t] = "give back" /\ call'[t].at = "unfreeze"
        /\ \A s \in Threads \ {t} : pc'[s] = pc[s] /\ cur'[s] = cur[s] /\ call'[s] = call[s]
    BY <2>1, <1>2, <1>4
  <2>3. Place(t)' /\ Freezing(t) /\ Freezing(t)'
    BY <2>1, <2>2 DEF Place, Freezing, At
  <2> QED BY <2>1, <2>2, <2>3, MoveKeepsFrozen
\* The order ends
<1>8. ASSUME FailsChecks(t) \/ FailsToFreeze(t) \/ GaveBack(t)
      PROVE  (\A s \in Threads : Place(s)') /\ HeldPositive' /\ FrozenIsHeld'
  <2>1. /\ Answer(t, "refused") /\ Leave(t) /\ UNCHANGED <<frozen, request>>
        /\ \/ pc[t] = "check"
           \/ pc[t] = "freeze" /\ At(t, "no")
           \/ pc[t] = "give back" /\ At(t, "yes")
    BY <1>8 DEF FailsChecks, FailsToFreeze, GaveBack
  <2>2. pc[t] \in Working /\ ~Freezing(t)
    BY <2>1 DEF Freezing, At, Working
  <2> QED BY <2>1, <2>2, <1>3, AnswerKeepsFrozen
<1>9. ASSUME Accept(t)
      PROVE  (\A s \in Threads : Place(s)') /\ HeldPositive' /\ FrozenIsHeld'
  <2>1. Answer(t, "accepted") /\ pc[t] = "accept" /\ UNCHANGED <<frozen, request, call>>
    BY <1>9 DEF Accept, accountVars
  <2>2. pc[t] \in Working /\ Freezing(t)
    BY <2>1 DEF Freezing, Working
  <2> QED BY <2>1, <2>2, AnswerKeepsFrozen
\* The order is with the engine, or there is none
<1>10. ASSUME EngineTakes(t) \/ ReplyArrives(t) \/ Store(t) \/ Update(t)
       PROVE  (\A s \in Threads : Place(s)') /\ HeldPositive' /\ FrozenIsHeld'
  <2>1. PICK next \in After : Goto(t, next)
    BY <1>10 DEF EngineTakes, ReplyArrives, Store, Update, AfterReply, After
  <2>2. /\ pc[t] \in {"call", "taken", "store", "update"}
        /\ UNCHANGED <<frozen, request, outcome, cur, call>>
    BY <1>10 DEF EngineTakes, ReplyArrives, Store, Update, requestVars, accountVars
  <2>3. pc'[t] = next /\ \A s \in Threads \ {t} : pc'[s] = pc[s]
    BY <2>1, <1>4
  <2>4. Place(t)' /\ Freezing(t) /\ Freezing(t)'
    BY <2>2, <2>3 DEF Place, Freezing, After
  <2> QED BY <2>2, <2>3, <2>4, MoveKeepsFrozen
<1>11. ASSUME CancelRefused(t) \/ Query(t) \/ EndQuery(t)
       PROVE  (\A s \in Threads : Place(s)') /\ HeldPositive' /\ FrozenIsHeld'
  <2>1. PICK next \in {"idle", "answer"} : Goto(t, next)
    BY <1>11 DEF CancelRefused, Query, EndQuery
  <2>2. /\ pc[t] \in {"cancel", "query", "answer"} /\ UNCHANGED <<frozen, request, outcome, call>>
        /\ \A s \in Threads \ {t} : cur'[s] = cur[s]
    BY <1>11, <1>1 DEF CancelRefused, Query, EndQuery, requestVars, accountVars
  <2>3. pc'[t] = next /\ \A s \in Threads \ {t} : pc'[s] = pc[s]
    BY <2>1, <1>4
  <2>4. Place(t)' /\ ~Freezing(t) /\ ~Freezing(t)'
    BY <2>2, <2>3 DEF Place, Freezing
  <2> QED BY <2>2, <2>3, <2>4, MoveKeepsFrozen
<1> QED
  BY <1>5, <1>6, <1>7, <1>8, <1>9, <1>10, <1>11 DEF Local, Remote

\* A request comes.
LEMMA RequestKeepsFrozen ==
    ASSUME FrozenInv, NEW t \in Threads, Request(t)
    PROVE  (\A s \in Threads : Place(s)') /\ HeldPositive' /\ FrozenIsHeld'
<1>1. /\ OrderType /\ call \in [Threads -> Calls] /\ pc \in [Threads -> Labels]
      /\ DOMAIN cur = Threads /\ DOMAIN outcome = DOMAIN request
      /\ request \in Seq(Requests) /\ outcome \in Seq(Outcomes) /\ Len(outcome) = Len(request)
      /\ \A s \in Threads : OwnOrder(s)
  BY SameOrders DEF FrozenInv, TradingInv, OrderInv, OrderType, AccountInv, AccountTypeOK, Calls
<1>2. ASSUME NEW o \in Requests, Submit(t, o)
      PROVE  (\A s \in Threads : Place(s)') /\ HeldPositive' /\ FrozenIsHeld'
  <2>1. pc[t] = "idle" /\ request' = Append(request, o) /\ UNCHANGED frozen
    BY <1>2 DEF Submit
  <2>2. /\ Len(request) + 1 \notin DOMAIN request
        /\ DOMAIN request' = DOMAIN request \cup {Len(request) + 1}
        /\ \A n \in DOMAIN request : request'[n] = request[n]
    BY <1>1, <2>1
  <2>3. PICK result \in {"open", "refused"} : outcome' = Append(outcome, result)
    BY <1>2 DEF Submit
  <2>4. /\ outcome'[Len(request) + 1] = result
        /\ \A n \in DOMAIN request : outcome'[n] = outcome[n]
    BY <1>1, <2>3
  <2>5. /\ \A s \in Threads \ {t} : pc'[s] = pc[s] /\ cur'[s] = cur[s] /\ call'[s] = call[s]
        /\ \/ pc'[t] = "check" /\ call'[t].at = "check balance"
           \/ pc'[t] = "idle"
    <3>1. CASE IsValid(o)
      BY <1>1, <1>2, <2>1, <3>1 DEF Submit, Goto, Enter, Out
    <3>2. CASE ~IsValid(o)
      BY <1>2, <2>1, <3>2 DEF Submit
    <3> QED BY <3>1, <3>2
  <2>6. Place(t)' /\ ~Freezing(t) /\ ~Freezing(t)'
    BY <2>1, <2>5 DEF Place, Freezing
  <2>7. ASSUME NEW s \in Threads \ {t} PROVE Place(s)'
    <3>1. Place(s)
      BY DEF FrozenInv
    <3> QED BY <3>1, <2>5 DEF Place
  <2>8. HeldPositive' /\ FrozenIsHeld'
    BY <2>1, <2>2, <2>4, <2>5, <2>6, HoldersSame
  <2> QED BY <2>6, <2>7, <2>8
<1>3. ASSUME NEW u, NEW n, BeginQuery(t, u) \/ Cancel(t, u, n) \/ CancelAtOnce(t)
      PROVE  (\A s \in Threads : Place(s)') /\ HeldPositive' /\ FrozenIsHeld'
  <2>1. PICK next \in {"query", "cancel"} : Goto(t, next)
    BY <1>3 DEF BeginQuery, Cancel, CancelAtOnce
  <2>2. /\ pc[t] = "idle" /\ UNCHANGED <<frozen, request, outcome, call>>
        /\ \A s \in Threads \ {t} : cur'[s] = cur[s]
    BY <1>1, <1>3 DEF BeginQuery, Cancel, CancelAtOnce, requestVars, accountVars
  <2>3. pc'[t] = next /\ \A s \in Threads \ {t} : pc'[s] = pc[s]
    BY <2>1, <1>1 DEF Goto
  <2>4. Place(t)' /\ ~Freezing(t) /\ ~Freezing(t)'
    BY <2>2, <2>3 DEF Place, Freezing
  <2> QED BY <2>2, <2>3, <2>4, MoveKeepsFrozen
<1> QED BY <1>2, <1>3 DEF Request

\* No thread moves.
LEMMA FrozenStays ==
    ASSUME FrozenInv, UNCHANGED <<request, outcome, pc, cur, call, frozen>>
    PROVE  (\A s \in Threads : Place(s)') /\ HeldPositive' /\ FrozenIsHeld'
<1>1. ASSUME NEW s \in Threads PROVE Place(s)'
  BY DEF FrozenInv, Place
<1>2. ASSUME NEW n \in DOMAIN request PROVE Held(n)' <=> Held(n)
  BY DEF Held, Freezing, At
<1> QED BY <1>1, <1>2, HeldSame

LEMMA FrozenKept == FrozenInv /\ [Next]_vars => FrozenInv'
<1> SUFFICES ASSUME FrozenInv, [Next]_vars PROVE FrozenInv'
  OBVIOUS
<1>1. TradingInv'
  BY TradingKept DEF FrozenInv
<1>2. ASSUME NEW u \in Users, NEW amount \in Payments, Pay(u, amount)
      PROVE  (\A s \in Threads : Place(s)') /\ HeldPositive' /\ FrozenIsHeld'
  BY <1>2, FrozenStays DEF Pay, UpdateBalance, SetBalance, requestVars, threadVars
<1>3. CASE UNCHANGED vars
  BY <1>1, <1>3, FrozenStays DEF FrozenInv, vars, requestVars, threadVars, accountVars
<1> QED
  BY <1>1, <1>2, <1>3, CallKeepsFrozen, ServiceKeepsFrozen, RequestKeepsFrozen
     DEF Next, FrozenInv
-----------------------------------------------------------------------------
(* What is stored and shown *)

StoreType ==
    /\ deployed \in {"service", "cqrs"}
    /\ reply \in [Threads -> Int]
    /\ DOMAIN orders_ \subseteq DOMAIN engine
    /\ \A n \in DOMAIN engine : engine[n] \in Int
    /\ user_orders_ \in [Users -> Seq(DOMAIN request)]
    /\ orders_mutex_ \in Threads \cup {Nobody}
    /\ lost_reply \subseteq DOMAIN engine
    /\ known \in [Threads -> SUBSET DOMAIN request] /\ shown \in [Threads -> SUBSET DOMAIN request]
    /\ payments \in 0 .. MaxPayments

\* What a thread's place tells of the order it has, or of the query.
StorePlace(t) ==
    /\ pc[t] \in {"store", "update"} => deployed = "service" /\ reply[t] = engine[cur[t]]
    /\ pc[t] \in Working \ {"update", "accept"} => cur[t] \notin DOMAIN orders_
    /\ pc[t] = "update" \/ (pc[t] = "accept" /\ deployed = "service") => cur[t] \in DOMAIN orders_
    /\ pc[t] = "query" => cur[t] \in Users /\ known[t] \subseteq Accepted \cap OrdersOf(cur[t])

StoreTold ==
    /\ StoreType
    /\ \A t \in Threads : StorePlace(t)
    /\ StoreIsExact
    /\ ServiceShowsAcknowledged

StoreInv == FrozenInv /\ StoreTold

\* The elements of a sequence that grows.
LEMMA OneMoreElement ==
    ASSUME NEW S, NEW s \in Seq(S), NEW x \in S
    PROVE  /\ ToSet(Append(s, x)) = ToSet(s) \cup {x}
           /\ Append(s, x) \in Seq(S) /\ Len(Append(s, x)) = Len(s) + 1
<1>1. /\ Append(s, x) \in Seq(S) /\ Len(Append(s, x)) = Len(s) + 1 /\ Len(s) \in Nat
      /\ DOMAIN s = 1 .. Len(s) /\ DOMAIN Append(s, x) = 1 .. Len(s) + 1
      /\ Append(s, x)[Len(s) + 1] = x /\ \A i \in 1 .. Len(s) : Append(s, x)[i] = s[i]
  OBVIOUS
<1>2. 1 .. Len(s) + 1 = (1 .. Len(s)) \cup {Len(s) + 1}
  BY <1>1
<1>3. ToSet(Append(s, x)) = ToSet(s) \cup {x}
  BY <1>1, <1>2 DEF ToSet
<1> QED BY <1>1, <1>3

LEMMA StoreInitial == Init => StoreInv
<1> SUFFICES ASSUME Init PROVE StoreInv
  OBVIOUS
<1>1. FrozenInv
  BY FrozenInitial
<1>2. \A t \in Threads : pc[t] = "idle"
  BY DEF Init
<1>3. /\ DOMAIN request = {} /\ DOMAIN outcome = {} /\ DOMAIN engine = {} /\ DOMAIN orders_ = {}
      /\ deployed \in {"service", "cqrs"} /\ 0 \in 0 .. MaxPayments
  BY TradingAssumption DEF Init
<1>4. StoreType
  BY <1>3 DEF Init, StoreType, NoReply
<1>5. \A t \in Threads : StorePlace(t)
  BY <1>2 DEF StorePlace, Working
<1>6. StoreIsExact
  <2>1. ToSet(<<>>) = {} /\ Len(<<>>) = 0
    BY DEF ToSet
  <2>2. Cardinality({}) = 0
    BY FS_EmptySet
  <2>3. \A u \in Users : user_orders_[u] = <<>>
    BY DEF Init
  <2>4. \A u \in Users : /\ ToSet(user_orders_[u]) = DOMAIN orders_ \cap OrdersOf(u)
                         /\ Len(user_orders_[u]) = Cardinality(ToSet(user_orders_[u]))
    BY <1>3, <2>1, <2>2, <2>3
  <2> QED BY <1>3, <2>4 DEF StoreIsExact, Accepted
<1>7. ServiceShowsAcknowledged
  BY <1>2 DEF ServiceShowsAcknowledged, AcknowledgedIsShown
<1> QED BY <1>1, <1>4, <1>5, <1>6, <1>7 DEF StoreInv, StoreTold

\* What is stored of other threads' orders, and known to their queries, stays.
LEMMA OthersStay ==
    ASSUME StoreInv, NEW t \in Threads, UNCHANGED deployed,
           \A s \in Threads \ {t} : /\ pc'[s] = pc[s] /\ cur'[s] = cur[s]
                                    /\ reply'[s] = reply[s] /\ known'[s] = known[s],
           DOMAIN orders_ \subseteq DOMAIN orders_',
           \A n \in DOMAIN orders_' : n \in DOMAIN orders_ \/ (pc[t] \in Working /\ n = cur[t]),
           \A n \in DOMAIN engine : engine'[n] = engine[n],
           DOMAIN request \subseteq DOMAIN request',
           \A n \in DOMAIN request : request'[n] = request[n],
           Accepted \subseteq Accepted'
    PROVE  \A s \in Threads \ {t} : StorePlace(s)'
<1> SUFFICES ASSUME NEW s \in Threads \ {t} PROVE StorePlace(s)'
  OBVIOUS
<1>1. StorePlace(s) /\ OwnOrder(s) /\ OwnOrder(t)
  BY DEF StoreInv, StoreTold, FrozenInv, TradingInv, OrderInv
<1>2. pc[s] \in {"store", "update"} => engine'[cur[s]] = engine[cur[s]]
  BY <1>1 DEF OwnOrder, Working, After
<1>3. pc[s] \in Working => (cur[s] \in DOMAIN orders_' <=> cur[s] \in DOMAIN orders_)
  BY <1>1 DEF OwnOrder
<1>4. \A u : OrdersOf(u) \subseteq OrdersOf(u)'
  BY DEF OrdersOf
<1>5. pc[s] = "query" => cur[s] \in Users /\ known[s] \subseteq Accepted' \cap OrdersOf(cur[s])'
  <2> SUFFICES ASSUME NEW u, u = cur[s], pc[s] = "query"
               PROVE  u \in Users /\ known[s] \subseteq Accepted' \cap OrdersOf(u)'
    BY DEF OrdersOf
  <2> QED BY <1>1, <1>4 DEF StorePlace
<1>6. pc[s] = "query" => cur'[s] \in Users /\ known'[s] \subseteq (Accepted \cap OrdersOf(cur[s]))'
  BY <1>5 DEF OrdersOf
<1> QED BY <1>1, <1>2, <1>3, <1>6 DEF StorePlace, Working

\* What is stored is as it was.
LEMMA ExactStays ==
    ASSUME OrderType, StoreType, StoreIsExact, UNCHANGED <<deployed, orders_, user_orders_>>,
           DOMAIN request \subseteq DOMAIN request',
           \A n \in DOMAIN request : request'[n] = request[n],
           \A n \in DOMAIN engine : engine'[n] = engine[n],
           \A n \in DOMAIN orders_ : n \in DOMAIN outcome' => outcome'[n] # "refused",
           deployed = "service" => Accepted' \subseteq DOMAIN orders_
    PROVE  StoreIsExact'
<1>1. DOMAIN orders_ \subseteq DOMAIN request /\ DOMAIN orders_ \subseteq DOMAIN engine
  BY DEF OrderType, StoreType
<1>2. ASSUME NEW u \in Users
      PROVE  /\ ToSet(user_orders_[u])' = (DOMAIN orders_ \cap OrdersOf(u))'
             /\ (Len(user_orders_[u]) = Cardinality(ToSet(user_orders_[u])))'
  <2>1. DOMAIN orders_ \cap OrdersOf(u)' = DOMAIN orders_ \cap OrdersOf(u)
    BY <1>1 DEF OrdersOf
  <2> QED BY <2>1 DEF StoreIsExact
<1>3. \A n \in DOMAIN orders_ :
        orders_[n] = [remaining |-> engine'[n], status |-> Status(request'[n], engine'[n])]
  BY <1>1 DEF StoreIsExact
<1>4. deployed = "cqrs" => DOMAIN orders_ = {}
  BY DEF StoreIsExact
<1> QED BY <1>2, <1>3, <1>4 DEF StoreIsExact

\* A thread moves and nothing is stored.
LEMMA MoveKeepsStore ==
    ASSUME StoreInv, NEW t \in Threads,
           UNCHANGED <<deployed, request, outcome, orders_, user_orders_, engine, reply, known, shown>>,
           \A s \in Threads \ {t} : pc'[s] = pc[s] /\ cur'[s] = cur[s],
           orders_mutex_' \in Threads \cup {Nobody}, lost_reply' \subseteq DOMAIN engine,
           payments' \in 0 .. MaxPayments,
           StorePlace(t)', pc'[t] = "answer" => pc[t] = "answer"
    PROVE  StoreTold'
<1>1. /\ StoreType /\ StoreIsExact /\ ServiceShowsAcknowledged /\ OrderType
      /\ DOMAIN outcome = DOMAIN request
  BY SameOrders DEF StoreInv, StoreTold, FrozenInv, TradingInv, OrderInv
<1>2. StoreType'
  BY <1>1 DEF StoreType
<1>3. Accepted' = Accepted
  BY DEF Accepted
<1>4. \A s \in Threads : StorePlace(s)'
  BY <1>3, OthersStay
<1>5. StoreIsExact'
  BY <1>1, <1>3, ExactStays DEF StoreIsExact
<1>6. ServiceShowsAcknowledged'
  BY <1>1 DEF ServiceShowsAcknowledged, AcknowledgedIsShown
<1> QED BY <1>2, <1>4, <1>5, <1>6 DEF StoreTold

\* An order is answered: stored, if it is accepted and the service keeps a store.
LEMMA AnswerKeepsStore ==
    ASSUME StoreInv, NEW t \in Threads, pc[t] \in Working, NEW result \in {"accepted", "refused"},
           Answer(t, result), UNCHANGED <<deployed, request, storeVars, engineVars, queryVars, payments>>,
           reply' \in [Threads -> Int], \A s \in Threads \ {t} : reply'[s] = reply[s],
           result = "accepted" => pc[t] = "accept",
           result = "refused" => pc[t] \in Working \ {"update", "accept"}
    PROVE  StoreTold'
<1>1. /\ StoreType /\ StoreIsExact /\ ServiceShowsAcknowledged /\ OrderType /\ OwnOrder(t)
      /\ DOMAIN outcome = DOMAIN request /\ StorePlace(t)
  BY SameOrders DEF StoreInv, StoreTold, FrozenInv, TradingInv, OrderInv
<1>2. /\ outcome' = [outcome EXCEPT ![cur[t]] = result]
      /\ pc'[t] = "idle" /\ \A s \in Threads \ {t} : pc'[s] = pc[s] /\ cur'[s] = cur[s]
      /\ UNCHANGED <<orders_, user_orders_, orders_mutex_, engine, lost_reply, known, shown>>
  BY <1>1 DEF Answer, OrderType, storeVars, engineVars, queryVars
<1>3. cur[t] \in DOMAIN outcome /\ outcome[cur[t]] = "open"
  BY <1>1 DEF OwnOrder
<1>4. StoreType'
  BY <1>1, <1>2 DEF StoreType
<1>5. Accepted' = IF result = "accepted" THEN Accepted \cup {cur[t]} ELSE Accepted
  BY <1>2, <1>3 DEF Accepted
<1>6. StorePlace(t)'
  BY <1>2 DEF StorePlace, Working
<1>7. \A s \in Threads : StorePlace(s)'
  BY <1>2, <1>5, <1>6, OthersStay
<1>8. StoreIsExact'
  <2>1. \A n \in DOMAIN orders_ : n \in DOMAIN outcome' => outcome'[n] # "refused"
    <3>1. \A n \in DOMAIN orders_ : n \in DOMAIN outcome => outcome[n] # "refused"
      BY <1>1 DEF StoreIsExact
    <3>2. result = "refused" => cur[t] \notin DOMAIN orders_
      BY <1>1 DEF StorePlace
    <3> QED BY <3>1, <3>2, <1>2
  <2>2. deployed = "service" => Accepted' \subseteq DOMAIN orders_
    BY <1>1, <1>5 DEF StoreIsExact, StorePlace
  <2> QED BY <2>1, <2>2, <1>1, <1>2, ExactStays
<1>9. ServiceShowsAcknowledged'
  BY <1>1, <1>2 DEF ServiceShowsAcknowledged, AcknowledgedIsShown
<1> QED BY <1>4, <1>7, <1>8, <1>9 DEF StoreTold

\* The engine takes the order of a thread, or its answer arrives.
LEMMA EngineKeepsStore ==
    ASSUME StoreInv, NEW t \in Threads, EngineTakes(t) \/ ReplyArrives(t)
    PROVE  StoreTold'
<1>1. /\ StoreType /\ StoreIsExact /\ ServiceShowsAcknowledged /\ OrderType /\ OwnOrder(t)
      /\ DOMAIN outcome = DOMAIN request /\ StorePlace(t)
  BY SameOrders DEF StoreInv, StoreTold, FrozenInv, TradingInv, OrderInv
<1>2. /\ UNCHANGED <<deployed, request, outcome, cur, orders_, user_orders_, orders_mutex_,
                     lost_reply, known, shown, payments>>
      /\ pc[t] \in {"call", "taken"} /\ pc[t] \in Working
  BY DEF EngineTakes, ReplyArrives, requestVars, storeVars, engineVars, queryVars, Working
<1>3. cur[t] \in DOMAIN request /\ cur[t] \notin DOMAIN orders_
  BY <1>1, <1>2 DEF OwnOrder, StorePlace
<1>4. Accepted' = Accepted
  BY <1>2 DEF Accepted
<1>5. \A n \in DOMAIN orders_ : n \in DOMAIN outcome' => outcome'[n] # "refused"
  BY <1>1, <1>2 DEF StoreIsExact
<1>6. deployed = "service" => Accepted' \subseteq DOMAIN orders_
  BY <1>1, <1>4 DEF StoreIsExact
<1>7. CASE EngineTakes(t)
  <2>1. /\ pc' = [pc EXCEPT ![t] = "taken"] /\ reply' = reply /\ pc[t] = "call"
        /\ \E remaining \in 0 .. Sent(t).quantity : engine' = Extend(engine, cur[t], remaining)
    BY <1>7 DEF EngineTakes, Goto
  <2>2. PICK remaining \in Int : engine' = Extend(engine, cur[t], remaining)
    BY <2>1
  <2>3. cur[t] \notin DOMAIN engine
    BY <1>1, <2>1 DEF OwnOrder, Working, Before
  <2>4. /\ DOMAIN engine' = DOMAIN engine \cup {cur[t]} /\ engine'[cur[t]] = remaining
        /\ \A n \in DOMAIN engine : engine'[n] = engine[n]
    BY <2>2, <2>3 DEF Extend
  <2>5. pc'[t] = "taken" /\ \A s \in Threads \ {t} : pc'[s] = pc[s]
    BY <2>1, <1>1 DEF OrderType
  <2>6. StoreType'
    BY <1>1, <1>2, <2>1, <2>4 DEF StoreType
  <2>7. StorePlace(t)'
    BY <1>2, <1>3, <2>5 DEF StorePlace
  <2>8. \A s \in Threads : StorePlace(s)'
    BY <1>2, <1>4, <2>1, <2>4, <2>5, <2>7, OthersStay
  <2>9. StoreIsExact'
    BY <1>1, <1>2, <1>5, <1>6, <2>4, ExactStays
  <2>10. ServiceShowsAcknowledged'
    BY <1>1, <1>2, <2>5 DEF ServiceShowsAcknowledged, AcknowledgedIsShown
  <2> QED BY <2>6, <2>8, <2>9, <2>10 DEF StoreTold
<1>8. CASE ReplyArrives(t)
  <2>1. /\ pc' = [pc EXCEPT ![t] = AfterReply] /\ engine' = engine /\ pc[t] = "taken"
        /\ reply' = [reply EXCEPT ![t] = engine[cur[t]]]
    BY <1>8 DEF ReplyArrives, Goto, engineVars
  <2>2. cur[t] \in DOMAIN engine
    BY <1>1, <2>1 DEF OwnOrder, Working, After
  <2>3. pc'[t] = AfterReply /\ \A s \in Threads \ {t} : pc'[s] = pc[s]
    BY <2>1, <1>1 DEF OrderType
  <2>4. /\ reply' \in [Threads -> Int] /\ reply'[t] = engine[cur[t]]
        /\ \A s \in Threads \ {t} : reply'[s] = reply[s]
    BY <2>1, <2>2, <1>1 DEF StoreType
  <2>5. StoreType'
    BY <1>1, <1>2, <2>1, <2>4 DEF StoreType
  <2>6. StorePlace(t)'
    BY <1>1, <1>2, <1>3, <2>1, <2>3, <2>4 DEF StorePlace, AfterReply, StoreType
  <2>7. \A s \in Threads : StorePlace(s)'
    BY <1>2, <1>4, <2>1, <2>3, <2>4, <2>6, OthersStay
  <2>8. StoreIsExact'
    BY <1>1, <1>2, <1>5, <1>6, <2>1, ExactStays
  <2>9. ServiceShowsAcknowledged'
    <3>1. pc'[t] # "answer"
      BY <2>3 DEF AfterReply
    <3> QED BY <3>1, <1>1, <1>2, <2>3 DEF ServiceShowsAcknowledged, AcknowledgedIsShown
  <2> QED BY <2>5, <2>7, <2>8, <2>9 DEF StoreTold
<1> QED BY <1>7, <1>8

\* An order is stored with its user, and then once more.
LEMMA StoringKeepsStore ==
    ASSUME StoreInv, NEW t \in Threads, Store(t) \/ Update(t)
    PROVE  StoreTold'
<1>1. /\ StoreType /\ StoreIsExact /\ ServiceShowsAcknowledged /\ OrderType /\ OwnOrder(t)
      /\ DOMAIN outcome = DOMAIN request /\ StorePlace(t)
  BY SameOrders DEF StoreInv, StoreTold, FrozenInv, TradingInv, OrderInv
<1>2. /\ UNCHANGED <<deployed, request, outcome, cur, reply, orders_mutex_, engine,
                     lost_reply, known, shown, payments>>
      /\ pc[t] \in {"store", "update"} /\ pc[t] \in Working /\ pc[t] \in After
  BY DEF Store, Update, requestVars, storeVars, engineVars, queryVars, Working, After
<1> SUFFICES ASSUME NEW n, n = cur[t], NEW o, o = Sent(t), NEW u, u = o.user PROVE StoreTold'
  OBVIOUS
<1>3. /\ n \in DOMAIN request /\ n \in DOMAIN engine /\ outcome[n] = "open"
      /\ o = request[n] /\ u \in Users /\ deployed = "service" /\ reply[t] = engine[n]
      /\ n \in OrdersOf(u)
  <2>1. n \in DOMAIN request /\ n \in DOMAIN engine /\ outcome[n] = "open"
    BY <1>1, <1>2 DEF OwnOrder
  <2>2. request[n].user \in Users
    BY <2>1, <1>1, MarginIsInt
  <2> QED BY <2>1, <2>2, <1>1, <1>2 DEF StorePlace, Sent, OrdersOf
<1>4. /\ Stored(t) = [remaining |-> engine[n], status |-> Status(request[n], engine[n])]
  BY <1>3 DEF Stored
<1>5. Accepted' = Accepted /\ OrdersOf(u)' = OrdersOf(u)
  BY <1>2 DEF Accepted, OrdersOf
<1>6. ASSUME DOMAIN orders_' = DOMAIN orders_ \cup {n}, orders_'[n] = Stored(t),
             \A k \in DOMAIN orders_ : k # n => orders_'[k] = orders_[k],
             NEW next \in {"update", "accept"}, Goto(t, next),
             user_orders_' \in [Users -> Seq(DOMAIN request)],
             \A v \in Users : /\ ToSet(user_orders_'[v]) = DOMAIN orders_' \cap OrdersOf(v)
                              /\ Len(user_orders_'[v]) = Cardinality(ToSet(user_orders_'[v]))
      PROVE  StoreTold'
  <2>1. pc'[t] = next /\ \A s \in Threads \ {t} : pc'[s] = pc[s]
    BY <1>1, <1>6 DEF Goto, OrderType
  <2>2. StoreType'
    BY <1>1, <1>2, <1>3, <1>6 DEF StoreType
  <2>3. StorePlace(t)'
    BY <1>2, <1>3, <1>6, <2>1 DEF StorePlace
  <2>4. \A s \in Threads : StorePlace(s)'
    BY <1>2, <1>5, <1>6, <2>1, <2>3, OthersStay
  <2>5. StoreIsExact'
    <3>1. \A v : OrdersOf(v)' = OrdersOf(v)
      BY <1>2 DEF OrdersOf
    <3>2. \A v \in Users : /\ ToSet(user_orders_[v])' = (DOMAIN orders_ \cap OrdersOf(v))'
                           /\ (Len(user_orders_[v]) = Cardinality(ToSet(user_orders_[v])))'
      BY <1>6, <3>1
    <3>3. \A k \in DOMAIN orders_' :
            orders_'[k] = [remaining |-> engine'[k], status |-> Status(request'[k], engine'[k])]
      BY <1>1, <1>2, <1>4, <1>6 DEF StoreIsExact
    <3>4. DOMAIN orders_' \cap {k \in DOMAIN outcome' : outcome'[k] = "refused"} = {}
      BY <1>1, <1>2, <1>3, <1>6 DEF StoreIsExact
    <3>5. Accepted' \subseteq DOMAIN orders_' /\ deployed' # "cqrs"
      BY <1>1, <1>2, <1>3, <1>5, <1>6 DEF StoreIsExact
    <3> QED BY <3>2, <3>3, <3>4, <3>5 DEF StoreIsExact
  <2>6. ServiceShowsAcknowledged'
    BY <1>1, <1>2, <2>1 DEF ServiceShowsAcknowledged, AcknowledgedIsShown
  <2> QED BY <2>2, <2>4, <2>5, <2>6 DEF StoreTold
<1>7. CASE Store(t)
  <2>1. /\ orders_' = Extend(orders_, n, Stored(t)) /\ Goto(t, "update") /\ pc[t] = "store"
        /\ user_orders_' = [user_orders_ EXCEPT ![u] = Append(user_orders_[u], n)]
    BY <1>7 DEF Store
  <2>2. /\ DOMAIN orders_' = DOMAIN orders_ \cup {n} /\ orders_'[n] = Stored(t)
        /\ \A k \in DOMAIN orders_ : k # n => orders_'[k] = orders_[k]
    BY <2>1 DEF Extend
  <2>3. user_orders_ \in [Users -> Seq(DOMAIN request)]
    BY <1>1 DEF StoreType
  <2>4. /\ ToSet(Append(user_orders_[u], n)) = ToSet(user_orders_[u]) \cup {n}
        /\ Append(user_orders_[u], n) \in Seq(DOMAIN request)
        /\ Len(Append(user_orders_[u], n)) = Len(user_orders_[u]) + 1
    BY <1>3, <2>3, OneMoreElement
  <2>5. /\ \A v \in Users : ToSet(user_orders_[v]) = DOMAIN orders_ \cap OrdersOf(v)
        /\ \A v \in Users : Len(user_orders_[v]) = Cardinality(ToSet(user_orders_[v]))
    BY <1>1 DEF StoreIsExact
  <2>6. n \notin DOMAIN orders_
    BY <1>1, <1>2, <2>1 DEF StorePlace
  <2>7. IsFiniteSet(ToSet(user_orders_[u]))
    <3>1. IsFiniteSet(DOMAIN request)
      <4>1. DOMAIN request = 1 .. Len(request) /\ Len(request) \in Nat
        BY <1>1 DEF OrderType
      <4> QED BY <4>1, FS_Interval
    <3>2. ToSet(user_orders_[u]) \subseteq DOMAIN request
      BY <1>3, <2>5 DEF OrdersOf
    <3> QED BY <3>1, <3>2, FS_Subset
  <2>8. /\ ToSet(user_orders_'[u]) = DOMAIN orders_' \cap OrdersOf(u)
        /\ Len(user_orders_'[u]) = Cardinality(ToSet(user_orders_'[u]))
    <3>1. user_orders_'[u] = Append(user_orders_[u], n)
      BY <1>3, <2>1, <2>3
    <3>2. n \notin ToSet(user_orders_[u])
      BY <1>3, <2>5, <2>6
    <3>3. Cardinality(ToSet(user_orders_[u]) \cup {n}) = Cardinality(ToSet(user_orders_[u])) + 1
      BY <2>7, <3>2, FS_AddElement
    <3>4. ToSet(user_orders_'[u]) = DOMAIN orders_' \cap OrdersOf(u)
      BY <1>3, <2>2, <2>4, <2>5, <3>1
    <3> QED BY <1>3, <2>4, <2>5, <3>1, <3>3, <3>4
  <2>9. ASSUME NEW v \in Users \ {u}
        PROVE  /\ ToSet(user_orders_'[v]) = DOMAIN orders_' \cap OrdersOf(v)
               /\ Len(user_orders_'[v]) = Cardinality(ToSet(user_orders_'[v]))
    <3>1. user_orders_'[v] = user_orders_[v] /\ n \notin OrdersOf(v)
      BY <1>3, <2>1, <2>3 DEF OrdersOf
    <3> QED BY <3>1, <2>2, <2>5
  <2>10. user_orders_' \in [Users -> Seq(DOMAIN request)]
    BY <2>1, <2>3, <2>4
  <2> QED BY <1>6, <2>1, <2>2, <2>8, <2>9, <2>10
<1>8. CASE Update(t)
  <2>1. /\ orders_' = [orders_ EXCEPT ![n] = Stored(t)] /\ Goto(t, "accept") /\ pc[t] = "update"
        /\ user_orders_' = user_orders_
    BY <1>8 DEF Update
  <2>2. n \in DOMAIN orders_
    BY <1>1, <2>1 DEF StorePlace
  <2>3. /\ DOMAIN orders_' = DOMAIN orders_ \cup {n} /\ orders_'[n] = Stored(t)
        /\ \A k \in DOMAIN orders_ : k # n => orders_'[k] = orders_[k]
        /\ DOMAIN orders_' = DOMAIN orders_
    BY <2>1, <2>2
  <2>4. /\ user_orders_' \in [Users -> Seq(DOMAIN request)]
        /\ \A v \in Users : /\ ToSet(user_orders_'[v]) = DOMAIN orders_' \cap OrdersOf(v)
                            /\ Len(user_orders_'[v]) = Cardinality(ToSet(user_orders_'[v]))
    BY <1>1, <2>1, <2>3 DEF StoreType, StoreIsExact
  <2> QED BY <1>6, <2>1, <2>3, <2>4
<1> QED BY <1>7, <1>8

\* A query begins, looks and ends.
LEMMA QueryKeepsStore ==
    ASSUME StoreInv, NEW t \in Threads,
           (\E u \in Users : BeginQuery(t, u)) \/ Query(t) \/ EndQuery(t)
    PROVE  StoreTold'
<1>1. /\ StoreType /\ StoreIsExact /\ ServiceShowsAcknowledged /\ OrderType
      /\ DOMAIN outcome = DOMAIN request /\ StorePlace(t) /\ OwnOrder(t)
  BY SameOrders DEF StoreInv, StoreTold, FrozenInv, TradingInv, OrderInv
<1>2. /\ UNCHANGED <<deployed, request, outcome, reply, orders_, user_orders_, orders_mutex_, engine,
                     lost_reply, payments>>
      /\ \A s \in Threads \ {t} : cur'[s] = cur[s] /\ known'[s] = known[s] /\ shown'[s] = shown[s]
  <2>1. DOMAIN cur = Threads /\ DOMAIN known = Threads /\ DOMAIN shown = Threads
    BY <1>1 DEF OrderType, StoreType
  <2> QED BY <2>1 DEF BeginQuery, Query, EndQuery, requestVars, storeVars, engineVars
<1>3. Accepted' = Accepted /\ Accepted \subseteq DOMAIN request
  BY <1>1, <1>2 DEF Accepted
<1>4. StoreIsExact'
  BY <1>1, <1>2, <1>3, ExactStays DEF StoreIsExact
<1>5. ASSUME NEW next \in {"query", "answer", "idle"}, Goto(t, next), StorePlace(t)',
             known' \in [Threads -> SUBSET DOMAIN request],
             shown' \in [Threads -> SUBSET DOMAIN request],
             next = "answer" /\ deployed = "service" => known'[t] \subseteq shown'[t]
      PROVE  StoreTold'
  <2>1. pc'[t] = next /\ \A s \in Threads \ {t} : pc'[s] = pc[s]
    BY <1>1, <1>5 DEF Goto, OrderType
  <2>2. StoreType'
    BY <1>1, <1>2, <1>5 DEF StoreType
  <2>3. \A s \in Threads : StorePlace(s)'
    BY <1>2, <1>3, <1>5, <2>1, OthersStay
  <2>4. ServiceShowsAcknowledged'
    BY <1>1, <1>2, <1>5, <2>1 DEF ServiceShowsAcknowledged, AcknowledgedIsShown
  <2> QED BY <1>4, <2>2, <2>3, <2>4 DEF StoreTold
<1>6. ASSUME NEW u \in Users, BeginQuery(t, u) PROVE StoreTold'
  <2>1. /\ known' = [known EXCEPT ![t] = Accepted \cap OrdersOf(u)] /\ shown' = shown
        /\ cur' = [cur EXCEPT ![t] = u] /\ Goto(t, "query") /\ pc'[t] = "query"
    BY <1>1, <1>6 DEF BeginQuery, Goto, OrderType
  <2>2. /\ known' \in [Threads -> SUBSET DOMAIN request] /\ known'[t] = Accepted \cap OrdersOf(u)
        /\ cur'[t] = u
    BY <1>1, <1>3, <2>1 DEF StoreType, OrderType
  <2>3. StorePlace(t)'
    <3>1. OrdersOf(u)' = OrdersOf(u)
      BY <1>2 DEF OrdersOf
    <3>2. cur'[t] \in Users /\ known'[t] \subseteq Accepted' \cap OrdersOf(u)'
      BY <1>3, <2>2, <3>1
    <3>3. known'[t] \subseteq (Accepted \cap OrdersOf(cur[t]))'
      BY <2>2, <3>2 DEF OrdersOf
    <3> QED BY <2>1, <2>2, <3>2, <3>3 DEF StorePlace, Working
  <2> QED BY <1>1, <1>5, <2>1, <2>2, <2>3 DEF StoreType
<1>7. CASE Query(t)
  <2>1. /\ known' = known /\ Goto(t, "answer") /\ pc'[t] = "answer" /\ pc[t] = "query"
        /\ shown' = [shown EXCEPT ![t] = IF deployed = "service" THEN Listed(cur[t]) ELSE {}]
    BY <1>1, <1>7 DEF Query, Goto, OrderType
  <2>2. StorePlace(t)'
    BY <2>1 DEF StorePlace, Working
  <2>3. PICK u \in Users : u = cur[t] /\ known[t] \subseteq Accepted \cap OrdersOf(u)
    BY <1>1, <2>1 DEF StorePlace
  <2>4. Listed(u) = DOMAIN orders_ \cap OrdersOf(u)
    BY <1>1 DEF StoreIsExact, Listed
  <2>5. Listed(u) \subseteq DOMAIN request
    BY <2>4 DEF OrdersOf
  <2>6. /\ shown' \in [Threads -> SUBSET DOMAIN request]
        /\ deployed = "service" => shown'[t] = Listed(u)
    BY <1>1, <2>1, <2>3, <2>5 DEF StoreType
  <2>7. deployed = "service" => known'[t] \subseteq shown'[t]
    BY <1>1, <2>1, <2>3, <2>4, <2>6 DEF StoreIsExact
  <2> QED BY <1>1, <1>5, <2>1, <2>2, <2>6, <2>7 DEF StoreType
<1>8. CASE EndQuery(t)
  <2>1. /\ known' = [known EXCEPT ![t] = {}] /\ shown' = [shown EXCEPT ![t] = {}]
        /\ Goto(t, "idle") /\ pc'[t] = "idle"
    BY <1>1, <1>8 DEF EndQuery, Goto, OrderType
  <2>2. StorePlace(t)'
    BY <2>1 DEF StorePlace, Working
  <2>3. /\ known' \in [Threads -> SUBSET DOMAIN request]
        /\ shown' \in [Threads -> SUBSET DOMAIN request]
    BY <1>1, <2>1 DEF StoreType
  <2> QED BY <1>5, <2>1, <2>2, <2>3
<1> QED BY <1>6, <1>7, <1>8

\* An order comes, refused at once or open.
LEMMA SubmitKeepsStore ==
    ASSUME StoreInv, NEW t \in Threads, NEW o \in Requests, Submit(t, o)
    PROVE  StoreTold'
<1>1. /\ StoreType /\ StoreIsExact /\ ServiceShowsAcknowledged /\ OrderType
      /\ DOMAIN outcome = DOMAIN request /\ DOMAIN engine \subseteq DOMAIN request
      /\ request \in Seq(Requests) /\ outcome \in Seq(Outcomes) /\ Len(outcome) = Len(request)
  BY SameOrders DEF StoreInv, StoreTold, FrozenInv, TradingInv, OrderInv, OrderType
<1> DEFINE n == Len(request) + 1
<1>2. /\ UNCHANGED <<deployed, reply, orders_, user_orders_, orders_mutex_, engine, lost_reply,
                     known, shown, payments>>
      /\ request' = Append(request, o) /\ pc[t] = "idle"
  BY DEF Submit, storeVars, engineVars, queryVars
<1>3. PICK result \in {"open", "refused"} : outcome' = Append(outcome, result)
  BY DEF Submit
<1>4. /\ n \notin DOMAIN request /\ DOMAIN request' = DOMAIN request \cup {n}
      /\ \A k \in DOMAIN request : request'[k] = request[k]
      /\ DOMAIN outcome' = DOMAIN request \cup {n} /\ outcome'[n] = result
      /\ \A k \in DOMAIN request : outcome'[k] = outcome[k]
      /\ DOMAIN request \in SUBSET DOMAIN request'
  BY <1>1, <1>2, <1>3
<1>5. /\ \A s \in Threads \ {t} : pc'[s] = pc[s] /\ cur'[s] = cur[s]
      /\ \/ pc'[t] = "check" /\ cur'[t] = n
         \/ pc'[t] = "idle"
  <2>1. CASE IsValid(o)
    BY <1>1, <2>1 DEF Submit, Goto, OrderType
  <2>2. CASE ~IsValid(o)
    BY <1>2, <2>2 DEF Submit
  <2> QED BY <2>1, <2>2
<1> HIDE DEF n
<1>6. StoreType'
  <2>1. Seq(DOMAIN request) \subseteq Seq(DOMAIN request')
    BY <1>4, SeqMonotonic
  <2> QED BY <1>1, <1>2, <1>4, <2>1 DEF StoreType
<1>7. Accepted' = Accepted
  BY <1>1, <1>4 DEF Accepted
<1>8. n \notin DOMAIN orders_
  BY <1>1, <1>4 DEF StoreType
<1>9. StorePlace(t)'
  BY <1>2, <1>5, <1>8 DEF StorePlace, Working
<1>10. \A s \in Threads : StorePlace(s)'
  BY <1>2, <1>4, <1>5, <1>7, <1>9, OthersStay
<1>11. StoreIsExact'
  <2>1. \A k \in DOMAIN orders_ : k \in DOMAIN outcome' => outcome'[k] # "refused"
    BY <1>1, <1>4, <1>8 DEF StoreIsExact
  <2>2. deployed = "service" => Accepted' \subseteq DOMAIN orders_
    BY <1>1, <1>7 DEF StoreIsExact
  <2> QED BY <2>1, <2>2, <1>1, <1>2, <1>4, ExactStays
<1>12. ServiceShowsAcknowledged'
  BY <1>1, <1>2, <1>5 DEF ServiceShowsAcknowledged, AcknowledgedIsShown
<1> QED BY <1>6, <1>10, <1>11, <1>12 DEF StoreTold

\* The steps that store nothing.
LEMMA OtherKeepsStore ==
    ASSUME StoreInv, NEW t \in Threads,
           \/ PassesChecks(t) \/ Froze(t) \/ RequestLost(t) \/ ReplyLost(t) \/ InAccount(t)
           \/ CancelAtOnce(t) \/ CancelRefused(t) \/ \E u, n : Cancel(t, u, n)
    PROVE  StoreTold'
<1>1. /\ StoreType /\ OrderType /\ OwnOrder(t) /\ StorePlace(t)
  BY DEF StoreInv, StoreTold, FrozenInv, TradingInv, OrderInv
<1>2. UNCHANGED <<deployed, request, outcome, cur, orders_, user_orders_, engine, reply, known, shown,
                  payments>>
  BY DEF PassesChecks, Froze, RequestLost, ReplyLost, InAccount, CancelAtOnce, CancelRefused, Cancel,
         requestVars, storeVars, engineVars, queryVars, threadVars
<1>3. /\ orders_mutex_' \in Threads \cup {Nobody}
      /\ lost_reply' \subseteq DOMAIN engine
  <2>1. CASE ReplyLost(t)
    <3>1. /\ lost_reply' = lost_reply \cup {cur[t]} /\ pc[t] = "taken"
          /\ orders_mutex_' = orders_mutex_
      BY <2>1 DEF ReplyLost, storeVars
    <3> QED BY <3>1, <1>1 DEF StoreType, OwnOrder, Working, After
  <2>2. CASE PassesChecks(t) \/ Froze(t) \/ RequestLost(t) \/ InAccount(t) \/ CancelAtOnce(t)
    BY <2>2, <1>1 DEF PassesChecks, Froze, RequestLost, InAccount, CancelAtOnce, storeVars,
                      engineVars, StoreType
  <2>3. CASE CancelRefused(t) \/ \E u, n : Cancel(t, u, n)
    BY <2>3, <1>1 DEF CancelRefused, Cancel, Released, engineVars, StoreType
  <2> QED BY <2>1, <2>2, <2>3
<1>4. PICK next \in Labels : /\ pc' = [pc EXCEPT ![t] = next]
                             /\ \/ next = pc[t]
                                \/ next \in {"freeze", "call", "give back"} /\ pc[t] \in Before \cup {"taken"}
                                \/ next \in {"cancel", "idle"}
  <2>1. CASE InAccount(t)
    BY <2>1, <1>1 DEF InAccount, threadVars, OrderType
  <2>2. CASE PassesChecks(t) \/ Froze(t) \/ RequestLost(t) \/ ReplyLost(t)
    BY <2>2 DEF PassesChecks, Froze, RequestLost, ReplyLost, Goto, Before, Labels
  <2>3. CASE CancelRefused(t) \/ CancelAtOnce(t) \/ \E u, n : Cancel(t, u, n)
    BY <2>3 DEF CancelRefused, CancelAtOnce, Cancel, Goto, Labels
  <2> QED BY <2>1, <2>2, <2>3
<1>5. pc'[t] = next /\ \A s \in Threads \ {t} : pc'[s] = pc[s]
  BY <1>1, <1>4 DEF OrderType
<1>6. Accepted' = Accepted
  BY <1>2 DEF Accepted
<1>7. StorePlace(t)'
  <2>1. CASE next = pc[t]
    <3>1. pc[t] = "query" => cur'[t] \in Users /\ known'[t] \subseteq (Accepted \cap OrdersOf(cur[t]))'
      BY <1>1, <1>2, <1>6 DEF StorePlace, OrdersOf
    <3> QED BY <2>1, <3>1, <1>1, <1>2, <1>5 DEF StorePlace
  <2>2. CASE next \in {"freeze", "call", "give back"} /\ pc[t] \in Before \cup {"taken"}
    BY <2>2, <1>1, <1>2, <1>5 DEF StorePlace, Before, Working
  <2>3. CASE next \in {"cancel", "idle"}
    BY <2>3, <1>5 DEF StorePlace, Working
  <2> QED BY <2>1, <2>2, <2>3, <1>4
<1>8. pc'[t] = "answer" => pc[t] = "answer"
  BY <1>4, <1>5
<1>9. payments' \in 0 .. MaxPayments
  BY <1>1, <1>2 DEF StoreType
<1> QED BY <1>2, <1>3, <1>5, <1>7, <1>8, <1>9, MoveKeepsStore

LEMMA StoreKept == StoreInv /\ [Next]_vars => StoreInv'
<1> SUFFICES ASSUME StoreInv, [Next]_vars PROVE StoreInv'
  OBVIOUS
<1>1. FrozenInv'
  BY FrozenKept DEF StoreInv
<1>2. ASSUME NEW t \in Threads, FailsChecks(t) \/ FailsToFreeze(t) \/ GaveBack(t)
      PROVE  StoreTold'
  <2>1. /\ Answer(t, "refused") /\ pc[t] \in {"check", "freeze", "give back"}
        /\ UNCHANGED <<deployed, request, reply, storeVars, engineVars, queryVars, payments>>
    BY <1>2 DEF FailsChecks, FailsToFreeze, GaveBack
  <2>2. reply' \in [Threads -> Int] /\ \A s \in Threads \ {t} : reply'[s] = reply[s]
    BY <2>1 DEF StoreInv, StoreTold, StoreType
  <2>3. pc[t] \in Working \ {"update", "accept"}
    BY <2>1 DEF Working
  <2> QED BY <2>1, <2>2, <2>3, AnswerKeepsStore
<1>3. ASSUME NEW t \in Threads, Accept(t) PROVE StoreTold'
  <2>1. /\ Answer(t, "accepted") /\ pc[t] = "accept" /\ reply' = [reply EXCEPT ![t] = NoReply]
        /\ UNCHANGED <<deployed, request, storeVars, engineVars, queryVars, payments>>
    BY <1>3 DEF Accept
  <2>2. reply' \in [Threads -> Int] /\ \A s \in Threads \ {t} : reply'[s] = reply[s]
    BY <2>1 DEF StoreInv, StoreTold, StoreType, NoReply
  <2>3. pc[t] \in Working
    BY <2>1 DEF Working
  <2> QED BY <2>1, <2>2, <2>3, AnswerKeepsStore
<1>4. ASSUME NEW u \in Users, NEW amount \in Payments, Pay(u, amount) PROVE StoreTold'
  <2>1. /\ UNCHANGED <<deployed, request, outcome, pc, cur, reply, orders_, user_orders_,
                       orders_mutex_, engine, lost_reply, known, shown>>
        /\ payments' = payments + 1 /\ payments < MaxPayments
    BY <1>4 DEF Pay, requestVars, threadVars, storeVars, engineVars, queryVars
  <2>2. payments' \in 0 .. MaxPayments
    BY <2>1, TradingAssumption DEF StoreInv, StoreTold, StoreType
  <2>3. StoreType'
    BY <2>1, <2>2 DEF StoreInv, StoreTold, StoreType
  <2>4. ASSUME NEW t \in Threads PROVE StorePlace(t)'
    BY <2>1 DEF StoreInv, StoreTold, StorePlace, Accepted, OrdersOf
  <2>5. StoreIsExact' /\ ServiceShowsAcknowledged'
    BY <2>1 DEF StoreInv, StoreTold, StoreIsExact, ServiceShowsAcknowledged, AcknowledgedIsShown,
                Accepted, OrdersOf
  <2> QED BY <2>3, <2>4, <2>5 DEF StoreTold
<1>5. CASE UNCHANGED vars
  <2>1. UNCHANGED <<deployed, request, outcome, pc, cur, reply, orders_, user_orders_,
                    orders_mutex_, engine, lost_reply, known, shown, payments>>
    BY <1>5 DEF vars, requestVars, threadVars, storeVars, engineVars, queryVars
  <2>2. StoreType'
    BY <2>1 DEF StoreInv, StoreTold, StoreType
  <2>3. ASSUME NEW t \in Threads PROVE StorePlace(t)'
    BY <2>1 DEF StoreInv, StoreTold, StorePlace, Accepted, OrdersOf
  <2>4. StoreIsExact' /\ ServiceShowsAcknowledged'
    BY <2>1 DEF StoreInv, StoreTold, StoreIsExact, ServiceShowsAcknowledged, AcknowledgedIsShown,
                Accepted, OrdersOf
  <2> QED BY <1>1, <2>2, <2>3, <2>4 DEF StoreTold, StoreInv
<1>6. ASSUME NEW t \in Threads, Local(t) \/ Remote(t) \/ Request(t) \/ InAccount(t)
      PROVE  StoreTold'
  BY <1>2, <1>3, <1>6, EngineKeepsStore, StoringKeepsStore, QueryKeepsStore, SubmitKeepsStore,
     OtherKeepsStore DEF Local, Remote, Request
<1> QED BY <1>1, <1>4, <1>5, <1>6 DEF Next, StoreInv

\* Under concurrent submissions, lost calls and payments, what is frozen of an account is
\* the margin of the orders it has accepted or in progress: an exchange succeeds only on
\* the amount it was computed from, and an order gives back its margin once, while it
\* still holds it.
THEOREM MarginStaysExplained == Spec => []MarginExplained
<1>1. StoreInv => MarginExplained
  <2> SUFFICES ASSUME StoreInv PROVE MarginExplained
    OBVIOUS
  <2>1. OrderType /\ AccountTypeOK /\ StoreType /\ FrozenIsHeld /\ \A t \in Threads : OwnOrder(t)
    BY DEF StoreInv, StoreTold, FrozenInv, TradingInv, OrderInv, AccountInv
  <2>2. ASSUME NEW t \in Threads, pc[t] \notin {"idle", "cancel", "query", "answer"}
        PROVE  cur[t] \in DOMAIN request
    <3>1. pc[t] \in Working
      BY <2>1, <2>2 DEF OrderType, Labels, Working
    <3> QED BY <2>1, <3>1 DEF OwnOrder
  <2>3. TypeOK
    BY <2>1, <2>2 DEF TypeOK, OrderType, Outcomes, StoreType
  <2> QED BY <2>1, <2>3 DEF MarginExplained
<1> QED BY <1>1, StoreInitial, StoreKept, PTL DEF Spec

\* The service stores what it accepts, with its user, with what the engine answered, once;
\* a query under way answers with all that was acknowledged before it began.
THEOREM OrdersStayShown == Spec => []OrdersShown
<1>1. StoreInv => OrdersShown
  BY DEF StoreInv, StoreTold, OrdersShown
<1> QED BY <1>1, StoreInitial, StoreKept, PTL DEF Spec
-----------------------------------------------------------------------------
(* EventCompressor *)

\* A call that waits has something to compress up to; the worker never gets as far as
\* to remember what it compressed.
CallsType ==
  /\ strategy_ \in Strategies
  /\ current_sequence \in 0 .. MaxSequence
  /\ last_compressed = 0
  /\ running_ \in BOOLEAN /\ stopping \in BOOLEAN
  /\ \A c \in Callers : compressing[c].at = "called" => compressing[c].upTo >= 1

CompressionInv == CompressionTypeOK /\ CountHasFile /\ CallsType

LEMMA CompressionInitial == CompressionInit => CompressionInv
<1> SUFFICES ASSUME CompressionInit PROVE CompressionInv
  OBVIOUS
<1>1. /\ running_ \in BOOLEAN /\ stopping \in BOOLEAN /\ (stopping => ~running_)
  BY Zenon DEF CompressionInit
<1>2. CompressionTypeOK
  BY <1>1, CompressionAssumption DEF CompressionInit, CompressionTypeOK
<1>3. CallsType
  BY <1>1, CompressionAssumption DEF CompressionInit, CallsType
<1>4. CountHasFile
  BY DEF CompressionInit, CountHasFile
<1> QED BY <1>2, <1>3, <1>4 DEF CompressionInv

\* compress_events returns a count that names a file, or none, or was told to save
\* snapshots only; the files there are stay.
LEMMA CompressStep ==
  ASSUME CompressionInv, NEW c \in Callers, Compress(c)
  PROVE  CompressionInv'
<1> DEFINE upTo == compressing[c].upTo
<1>1. CompressionTypeOK /\ CountHasFile /\ CallsType
  BY DEF CompressionInv
<1>2. upTo \in 1 .. MaxSequence
  BY <1>1, CompressionAssumption DEF Compress, CompressionTypeOK, CallsType
<1> DEFINE Returns(count) ==
        /\ compressed_count' = [compressed_count EXCEPT ![c] = count]
        /\ snapshots' \in {snapshots, snapshots \cup {upTo}}
        /\ strategy_ # "SNAPSHOT_ONLY" /\ count > 0 => count \in snapshots'
<1>3. \E count \in 0 .. MaxSequence : Returns(count)
  <2>0. 0 \in 0 .. MaxSequence /\ upTo \in 0 .. MaxSequence
    BY <1>2, CompressionAssumption
  <2>1. CASE /\ FileFails
             /\ compressed_count' = [compressed_count EXCEPT ![c] = 0]
    <3>1. Returns(0)
      BY <2>1 DEF FileFails
    <3> QED BY <2>0, <3>1
  <2>2. CASE /\ FileOpens(upTo)
             /\ compressed_count' = [compressed_count EXCEPT ![c] = CountReturned(upTo, TRUE)]
    <3>1. CountReturned(upTo, TRUE) = upTo
      BY DEF CountReturned
    <3>2. Returns(upTo)
      BY <2>2, <3>1 DEF FileOpens
    <3> QED BY <2>0, <3>2
  <2>3. CASE /\ FileFails
             /\ compressed_count' = [compressed_count EXCEPT ![c] = CountReturned(upTo, FALSE)]
    <3>1. CASE strategy_ = "SNAPSHOT_ONLY"
      <4>1. CountReturned(upTo, FALSE) = upTo
        BY <3>1 DEF CountReturned
      <4>2. Returns(upTo)
        BY <2>3, <3>1, <4>1 DEF FileFails
      <4> QED BY <2>0, <4>2
    <3>2. CASE strategy_ # "SNAPSHOT_ONLY"
      <4>1. CountReturned(upTo, FALSE) = 0
        BY <3>2 DEF CountReturned
      <4>2. ~(0 > 0)
        OBVIOUS
      <4>3. Returns(0)
        BY <2>3, <4>1, <4>2, Zenon DEF FileFails
      <4> QED BY <2>0, <4>3
    <3> QED BY <3>1, <3>2
  <2> QED BY <2>1, <2>2, <2>3 DEF Compress
<1>4. PICK count \in 0 .. MaxSequence : Returns(count)
  BY <1>3
<1>5. /\ compressing' = [compressing EXCEPT ![c].at = "idle"]
      /\ compression_mutex_' = "nobody"
      /\ UNCHANGED <<strategy_, current_sequence, running_, compressor, stopping, last_compressed, calls>>
  BY DEF Compress, HolderAfter, workerVars
<1>6. CompressionTypeOK'
  BY <1>1, <1>2, <1>4, <1>5 DEF CompressionTypeOK
<1>7. CountHasFile'
  BY <1>1, <1>4, <1>5 DEF CompressionTypeOK, CountHasFile
<1>8. CallsType'
  BY <1>1, <1>5 DEF CompressionTypeOK, CallsType
<1> QED BY <1>6, <1>7, <1>8 DEF CompressionInv

LEMMA CallStep ==
  ASSUME CompressionInv, NEW c \in Callers, NEW upTo \in 1 .. MaxSequence, CallCompress(c, upTo)
  PROVE  CompressionInv'
<1>1. /\ compressing' = [compressing EXCEPT ![c] = [at |-> "called", upTo |-> upTo]]
      /\ UNCHANGED <<strategy_, current_sequence, compression_mutex_, running_, compressor, stopping,
                     last_compressed, compressed_count, snapshots>>
  BY DEF CallCompress, workerVars
<1>2. upTo \in 0 .. MaxSequence /\ upTo >= 1
  BY CompressionAssumption
<1>3. CompressionTypeOK'
  BY <1>1, <1>2 DEF CompressionInv, CompressionTypeOK
<1>4. CountHasFile' /\ CallsType'
  BY <1>1, <1>2 DEF CompressionInv, CompressionTypeOK, CountHasFile, CallsType
<1> QED BY <1>3, <1>4 DEF CompressionInv

\* The worker and its owner change neither calls nor files.
LEMMA WorkerStep ==
  ASSUME CompressionInv,
         StoreGrows \/ StartBackground \/ StopBackground \/ JoinCompressor \/ CompressionWorker
  PROVE  CompressionInv'
<1>1. CompressionTypeOK /\ CountHasFile /\ CallsType
  BY DEF CompressionInv
<1>2. UNCHANGED <<strategy_, compressing, compressed_count, snapshots>>
  BY DEF StoreGrows, StartBackground, StopBackground, JoinCompressor, CompressionWorker,
     BeginWait, WakeCompressor, CompressOld
<1>3. current_sequence' \in 0 .. MaxSequence
  BY <1>1, CompressionAssumption
     DEF CallsType, StoreGrows, StartBackground, StopBackground, JoinCompressor, CompressionWorker,
         BeginWait, WakeCompressor, CompressOld
<1>4. last_compressed' = 0
  BY <1>1
     DEF CallsType, StoreGrows, StartBackground, StopBackground, JoinCompressor, CompressionWorker,
         BeginWait, WakeCompressor, CompressOld, workerVars
<1>5. running_' \in BOOLEAN /\ stopping' \in BOOLEAN /\ (stopping' => ~running_')
  <2>1. CASE StoreGrows \/ CompressionWorker
    BY <1>1, <2>1
       DEF CallsType, CompressionTypeOK, StoreGrows, CompressionWorker, BeginWait, WakeCompressor,
           CompressOld, workerVars
  <2>2. CASE StartBackground
    BY <1>1, <2>2, Zenon DEF CallsType, StartBackground
  <2>3. CASE StopBackground
    BY <1>1, <2>3, Zenon DEF CallsType, StopBackground
  <2>4. CASE JoinCompressor
    BY <1>1, <2>4, Zenon DEF CallsType, JoinCompressor
  <2> QED BY <2>1, <2>2, <2>3, <2>4
<1>6. /\ compression_mutex_' \in {"nobody", "worker"}
      /\ compressor' \in {"none", "loop", "waits", "woken", "self", "returned"}
  BY <1>1
     DEF CompressionTypeOK, StoreGrows, StartBackground, StopBackground, JoinCompressor,
         CompressionWorker, BeginWait, WakeCompressor, CompressOld, workerVars
<1>7. CompressionTypeOK' /\ CallsType'
  BY <1>1, <1>2, <1>3, <1>4, <1>5, <1>6 DEF CompressionTypeOK, CallsType
<1>8. CountHasFile'
  BY <1>1, <1>2 DEF CountHasFile
<1> QED BY <1>7, <1>8 DEF CompressionInv

LEMMA CompressionStep == CompressionInv /\ [CompressionNext]_compressionVars => CompressionInv'
<1> SUFFICES ASSUME CompressionInv, [CompressionNext]_compressionVars PROVE CompressionInv'
  OBVIOUS
<1>1. CASE UNCHANGED compressionVars
  BY <1>1 DEF compressionVars, workerVars, CompressionInv, CompressionTypeOK, CountHasFile, CallsType
<1>2. ASSUME NEW c \in Callers, Compress(c) PROVE CompressionInv'
  BY <1>2, CompressStep
<1>3. ASSUME NEW c \in Callers, NEW upTo \in 1 .. MaxSequence, CallCompress(c, upTo)
      PROVE  CompressionInv'
  BY <1>3, CallStep
<1>4. CASE StoreGrows \/ StartBackground \/ StopBackground \/ JoinCompressor \/ CompressionWorker
  BY <1>4, WorkerStep
<1> QED BY <1>1, <1>2, <1>3, <1>4 DEF CompressionNext

\* A difference below zero comes out as nearly the largest sequence.
LEMMA WrappedDifference ==
  ASSUME NEW n \in Int, NEW m \in Nat, -m <= n, n < m, m > 0
  PROVE  n % m = IF n >= 0 THEN n ELSE n + m
  OBVIOUS

\* Every count names a file that was written, but for the strategy that counts failed
\* snapshots; and a worker that wakes goes on only when the log is one interval
\* long, or longer by no more than the retention.
THEOREM CompressionCounts == CompressionSpec => CompressionSound
<1> DEFINE Stops == compressor = "woken" /\ compressor' = "loop" =>
              current_sequence = compression_interval_
              \/ (compression_interval_ < current_sequence
                    /\ current_sequence <= compression_interval_ + retention_sequence_)
<1>1. ASSUME CompressionInv, CompressionNext PROVE Stops
  <2> SUFFICES ASSUME compressor = "woken", compressor' = "loop" PROVE Stops
    OBVIOUS
  <2>1. CompressOld
    BY <1>1 DEF CompressionNext, CompressionWorker, StoreGrows, Compress, CallCompress, StartBackground,
       StopBackground, JoinCompressor, BeginWait, WakeCompressor, workerVars
  <2>2. ~(CompressTo > last_compressed /\ CompressTo > retention_sequence_)
    BY <2>1 DEF CompressOld
  <2>3. last_compressed = 0 /\ current_sequence \in 0 .. MaxSequence
    BY <1>1 DEF CompressionInv, CallsType
  <2> DEFINE n == current_sequence - compression_interval_
             m == 2^SequenceWidth
  <2>4. /\ n \in Int /\ m \in Nat /\ -m <= n /\ n < m /\ m > 0
    BY <2>3, CompressionAssumption, RangeAssumption
  <2>5. CompressTo = IF n >= 0 THEN n ELSE n + m
    BY <2>4, WrappedDifference DEF CompressTo
  <2>6. m \in Nat /\ compression_interval_ + retention_sequence_ < m
    BY RangeAssumption
  <2> HIDE DEF m
  <2> QED BY <2>2, <2>3, <2>4, <2>5, <2>6, CompressionAssumption
<1>2. CompressionInv /\ [CompressionNext]_compressionVars => [Stops]_compressionVars
  BY <1>1
<1>3. CompressionInv => CompressionTypeOK /\ CountHasFile
  BY DEF CompressionInv
<1> QED BY <1>2, <1>3, CompressionInitial, CompressionStep, PTL DEF CompressionSpec, CompressionSound, WokenStops
-----------------------------------------------------------------------------
(* The event stream and its read sides. *)

\* The numbers of the log and the stream, and where its threads are.
StreamsType ==
  /\ latest_sequence_ \in Nat /\ written \in Nat /\ to_publish \in Nat
  /\ last_processed_ \in Nat /\ events_processed_ = 0
  /\ thread \in [StreamThreads -> [at : {"none", "look", "read", "thrown"}, current : Nat]]
  /\ reader_state \in {"new", "failed", "up", "serving", "stopping", "stopped",
                      "closing", "closed"}
  /\ program \in {"up", "terminated"}

\* An event is counted before it is written, and counts as still to publish until then;
\* no look of the stream is ahead of the count.
StreamCounts ==
  /\ written <= latest_sequence_ /\ latest_sequence_ <= written + 1
  /\ latest_sequence_ > written => to_publish > 0
  /\ written + to_publish <= MaxLog
  /\ \A t \in StreamThreads : thread[t].current <= latest_sequence_
  /\ last_processed_ <= latest_sequence_ /\ last_processed_ <= 1

\* Whoever stops a service that serves has cleared the flag first.
StopOrder ==
  /\ reader_state \in {"stopping", "stopped"} => ~processing_
  /\ StoreOutlivesWorker

StreamsInv == StreamsType /\ StreamCounts /\ views = {} /\ StopOrder

LEMMA StreamsInitial == StreamsInit => StreamsInv
BY StreamsAssumption DEF StreamsInit, StreamsInv, StreamsType, StreamCounts, StopOrder,
   StoreOutlivesWorker, NoThread, StreamThreads

\* Appending, in its steps: the command is taken, the event counted, then written.
LEMMA AppendSteps ==
  ASSUME StreamsInv,
         (\E c \in Commands : ExecuteCommand(c)) \/ PublishElsewhere \/ CountEvent \/ WriteEvent
  PROVE  StreamsInv'
<1>1. StreamsType /\ StreamCounts /\ views = {} /\ StopOrder
  BY DEF StreamsInv
<1>2. UNCHANGED <<readerVars, program, streamVars>>
  BY DEF ExecuteCommand, PublishElsewhere, CountEvent, WriteEvent
<1>3. /\ StreamCounts'
      /\ latest_sequence_' \in Nat /\ written' \in Nat /\ to_publish' \in Nat
  <2>0. /\ thread' = thread /\ last_processed_' = last_processed_
        /\ \A t \in StreamThreads : thread[t].current \in Nat
    BY <1>1, <1>2 DEF streamVars, StreamsType
  <2>1. CASE \E c \in Commands : ExecuteCommand(c)
    <3>1. PICK n \in Nat : latest_sequence_ + n <= MaxLog /\ to_publish' = n
      BY <2>1 DEF ExecuteCommand, Published
    <3>2. UNCHANGED <<latest_sequence_, written>> /\ to_publish = 0
      BY <2>1 DEF ExecuteCommand
    <3> QED BY <1>1, <2>0, <3>1, <3>2, StreamsAssumption DEF StreamsType, StreamCounts
  <2>2. CASE PublishElsewhere
    BY <1>1, <2>0, <2>2, StreamsAssumption DEF PublishElsewhere, StreamsType, StreamCounts
  <2>3. CASE CountEvent
    BY <1>1, <2>0, <2>3, StreamsAssumption DEF CountEvent, StreamsType, StreamCounts
  <2>4. CASE WriteEvent
    BY <1>1, <2>0, <2>4, StreamsAssumption DEF WriteEvent, StreamsType, StreamCounts
  <2> QED BY <2>1, <2>2, <2>3, <2>4
<1>4. StreamsType'
  BY <1>1, <1>2, <1>3 DEF StreamsType, readerVars, streamVars
<1>5. StopOrder' /\ views' = {}
  BY <1>1, <1>2 DEF StopOrder, StoreOutlivesWorker, readerVars, streamVars
<1> QED BY <1>3, <1>4, <1>5 DEF StreamsInv

\* A thread of the stream reads: it can get past an event only before that is written.
LEMMA ReadStep ==
  ASSUME StreamsInv, NEW t \in StreamThreads, Look(t) \/ ReadEvents(t)
  PROVE  StreamsInv'
<1>1. StreamsType /\ StreamCounts /\ views = {} /\ StopOrder
  BY DEF StreamsInv
<1>2. UNCHANGED <<readerVars, storeStreamVars, processing_>> /\ program = "up"
      /\ thread[t].at \in {"look", "read"}
  BY DEF Look, ReadEvents
<1>3. PICK x : thread' = [thread EXCEPT ![t] = x]
  BY DEF Look, ReadEvents
<1>4. /\ x.at \in {"none", "look", "read", "thrown"} /\ x.current \in Nat
      /\ x.current <= latest_sequence_ /\ x = [at |-> x.at, current |-> x.current]
  <2>1. NoThread = [at |-> "none", current |-> 0]
        /\ [NoThread EXCEPT !.at = "look"] = [at |-> "look", current |-> 0]
        /\ 0 <= latest_sequence_
    BY <1>1 DEF NoThread, StreamsType
  <2>2. x = thread'[t] /\ thread[t] = [at |-> thread[t].at, current |-> thread[t].current]
    BY <1>1, <1>3 DEF StreamsType
  <2>3. CASE Look(t)
    <3>1. x \in {NoThread, [NoThread EXCEPT !.at = "look"],
                 [at |-> "read", current |-> latest_sequence_]}
      BY <1>1, <2>2, <2>3 DEF Look, Left, Returned, StreamsType
    <3> QED BY <1>1, <2>1, <3>1 DEF StreamsType
  <2>4. CASE ReadEvents(t)
    <3>1. \/ x = [thread[t] EXCEPT !.at = "thrown"]
          \/ x \in {NoThread, [NoThread EXCEPT !.at = "look"]}
      BY <1>1, <2>2, <2>4 DEF ReadEvents, Returned, StreamsType
    <3>2. /\ thread[t].current \in Nat /\ thread[t].current <= latest_sequence_
          /\ [thread[t] EXCEPT !.at = "thrown"] = [at |-> "thrown", current |-> thread[t].current]
      BY <1>1, <2>2 DEF StreamsType, StreamCounts
    <3> QED BY <2>1, <3>1, <3>2
  <2> QED BY <2>3, <2>4
<1>5. /\ last_processed_' \in Nat /\ last_processed_' <= latest_sequence_ /\ last_processed_' <= 1
      /\ views' = {} /\ events_processed_' = 0
  <2>1. CASE UNCHANGED <<last_processed_, events_processed_, views>>
    BY <1>1, <2>1 DEF StreamsType, StreamCounts
  <2>2. CASE /\ ReadEvents(t) /\ ~Throws
    <3>1. written = 0 /\ latest_sequence_ <= 1
      BY <1>1, <2>2 DEF Throws, Readable, StreamsType, StreamCounts
    <3>2. {n \in 1 .. written : last_processed_ < n /\ n <= thread[t].current} = {}
      BY <3>1
    <3>3. PICK read : /\ read = {n \in 1 .. written : last_processed_ < n /\ n <= thread[t].current}
                      /\ views' = views \cup read
                      /\ events_processed_' = events_processed_ + Cardinality(read)
                      /\ last_processed_' = thread[t].current
      BY <2>2 DEF ReadEvents
    <3>4. read = {} /\ Cardinality(read) = 0
      BY <3>2, <3>3, FS_EmptySet
    <3>5. views' = {} /\ events_processed_' = 0
      BY <1>1, <3>3, <3>4 DEF StreamsType
    <3> QED BY <1>1, <3>1, <3>3, <3>5 DEF StreamsType, StreamCounts
  <2> QED BY <2>1, <2>2 DEF Look, ReadEvents
<1>6. /\ program' \in {"up", "terminated"}
      /\ program' = "terminated" => t = "worker"
  BY <1>2 DEF Look, ReadEvents
<1>7. StreamsType'
  BY <1>1, <1>2, <1>3, <1>4, <1>5, <1>6 DEF StreamsType, readerVars, storeStreamVars
<1>8. StreamCounts'
  BY <1>1, <1>2, <1>3, <1>4, <1>5 DEF StreamCounts, StreamsType, storeStreamVars
<1>9. StopOrder'
  <2>1. reader_state = "stopped" => t # "worker"
    BY <1>1, <1>2 DEF StopOrder, StoreOutlivesWorker
  <2>2. t # "worker" => thread'["worker"] = thread["worker"]
    BY <1>1, <1>3 DEF StreamsType, StreamThreads
  <2> QED BY <1>1, <1>2, <1>6, <2>1, <2>2 DEF StopOrder, StoreOutlivesWorker, readerVars
<1> QED BY <1>5, <1>7, <1>8, <1>9 DEF StreamsInv

\* Whatever starts, serves or stops the stream leaves the log and the views alone.
LEMMA StreamControlStep ==
  ASSUME StreamsInv,
         \/ StartCacheUpdate \/ InitializeService \/ StartServing
         \/ CallProcess \/ StopProcessing
         \/ Destroy \/ DeleteStore \/ DestroyMembers \/ UseDeletedStore
  PROVE  StreamsInv'
<1>1. StreamsType /\ StreamCounts /\ views = {} /\ StopOrder
  BY DEF StreamsInv
<1>2. /\ UNCHANGED <<storeStreamVars, events_processed_, views>>
      /\ last_processed_' \in {0, last_processed_}
  BY DEF StartCacheUpdate, InitializeService, StartServing, CallProcess, StopProcessing, Destroy,
     DeleteStore, DestroyMembers, UseDeletedStore, Started, streamVars
<1>3. \/ thread' = thread
      \/ \E t \in StreamThreads : thread' = [thread EXCEPT ![t].at = "look"]
  BY DEF StartCacheUpdate, InitializeService, StartServing, CallProcess, StopProcessing, Destroy,
     DeleteStore, DestroyMembers, UseDeletedStore, Started, streamVars, StreamThreads
<1>4. /\ thread' \in [StreamThreads -> [at : {"none", "look", "read", "thrown"}, current : Nat]]
      /\ \A t \in StreamThreads : thread'[t].current = thread[t].current
  <2>1. CASE thread' = thread
    BY <1>1, <2>1 DEF StreamsType
  <2>2. ASSUME NEW t \in StreamThreads, thread' = [thread EXCEPT ![t].at = "look"]
        PROVE  /\ thread' \in [StreamThreads -> [at : {"none", "look", "read", "thrown"}, current : Nat]]
               /\ \A u \in StreamThreads : thread'[u].current = thread[u].current
    <3>1. [thread[t] EXCEPT !.at = "look"] = [at |-> "look", current |-> thread[t].current]
      BY <1>1 DEF StreamsType
    <3> QED BY <1>1, <2>2, <3>1 DEF StreamsType
  <2> QED BY <1>3, <2>1, <2>2
<1>5. /\ program' \in {"up", "terminated"}
      /\ reader_state' \in {"new", "failed", "up", "serving", "stopping", "stopped",
                            "closing", "closed"}
  BY <1>1 DEF StartCacheUpdate, InitializeService, StartServing, CallProcess, StopProcessing, Destroy,
     DeleteStore, DestroyMembers, UseDeletedStore, readerVars, StreamsType
<1>6. StreamsType' /\ StreamCounts' /\ views' = {}
  BY <1>1, <1>2, <1>4, <1>5 DEF StreamsType, StreamCounts, storeStreamVars
<1>7. StopOrder'
  <2>1. CASE StartCacheUpdate \/ InitializeService \/ StartServing
    BY <1>1, <2>1 DEF StartCacheUpdate, InitializeService, StartServing, StopOrder,
       StoreOutlivesWorker, readerVars
  <2>2. CASE CallProcess
    <3>1. thread'["worker"] = thread["worker"]
      BY <1>1, <2>2 DEF CallProcess, StreamsType, StreamThreads
    <3> QED BY <1>1, <2>2, <3>1 DEF CallProcess, StopOrder, StoreOutlivesWorker, readerVars
  <2>3. CASE StopProcessing \/ DestroyMembers
    BY <1>1, <2>3 DEF StopProcessing, DestroyMembers, StopOrder, StoreOutlivesWorker, readerVars
  <2>4. CASE Destroy
    BY <1>1, <2>4 DEF Destroy, FlagAfterStop, StopOrder, StoreOutlivesWorker
  <2>5. CASE DeleteStore
    BY <1>1, <2>5 DEF DeleteStore, StopOrder, StoreOutlivesWorker, streamVars
  <2>6. CASE UseDeletedStore
    BY <1>1, <2>6 DEF UseDeletedStore, StopOrder, StoreOutlivesWorker, readerVars, streamVars
  <2> QED BY <2>1, <2>2, <2>3, <2>4, <2>5, <2>6
<1> QED BY <1>6, <1>7 DEF StreamsInv

LEMMA StreamsStepKeeps == StreamsInv /\ [StreamsNext]_streamsVars => StreamsInv'
<1> SUFFICES ASSUME StreamsInv, [StreamsNext]_streamsVars PROVE StreamsInv'
  OBVIOUS
<1>1. CASE UNCHANGED streamsVars
  BY <1>1 DEF streamsVars, readerVars, storeStreamVars, streamVars, StreamsInv, StreamsType,
     StreamCounts, StopOrder, StoreOutlivesWorker
<1>2. CASE StreamsStep
  BY <1>2, AppendSteps, StreamControlStep DEF StreamsStep
<1>3. ASSUME NEW t \in StreamThreads, Look(t) \/ ReadEvents(t) PROVE StreamsInv'
  BY <1>3, ReadStep
<1> QED BY <1>1, <1>2, <1>3 DEF StreamsNext

LEMMA StreamsInvTells == StreamsInv => StreamsSound
<1> SUFFICES ASSUME StreamsInv PROVE StreamsSound
  OBVIOUS
<1>1. StreamsTypeOK
  <2>1. \A t \in StreamThreads : thread[t].at \in {"none", "look", "read", "thrown"}
    BY DEF StreamsInv, StreamsType
  <2> QED BY <2>1, StreamsAssumption DEF StreamsInv, StreamsType, StreamCounts, StreamsTypeOK
<1>2. StreamStopsAtFirst /\ StoreOutlivesWorker
  BY DEF StreamsInv, StreamsType, StreamCounts, StopOrder, StreamStopsAtFirst
<1> QED BY <1>1, <1>2 DEF StreamsSound

\* No event ever reaches the cache or the views: the stream gets past the first event
\* at most, between its count and its write; and a service that served has ended its
\* worker before the store it owns goes.
THEOREM StreamsTellNothing == StreamsSpec => []StreamsSound
BY StreamsInitial, StreamsStepKeeps, StreamsInvTells, PTL DEF StreamsSpec
-----------------------------------------------------------------------------
(* The versions of an event. *)

LEMMA VersionsInitial == VersionsInit => VersionsSound
<1> SUFFICES ASSUME VersionsInit PROVE VersionsSound
  OBVIOUS
<1>1. schemas_ = {1} /\ current_versions_ = 1 /\ migrated = <<>>
  BY DEF VersionsInit
<1>2. VersionsTypeOK
  BY <1>1, VersionAssumption DEF VersionsTypeOK, Versions
<1>3. MigrationWithinSupport
  BY <1>1 DEF MigrationWithinSupport
<1> QED BY <1>2, <1>3 DEF VersionsSound

\* Where a migration can leave an event.
LEMMA MigrationResult ==
  ASSUME NEW e \in VersionedEvents, NEW target \in Versions,
         NEW r, r = MigrateToVersion(e, target)
  PROVE  /\ r \in {e.version, target, -1}
         /\ r # e.version => e.min <= target /\ target <= e.max
         /\ r = -1 => target \in {0, 2^VersionWidth - 1}
<1>1. e.version \in Nat
  BY VersionAssumption DEF Versions
<1>2. CASE e.version = target \/ ~Supports(e, target)
  <2>1. r = e.version
    BY <1>2 DEF MigrateToVersion
  <2> QED BY <1>1, <2>1
<1>3. CASE e.version # target /\ Supports(e, target)
  <2>1. r = IF GetMigrationPath(e.version, target).endless THEN -1 ELSE target
    BY <1>3 DEF MigrateToVersion
  <2>2. GetMigrationPath(e.version, target).endless => target \in {0, 2^VersionWidth - 1}
    BY DEF GetMigrationPath
  <2>3. target # -1
    BY DEF Versions
  <2> QED BY <1>3, <2>1, <2>2, <2>3 DEF Supports
<1> QED BY <1>2, <1>3

LEMMA VersionsStep == VersionsSound /\ [VersionsNext]_versionVars => VersionsSound'
<1> SUFFICES ASSUME VersionsSound, [VersionsNext]_versionVars PROVE VersionsSound'
  OBVIOUS
<1>1. VersionsTypeOK /\ MigrationWithinSupport
  BY DEF VersionsSound
<1>2. current_versions_ \in Versions
  BY <1>1 DEF VersionsTypeOK
<1>3. CASE UNCHANGED versionVars
  BY <1>1, <1>3 DEF versionVars, VersionsSound, VersionsTypeOK, MigrationWithinSupport
<1>4. ASSUME NEW v \in Versions, RegisterSchema(v) PROVE VersionsSound'
  <2>1. VersionsTypeOK'
    <3>1. /\ schemas_' = schemas_ \cup {v}
          /\ current_versions_' = IF v > current_versions_ THEN v ELSE current_versions_
      BY <1>4 DEF RegisterSchema, CurrentAfter
    <3>2. \A u \in schemas_ : u \in Int /\ u <= current_versions_
      BY <1>1 DEF VersionsTypeOK, Versions
    <3> QED BY <1>1, <1>2, <3>1, <3>2 DEF VersionsTypeOK, Versions
  <2>2. MigrationWithinSupport'
    BY <1>1, <1>4 DEF RegisterSchema, MigrationWithinSupport
  <2> QED BY <2>1, <2>2 DEF VersionsSound
<1>5. ASSUME NEW e \in VersionedEvents, NEW target \in Versions, Migrate(e, target)
      PROVE  VersionsSound'
  <2>1. VersionsTypeOK'
    BY <1>1, <1>5 DEF Migrate, VersionsTypeOK
  <2>2. PICK r : r = MigrateToVersion(e, target)
    OBVIOUS
  <2>3. migrated' = <<e, target, r>>
    BY <1>5, <2>2 DEF Migrate
  <2>4. migrated'[1] = e /\ migrated'[2] = target /\ migrated'[3] = r
    BY <2>3
  <2>5. MigrationWithinSupport'
    BY <2>2, <2>4, MigrationResult DEF MigrationWithinSupport
  <2> QED BY <2>1, <2>5 DEF VersionsSound
<1> QED BY <1>2, <1>3, <1>4, <1>5 DEF VersionsNext, MigrateToLatest

\* The current version is the highest registered, and a migration changes a version
\* only to a target the event supports; only the way to the first or the last number
\* has no end.
THEOREM VersionsRise == VersionsSpec => []VersionsSound
BY VersionsInitial, VersionsStep, PTL DEF VersionsSpec
-----------------------------------------------------------------------------
(* DistributedEventStore *)

\* seq holds, of each appender a, its first top[a] events: each once, and in order.
Numbered(seq, top) ==
    /\ seq \in Seq(Events)
    /\ IsInjective(seq)
    /\ \A e \in Events : e \in ToSet(seq) <=> e[2] <= top[e[1]]
    /\ \A i \in DOMAIN seq : \A n \in 1 .. seq[i][2] - 1 :
          \E j \in 1 .. i - 1 : seq[j] = <<seq[i][1], n>>

\* The events of an appender that have been queued, whether or not they still are.
Queued == [a \in Appenders |-> IF unqueued[a] = <<>> THEN appended[a] ELSE appended[a] - 1]

\* An appender has at most its last event on the way to the queue.
LastOnItsWay ==
    \A a \in Appenders :
        unqueued[a] = <<>> \/ (appended[a] > 0 /\ unqueued[a] = << <<a, appended[a]>> >>)

\* No worker before the store is initialized.
NoWorkerYet == store_state = "new" => replication_worker = "none"

ReplicationInv ==
    /\ ReplicationTypeOK
    /\ NoWorkerYet
    /\ LastOnItsWay
    /\ Numbered(log, appended)
    /\ Numbered(QueuedOn, Queued)

LEMMA EventParts ==
    /\ \A e \in Events : e[1] \in Appenders /\ e[2] \in 1 .. MaxAppends /\ e = <<e[1], e[2]>>
    /\ \A a \in Appenders, n \in 1 .. MaxAppends : <<a, n>> \in Events
BY DEF Events

\* The next event of an appender at the end of the sequence keeps all of it.
LEMMA NumberedGrows ==
    ASSUME NEW seq, NEW top \in [Appenders -> 0 .. MaxAppends], NEW a \in Appenders,
           Numbered(seq, top), top[a] < MaxAppends
    PROVE  Numbered(Append(seq, <<a, top[a] + 1>>), [top EXCEPT ![a] = top[a] + 1])
<1> DEFINE new == <<a, top[a] + 1>>
           after == Append(seq, new)
           above == [top EXCEPT ![a] = top[a] + 1]
<1>0. /\ MaxAppends \in Nat /\ top[a] \in Nat /\ top[a] + 1 \in 1 .. MaxAppends
      /\ seq \in Seq(Events) /\ IsInjective(seq)
  BY ReplicationAssumption DEF Numbered
<1>1. new \in Events /\ new[1] = a /\ new[2] = top[a] + 1
  BY <1>0, EventParts
<1>2. /\ after \in Seq(Events) /\ Len(after) = Len(seq) + 1 /\ Len(seq) \in Nat
      /\ \A i \in 1 .. Len(seq) : after[i] = seq[i] /\ seq[i] \in Events
      /\ after[Len(seq) + 1] = new
      /\ DOMAIN seq = 1 .. Len(seq) /\ DOMAIN after = 1 .. Len(seq) + 1
  <2> HIDE DEF new
  <2> QED BY <1>0, <1>1
<1>3. \A e \in Events : e \in ToSet(seq) <=> \E i \in 1 .. Len(seq) : seq[i] = e
  BY <1>2 DEF ToSet
<1>4. \A e \in Events : e \in ToSet(after) <=> e = new \/ e \in ToSet(seq)
  <2>1. \A e \in Events : e \in ToSet(after) <=> \E i \in 1 .. Len(seq) + 1 : after[i] = e
    BY <1>2 DEF ToSet
  <2>2. \A i \in 1 .. Len(seq) + 1 : i \in 1 .. Len(seq) \/ i = Len(seq) + 1
    BY <1>2
  <2>3. \A i \in 1 .. Len(seq) : i \in 1 .. Len(seq) + 1
    BY <1>2
  <2>4. Len(seq) + 1 \in 1 .. Len(seq) + 1
    BY <1>2
  <2> HIDE DEF after, new
  <2> QED BY <1>2, <1>3, <2>1, <2>2, <2>3, <2>4, Zenon
<1>5. \A e \in Events : e \in ToSet(seq) <=> e[2] <= top[e[1]]
  BY DEF Numbered
<1>6. \A i \in 1 .. Len(seq) : seq[i] # new
  <2> SUFFICES ASSUME NEW i \in 1 .. Len(seq), seq[i] = new PROVE FALSE
    OBVIOUS
  <2>1. new \in ToSet(seq)
    BY <1>1, <1>3
  <2>2. new[2] <= top[new[1]]
    BY <1>1, <1>5, <2>1
  <2> QED BY <1>0, <1>1, <2>2
<1> HIDE DEF after, new
<1>7. IsInjective(after)
  <2>1. \A i, j \in 1 .. Len(seq) : seq[i] = seq[j] => i = j
    BY <1>0, <1>2 DEF IsInjective
  <2>2. SUFFICES ASSUME NEW i \in 1 .. Len(seq) + 1, NEW j \in 1 .. Len(seq) + 1,
                        after[i] = after[j]
                 PROVE  i = j
    BY <1>2 DEF IsInjective
  <2> QED BY <1>2, <1>6, <2>1, <2>2
<1>8. \A e \in Events : e \in ToSet(after) <=> e[2] <= above[e[1]]
  <2> SUFFICES ASSUME NEW e \in Events PROVE e \in ToSet(after) <=> e[2] <= above[e[1]]
    OBVIOUS
  <2>1. e[1] \in Appenders /\ e[2] \in Nat /\ top[e[1]] \in Nat /\ e = <<e[1], e[2]>>
    BY EventParts
  <2>2. e \in ToSet(after) <=> e = new \/ e[2] <= top[e[1]]
    BY <1>4, <1>5
  <2>3. CASE e[1] = a
    <3>1. e = new <=> e[2] = top[a] + 1
      BY <2>1, <2>3 DEF new
    <3>2. above[e[1]] = top[a] + 1
      BY <2>3
    <3> QED BY <1>0, <2>1, <2>2, <2>3, <3>1, <3>2
  <2>4. CASE e[1] # a
    <3>1. e # new /\ above[e[1]] = top[e[1]]
      BY <1>1, <2>1, <2>4
    <3> QED BY <2>2, <3>1
  <2> QED BY <2>3, <2>4
<1>9. \A i \in DOMAIN after : \A n \in 1 .. after[i][2] - 1 :
         \E j \in 1 .. i - 1 : after[j] = <<after[i][1], n>>
  <2> SUFFICES ASSUME NEW i \in 1 .. Len(seq) + 1, NEW n \in 1 .. after[i][2] - 1
               PROVE  \E j \in 1 .. i - 1 : after[j] = <<after[i][1], n>>
    BY <1>2
  <2>1. CASE i \in 1 .. Len(seq)
    <3>1. n \in 1 .. seq[i][2] - 1
      BY <1>2, <2>1
    <3>2. PICK j \in 1 .. i - 1 : seq[j] = <<seq[i][1], n>>
      BY <1>2, <2>1, <3>1 DEF Numbered
    <3>3. j \in 1 .. Len(seq)
      BY <1>2, <2>1
    <3> QED BY <1>2, <2>1, <3>2, <3>3
  <2>2. CASE i = Len(seq) + 1
    <3>1. n \in 1 .. top[a]
      BY <1>0, <1>1, <1>2, <2>2
    <3>2. n \in 1 .. MaxAppends /\ n <= top[a]
      BY <1>0, <3>1
    <3>3. PICK e : e = <<a, n>>
      OBVIOUS
    <3>4. e \in Events /\ e[1] = a /\ e[2] = n
      BY <3>2, <3>3, EventParts
    <3>5. e \in ToSet(seq)
      BY <1>5, <3>2, <3>4
    <3>6. PICK j \in 1 .. Len(seq) : seq[j] = e
      BY <1>3, <3>4, <3>5
    <3>7. j \in 1 .. i - 1 /\ after[j] = e
      BY <1>2, <2>2, <3>6
    <3>8. after[i][1] = a
      BY <1>1, <1>2, <2>2
    <3> QED BY <3>3, <3>7, <3>8
  <2> QED BY <1>2, <2>1, <2>2
<1> QED BY <1>2, <1>7, <1>8, <1>9 DEF Numbered, after, new

LEMMA ReplicationInitial == ReplicationInit => ReplicationInv
<1> SUFFICES ASSUME ReplicationInit PROVE ReplicationInv
  OBVIOUS
<1> USE DEF ReplicationInit
<1>1. ReplicationTypeOK
  BY ReplicationAssumption DEF ReplicationTypeOK
<1>2. QueuedOn = <<>>
  BY DEF QueuedOn
<1>3. \A a \in Appenders : Queued[a] = 0
  BY DEF Queued
<1>4. \A e \in Events : e[1] \in Appenders /\ ~(e[2] <= 0)
  BY EventParts
<1>5. \A e : e \notin ToSet(<<>>)
  BY DEF ToSet
<1>6. ASSUME NEW top, \A a \in Appenders : top[a] = 0 PROVE Numbered(<<>>, top)
  BY <1>4, <1>5, <1>6 DEF Numbered, IsInjective
<1> QED BY <1>1, <1>2, <1>3, <1>6 DEF ReplicationInv, LastOnItsWay, NoWorkerYet

LEMMA ThreeJoined ==
    \A r, b, q \in Seq(Events) : (r \o b) \o q = r \o (b \o q)
BY ConcatAssociative

LEMMA ReplicationTypes ==
    ReplicationTypeOK =>
        /\ log \in Seq(Events) /\ replication_queue_ \in Seq(Events)
        /\ events_to_replicate \in Seq(Events) /\ replicated \in Seq(Events)
        /\ appended \in [Appenders -> 0 .. MaxAppends]
BY DEF ReplicationTypeOK

\* What the worker does moves events along and leaves QueuedOn as it is.
LEMMA TakeBatchStep == ReplicationInv /\ TakeBatch => ReplicationInv'
<1> SUFFICES ASSUME ReplicationInv, TakeBatch PROVE ReplicationInv'
  OBVIOUS
<1> DEFINE q == replication_queue_
<1>1. /\ ReplicationTypeOK
      /\ q \in Seq(Events) /\ events_to_replicate \in Seq(Events) /\ replicated \in Seq(Events)
      /\ events_to_replicate = <<>>
  BY ReplicationTypes DEF ReplicationInv, ReplicationTypeOK, TakeBatch
<1>2. CASE ~replication_running_
  BY <1>1, <1>2 DEF TakeBatch, ReplicationInv, ReplicationTypeOK, LastOnItsWay, QueuedOn, Queued, NoWorkerYet
<1>3. CASE replication_running_
  <2>1. /\ events_to_replicate' = SubSeq(q, 1, BatchSize)
        /\ replication_queue_' = SubSeq(q, BatchSize + 1, Len(q))
        /\ replication_worker' = "replicate"
        /\ UNCHANGED <<log, appended, unqueued, store_state, replicated>>
    BY <1>3 DEF TakeBatch, LeftInQueue
  <2>2. /\ Len(q) \in Nat /\ BatchSize \in 0 .. Len(q) /\ BatchSize <= MaxBatch
        /\ MaxBatch \in Nat
    BY <1>1, ReplicationAssumption DEF BatchSize
  <2>3. SubSeq(q, 1, BatchSize) \o SubSeq(q, BatchSize + 1, Len(q)) = q
    <3>1. SubSeq(q, 1, Len(q)) = q
      BY <1>1, SubSeqFull
    <3>2. 1 \in 1 .. Len(q) + 1 /\ BatchSize \in 0 .. Len(q) /\ Len(q) \in BatchSize .. Len(q)
      BY <2>2
    <3>3. BatchSize \in 1 - 1 .. Len(q)
      BY <2>2
    <3> QED BY <1>1, <3>1, <3>2, <3>3, ConcatAdjacentSubSeq, Zenon
  <2>4. /\ events_to_replicate' \in Seq(Events) /\ replication_queue_' \in Seq(Events)
        /\ Len(events_to_replicate') <= MaxBatch
    BY <1>1, <2>1, <2>2
  <2>5. QueuedOn' = QueuedOn
    <3>1. (replicated \o events_to_replicate) \o q = replicated \o q
      BY <1>1, ConcatEmptySeq
    <3>2. (replicated' \o events_to_replicate') \o replication_queue_'
          = replicated \o (events_to_replicate' \o replication_queue_')
      <4>1. (replicated \o events_to_replicate') \o replication_queue_'
            = replicated \o (events_to_replicate' \o replication_queue_')
        BY <1>1, <2>4, ThreeJoined, Zenon
      <4> QED BY <2>1, <4>1
    <3>3. events_to_replicate' \o replication_queue_' = q
      BY <2>1, <2>3
    <3> QED BY <3>1, <3>2, <3>3 DEF QueuedOn
  <2>6. ReplicationTypeOK'
    BY <1>1, <2>1, <2>4 DEF ReplicationTypeOK
  <2> QED BY <2>1, <2>5, <2>6 DEF ReplicationInv, LastOnItsWay, Queued, NoWorkerYet, TakeBatch, ReplicateEvent
<1> QED BY <1>2, <1>3

LEMMA ReplicateStep == ReplicationInv /\ ReplicateEvent => ReplicationInv'
<1> SUFFICES ASSUME ReplicationInv, ReplicateEvent PROVE ReplicationInv'
  OBVIOUS
<1> DEFINE b == events_to_replicate
<1>1. /\ ReplicationTypeOK /\ Len(b) <= MaxBatch
      /\ b \in Seq(Events) /\ replication_queue_ \in Seq(Events) /\ replicated \in Seq(Events)
  BY ReplicationTypes DEF ReplicationInv, ReplicationTypeOK
<1>2. CASE b = <<>>
  BY <1>1, <1>2 DEF ReplicateEvent, ReplicationInv, ReplicationTypeOK, LastOnItsWay, QueuedOn, Queued, NoWorkerYet
<1>3. CASE b # <<>>
  <2>1. /\ replicated' = Append(replicated, Head(b)) /\ events_to_replicate' = Tail(b)
        /\ UNCHANGED <<log, appended, unqueued, store_state, replication_queue_,
                       replication_worker>>
    BY <1>3 DEF ReplicateEvent
  <2>2. /\ Head(b) \in Events /\ Tail(b) \in Seq(Events) /\ Len(Tail(b)) = Len(b) - 1
        /\ <<Head(b)>> \in Seq(Events) /\ Len(b) \in Nat /\ MaxBatch \in Nat
    BY <1>1, <1>3, HeadTailProperties, ReplicationAssumption
  <2>3. Append(replicated, Head(b)) = replicated \o <<Head(b)>>
    BY <1>1, <2>2, AppendIsConcat
  <2>4. <<Head(b)>> \o Tail(b) = b
    BY <1>1, <1>3, <2>2
  <2>5. Append(replicated, Head(b)) \o Tail(b) = replicated \o b
    BY <1>1, <2>2, <2>3, <2>4, ConcatAssociative
  <2>6. QueuedOn' = QueuedOn
    BY <2>1, <2>5 DEF QueuedOn
  <2>7. ReplicationTypeOK'
    <3>1. replicated' \in Seq(Events) /\ Len(events_to_replicate') <= MaxBatch
      BY <1>1, <2>1, <2>2
    <3>2. replication_worker' = "replicate"
      BY <2>1 DEF ReplicateEvent
    <3> QED BY <1>1, <2>1, <2>2, <3>1, <3>2 DEF ReplicationTypeOK
  <2> QED BY <2>1, <2>6, <2>7 DEF ReplicationInv, LastOnItsWay, Queued, NoWorkerYet, TakeBatch, ReplicateEvent
<1> QED BY <1>2, <1>3

\* An appender's next event comes to the log's end, and is not among the queued ones.
LEMMA AppendLocalStep ==
    ASSUME ReplicationInv, NEW a \in Appenders, AppendLocal(a)
    PROVE  ReplicationInv'
<1> DEFINE e == <<a, appended[a] + 1>>
<1>1. /\ ReplicationTypeOK /\ log \in Seq(Events)
      /\ appended \in [Appenders -> 0 .. MaxAppends] /\ MaxAppends \in Nat
      /\ appended[a] < MaxAppends /\ unqueued[a] = <<>>
  BY ReplicationTypes, ReplicationAssumption DEF ReplicationInv, AppendLocal
<1>2. /\ log' = Append(log, e)
      /\ appended' = [appended EXCEPT ![a] = appended[a] + 1]
      /\ unqueued' = [unqueued EXCEPT ![a] = <<e>>]
      /\ UNCHANGED <<store_state, replication_queue_, events_to_replicate, replicated,
                     replication_worker>>
  BY DEF AppendLocal
<1>3. Numbered(log', appended')
  BY <1>1, <1>2, NumberedGrows DEF ReplicationInv
<1>4. ReplicationTypeOK'
  <2>1. log' \in Seq(Events)
    BY <1>3 DEF Numbered
  <2>2. appended' \in [Appenders -> 0 .. MaxAppends]
    BY <1>1, <1>2
  <2> QED BY <1>1, <1>2, <2>1, <2>2 DEF ReplicationTypeOK
<1>5. LastOnItsWay'
  BY <1>1, <1>2 DEF ReplicationInv, LastOnItsWay, ReplicationTypeOK
<1>6. Queued' = Queued
  <2>1. ASSUME NEW c \in Appenders PROVE Queued'[c] = Queued[c]
    BY <1>1, <1>2 DEF Queued, ReplicationTypeOK
  <2> QED BY <2>1 DEF Queued
<1>7. QueuedOn' = QueuedOn
  BY <1>2 DEF QueuedOn
<1> QED BY <1>2, <1>3, <1>4, <1>5, <1>6, <1>7 DEF ReplicationInv, NoWorkerYet

LEMMA QueueForReplicationStep ==
    ASSUME ReplicationInv, NEW a \in Appenders, QueueForReplication(a)
    PROVE  ReplicationInv'
<1> DEFINE e == <<a, appended[a]>>
           q == replication_queue_
           before == replicated \o events_to_replicate
<1>1. /\ ReplicationTypeOK /\ q \in Seq(Events) /\ events_to_replicate \in Seq(Events)
      /\ replicated \in Seq(Events)
      /\ appended \in [Appenders -> 0 .. MaxAppends] /\ MaxAppends \in Nat
      /\ appended[a] > 0 /\ unqueued[a] = <<e>> /\ unqueued[a] # <<>>
  BY ReplicationTypes, ReplicationAssumption
  DEF ReplicationInv, QueueForReplication, LastOnItsWay
<1>2. /\ replication_queue_' = q \o <<e>>
      /\ unqueued' = [unqueued EXCEPT ![a] = <<>>]
      /\ UNCHANGED <<store_state, log, appended, events_to_replicate, replicated,
                     replication_worker>>
  BY <1>1 DEF QueueForReplication
<1>3. e \in Events /\ <<e>> \in Seq(Events)
  BY <1>1 DEF Events
<1>4. QueuedOn' = Append(QueuedOn, e)
  <2>1. before \in Seq(Events) /\ QueuedOn = before \o q /\ QueuedOn \in Seq(Events)
    BY <1>1 DEF QueuedOn
  <2>2. before \o (q \o <<e>>) = (before \o q) \o <<e>>
    <3>1. PICK last : last = <<e>>
      OBVIOUS
    <3>2. last \in Seq(Events)
      BY <1>3, <3>1
    <3>3. before \o (q \o last) = (before \o q) \o last
      <4>1. PICK w : w = before
        OBVIOUS
      <4>2. w \in Seq(Events) /\ q \in Seq(Events)
        BY <1>1, <2>1, <4>1
      <4>3. w \o (q \o last) = (w \o q) \o last
        BY <3>2, <4>2, ThreeJoined, Zenon
      <4> QED BY <4>1, <4>3
    <3> QED BY <3>1, <3>3
  <2>3. Append(QueuedOn, e) = QueuedOn \o <<e>>
    BY <1>3, <2>1, AppendIsConcat
  <2> QED BY <1>2, <2>1, <2>2, <2>3 DEF QueuedOn
<1>5. Queued \in [Appenders -> 0 .. MaxAppends] /\ Queued[a] = appended[a] - 1
  <2>1. ASSUME NEW c \in Appenders PROVE Queued[c] \in 0 .. MaxAppends
    BY <1>1 DEF ReplicationInv, LastOnItsWay, Queued, NoWorkerYet, TakeBatch, ReplicateEvent
  <2>2. Queued[a] = appended[a] - 1
    BY <1>1 DEF Queued
  <2> QED BY <2>1, <2>2 DEF Queued
<1>6. Queued[a] + 1 = appended[a] /\ Queued[a] < MaxAppends
  BY <1>1, <1>5
<1>7. Queued' = [Queued EXCEPT ![a] = Queued[a] + 1]
  <2>1. Queued' = [c \in Appenders |-> [Queued EXCEPT ![a] = Queued[a] + 1][c]]
    <3>1. ASSUME NEW c \in Appenders
          PROVE  Queued'[c] = [Queued EXCEPT ![a] = Queued[a] + 1][c]
      <4>1. CASE c = a
        BY <1>1, <1>2, <1>5, <1>6, <4>1 DEF Queued, ReplicationTypeOK
      <4>2. CASE c # a
        BY <1>1, <1>2, <1>5, <4>2 DEF Queued, ReplicationTypeOK
      <4> QED BY <4>1, <4>2
    <3> QED BY <3>1 DEF Queued
  <2> QED BY <1>5, <2>1
<1>8. Numbered(QueuedOn', Queued')
  <2>1. Numbered(QueuedOn, Queued)
    BY DEF ReplicationInv
  <2>2. Numbered(Append(QueuedOn, <<a, Queued[a] + 1>>), [Queued EXCEPT ![a] = Queued[a] + 1])
    BY <1>5, <1>6, <2>1, NumberedGrows
  <2> QED BY <1>4, <1>6, <1>7, <2>2
<1>9. ReplicationTypeOK'
  <2>1. replication_queue_' \in Seq(Events)
    BY <1>1, <1>2, <1>3
  <2>2. unqueued' \in [Appenders -> {<<>>} \cup {<<f>> : f \in Events}]
    BY <1>1, <1>2 DEF ReplicationTypeOK
  <2> QED BY <1>1, <1>2, <2>1, <2>2 DEF ReplicationTypeOK
<1>10. LastOnItsWay'
  BY <1>1, <1>2 DEF ReplicationInv, LastOnItsWay, ReplicationTypeOK
<1> QED BY <1>2, <1>8, <1>9, <1>10 DEF ReplicationInv, NoWorkerYet

LEMMA ReplicationStep == ReplicationInv /\ [ReplicationNext]_replicationVars => ReplicationInv'
<1> SUFFICES ASSUME ReplicationInv, [ReplicationNext]_replicationVars PROVE ReplicationInv'
  OBVIOUS
<1> USE DEF ReplicationInv, ReplicationTypeOK, LastOnItsWay, Queued, QueuedOn, NoWorkerYet
<1>1. CASE UNCHANGED replicationVars
  BY <1>1 DEF replicationVars
<1>2. CASE InitializeStore
  BY <1>2 DEF InitializeStore
<1>3. CASE WakeReplication
  BY <1>3 DEF WakeReplication
<1>4. CASE DestroyStore
  BY <1>4 DEF DestroyStore
<1>5. CASE JoinReplication
  BY <1>5 DEF JoinReplication
<1> HIDE DEF ReplicationInv
<1> QED BY <1>1, <1>2, <1>3, <1>4, <1>5, TakeBatchStep, ReplicateStep, AppendLocalStep,
           QueueForReplicationStep
        DEF ReplicationNext, ReplicationWorker

LEMMA ReplicationInvTells == ReplicationInv => ReplicationSound
<1> SUFFICES ASSUME ReplicationInv PROVE ReplicationSound
  OBVIOUS
<1> DEFINE onItsWay == {e \in Events : \E a \in Appenders : unqueued[a] = <<e>>}
<1>1. /\ ReplicationTypeOK /\ Numbered(log, appended) /\ Numbered(QueuedOn, Queued)
      /\ LastOnItsWay
      /\ appended \in [Appenders -> 0 .. MaxAppends] /\ MaxAppends \in Nat
  BY ReplicationAssumption DEF ReplicationInv, ReplicationTypeOK
<1>2. /\ ToSet(log) \subseteq Events /\ ToSet(QueuedOn) \subseteq Events
      /\ \A e \in Events : e \in ToSet(log) <=> e[2] <= appended[e[1]]
      /\ \A e \in Events : e \in ToSet(QueuedOn) <=> e[2] <= Queued[e[1]]
  BY <1>1 DEF Numbered, ToSet
<1>3. ASSUME NEW e \in Events
      PROVE  e \in onItsWay <=> unqueued[e[1]] # <<>> /\ e[2] = appended[e[1]]
  <2>1. e[1] \in Appenders /\ e[2] \in Nat /\ e = <<e[1], e[2]>>
    BY EventParts
  <2>2. ASSUME NEW a \in Appenders, unqueued[a] = <<e>>
        PROVE  e = <<a, appended[a]>> /\ e[1] = a
    <3>1. unqueued[a] # <<>>
      BY <2>2
    <3>2. << <<a, appended[a]>> >> = <<e>>
      BY <1>1, <2>2, <3>1 DEF LastOnItsWay
    <3> QED BY <3>2
  <2>3. unqueued[e[1]] # <<>> => unqueued[e[1]] = << <<e[1], appended[e[1]]>> >>
    BY <1>1, <2>1 DEF LastOnItsWay
  <2>4. ASSUME unqueued[e[1]] # <<>>, e[2] = appended[e[1]] PROVE e \in onItsWay
    <3>1. unqueued[e[1]] = <<e>>
      BY <2>1, <2>3, <2>4
    <3> QED BY <2>1, <3>1
  <2>5. ASSUME e \in onItsWay PROVE unqueued[e[1]] # <<>> /\ e[2] = appended[e[1]]
    <3>1. PICK a \in Appenders : unqueued[a] = <<e>>
      BY <2>5
    <3>2. e = <<a, appended[a]>> /\ e[1] = a
      BY <2>2, <3>1
    <3>3. e[2] = appended[a]
      BY <3>2
    <3> QED BY <3>1, <3>2, <3>3
  <2> QED BY <2>4, <2>5
<1>4. ASSUME NEW e \in Events
      PROVE  /\ e \in ToSet(log) <=> e \in ToSet(QueuedOn) \/ e \in onItsWay
             /\ ~(e \in ToSet(QueuedOn) /\ e \in onItsWay)
  <2>1. e[1] \in Appenders /\ e[2] \in Nat /\ appended[e[1]] \in Nat
    BY <1>1, EventParts
  <2>2. Queued[e[1]] = IF unqueued[e[1]] = <<>> THEN appended[e[1]] ELSE appended[e[1]] - 1
    BY <2>1 DEF Queued
  <2> HIDE DEF onItsWay
  <2> QED BY <1>2, <1>3, <2>1, <2>2
<1>5. ReplicatedOnce
  <2>1. ToSet(QueuedOn) \cap onItsWay = {} /\ ToSet(QueuedOn) \cup onItsWay = ToSet(log)
    BY <1>2, <1>4
  <2> QED BY <1>1, <2>1 DEF ReplicatedOnce, Numbered
<1>6. AppenderOrderKept
  <2>1. /\ replicated \in Seq(Events) /\ events_to_replicate \in Seq(Events)
        /\ replication_queue_ \in Seq(Events)
    BY <1>1, ReplicationTypes
  <2>2. /\ DOMAIN replicated = 1 .. Len(replicated) /\ DOMAIN QueuedOn = 1 .. Len(QueuedOn)
        /\ Len(replicated) \in Nat /\ Len(replicated) <= Len(QueuedOn) /\ Len(QueuedOn) \in Nat
        /\ \A i \in 1 .. Len(replicated) : QueuedOn[i] = replicated[i]
    BY <2>1 DEF QueuedOn
  <2>3. SUFFICES ASSUME NEW i \in 1 .. Len(replicated), NEW n \in 1 .. replicated[i][2] - 1
                 PROVE  \E j \in 1 .. i - 1 : replicated[j] = <<replicated[i][1], n>>
    BY <2>2 DEF AppenderOrderKept
  <2>4. i \in DOMAIN QueuedOn /\ n \in 1 .. QueuedOn[i][2] - 1
    BY <2>2
  <2>5. PICK j \in 1 .. i - 1 : QueuedOn[j] = <<QueuedOn[i][1], n>>
    BY <1>1, <2>4 DEF Numbered
  <2>6. j \in 1 .. Len(replicated)
    BY <2>2
  <2> QED BY <2>2, <2>5, <2>6
<1> QED BY <1>1, <1>5, <1>6 DEF ReplicationSound

\* Appenders, the queue and the worker interleaved, and the store destroyed at any time:
\* each event of the log is in one place on its way to the replicas, once, and the
\* replicas see the events of one appender in order and without a gap.
THEOREM ReplicatedInOrder == ReplicationSpec => []ReplicationSound
BY ReplicationInitial, ReplicationStep, ReplicationInvTells, PTL DEF ReplicationSpec
=============================================================================
