----------------------------- MODULE OptimizedV3 -----------------------------
(***************************************************************************)
(* MatchingEngineOptimizedV3 (src/core/matching_engine_optimized_v3.cpp)   *)
(* over AsyncPersistence: threads collect their trades in trade_batch_,    *)
(* hand it to the persistence when it is full, and one of them starts and  *)
(* stops it all.  processOrderBatch hands its trades over once more.       *)
(*                                                                         *)
(* What an order trades is left open (EventSourcedEngine).  Trades have    *)
(* numbers; a BATCH item is a TRADE item of AsyncPersistence, and contents *)
(* says which trades are in it.                                            *)
(***************************************************************************)
EXTENDS AsyncPersistence

CONSTANTS
    Clients,             \* who uses the manager: "engine", or "direct" as AsyncPersistence has it
    Main,                \* the thread that starts and stops the engine
    TRADE_BATCH_SIZE,    \* MatchingEngineOptimizedV3::BATCH_SIZE, 100 in the code
    MaxTrades,           \* bound: trades made
    MaxBatches           \* bound: calls of processOrderBatch

Unlocked == "nobody"

ASSUME OptimizedAssumption ==
    /\ Clients \subseteq {"engine", "direct"} /\ Main \in Producers
    /\ TRADE_BATCH_SIZE \in Nat \ {0} /\ MaxTrades \in Nat /\ MaxBatches \in Nat
    /\ Unlocked \notin Producers

\* The bound of the persistence is no bound of the engine.
ASSUME RoomAssumption == MaxTrades + MaxBatches <= MaxItems

VARIABLES
    client,
    engine_running_,
    pc,             \* where each thread is in process_order_es, processOrderBatch or stop
    trades,         \* the trades of the order a thread has just processed
    in_batch,       \* the thread is in processOrderBatch
    all_trades,     \* what it has collected there
    trade_batch_, batch_mutex_,
    contents,       \* the items each thread has handed over: the trades, and by which call
    made,           \* history: for each trade, whether processOrderBatch made it
    late,           \* history: trades that got into trade_batch_ while the engine was not running
    batches         \* calls of processOrderBatch

callVars == <<pc, trades, in_batch, all_trades, batches>>
tradeVars == <<trade_batch_, batch_mutex_, contents, made, late>>
optimizedVars == <<vars, client, engine_running_, callVars, tradeVars>>

OptimizedInit ==
    /\ Init
    /\ client \in Clients
    /\ engine_running_ = FALSE
    /\ pc = [t \in Producers |-> "idle"] /\ trades = [t \in Producers |-> <<>>]
    /\ in_batch = [t \in Producers |-> FALSE] /\ all_trades = [t \in Producers |-> <<>>]
    /\ trade_batch_ = <<>> /\ batch_mutex_ = Unlocked
    /\ contents = [t \in Producers |-> <<>>]
    /\ made = <<>> /\ late = {} /\ batches = 0

MovesTo(t, label) == pc' = [pc EXCEPT ![t] = label]
-----------------------------------------------------------------------------
(* process_order_es and processOrderBatch *)

\* The engine below makes one or two trades; without any the call does nothing more.
ProcessOrder(t, n) ==
    /\ pc[t] = "idle" /\ Len(made) + n <= MaxTrades
    /\ trades' = [trades EXCEPT ![t] = [i \in 1 .. n |-> Len(made) + i]]
    /\ made' = made \o [i \in 1 .. n |-> in_batch[t]]
    /\ MovesTo(t, "traded")
    /\ UNCHANGED <<vars, client, engine_running_, in_batch, all_trades, batches,
                   trade_batch_, batch_mutex_, contents, late>>

\* persistBatchAsync, up to its claim of a position.
HandsOver(t, batch_, call) ==
    /\ PushClaim([by |-> t, n |-> sent[t] + 1, type |-> "TRADE"])
    /\ sent' = [sent EXCEPT ![t] = @ + 1]
    /\ contents' = [contents EXCEPT ![t] = Append(@, [trades |-> batch_, call |-> call])]
    /\ UNCHANGED <<workVars, ownerVars>>

Filled(b) == Len(b) >= TRADE_BATCH_SIZE

\* A full batch is handed over under batch_mutex_, which is kept while the push waits.
PersistTradesBatch(t) ==
    /\ pc[t] = "traded" /\ batch_mutex_ = Unlocked
    /\ trade_batch_' = trade_batch_ \o trades[t]
    /\ \/ /\ Filled(trade_batch_')
          /\ HandsOver(t, trade_batch_', "collected")
          /\ batch_mutex_' = t /\ MovesTo(t, "pushes")
       \/ /\ ~Filled(trade_batch_')
          /\ MovesTo(t, "idle")
          /\ UNCHANGED <<vars, batch_mutex_, contents>>
    /\ late' = IF engine_running_ THEN late ELSE late \cup ToSet(trades[t])
    /\ all_trades' = IF in_batch[t] THEN [all_trades EXCEPT ![t] = @ \o trades[t]] ELSE all_trades
    /\ trades' = [trades EXCEPT ![t] = <<>>]
    /\ UNCHANGED <<client, engine_running_, in_batch, batches, made>>

EmptiedSlip == trade_batch_
Emptied == <<>>

After(label) == IF label = "stop pushes" THEN "stop flush" ELSE "idle"

\* The push returns: the batch is cleared and the mutex released.
BatchHandedOver(t) ==
    /\ pc[t] \in {"pushes", "stop pushes"}
    /\ PersistReturns(t)
    /\ trade_batch_' = Emptied /\ batch_mutex_' = Unlocked
    /\ MovesTo(t, After(pc[t]))
    /\ UNCHANGED <<client, engine_running_, trades, in_batch, all_trades, batches, contents, made,
                   late>>

BeginBatch(t) ==
    /\ pc[t] = "idle" /\ ~in_batch[t] /\ batches < MaxBatches
    /\ in_batch' = [in_batch EXCEPT ![t] = TRUE]
    /\ batches' = batches + 1
    /\ UNCHANGED <<vars, client, engine_running_, pc, trades, all_trades, tradeVars>>

\* What process_order_es has collected already is handed over again.
EndBatch(t) ==
    /\ pc[t] = "idle" /\ in_batch[t]
    /\ in_batch' = [in_batch EXCEPT ![t] = FALSE]
    /\ all_trades' = [all_trades EXCEPT ![t] = <<>>]
    /\ \/ /\ all_trades[t] # <<>>
          /\ HandsOver(t, all_trades[t], "batch") /\ MovesTo(t, "pushes all")
       \/ all_trades[t] = <<>> /\ UNCHANGED <<vars, contents, pc>>
    /\ UNCHANGED <<client, engine_running_, trades, batches, trade_batch_, batch_mutex_, made, late>>

AllHandedOver(t) ==
    /\ pc[t] = "pushes all"
    /\ PersistReturns(t)
    /\ MovesTo(t, "idle")
    /\ UNCHANGED <<client, engine_running_, trades, in_batch, all_trades, batches, tradeVars>>
-----------------------------------------------------------------------------
(* start and stop *)

StartEngine ==
    /\ pc[Main] = "idle" /\ ~in_batch[Main] /\ ~engine_running_
    /\ engine_running_' = TRUE
    /\ Start
    /\ UNCHANGED <<client, callVars, tradeVars>>

StopEngine ==
    /\ pc[Main] = "idle" /\ ~in_batch[Main] /\ engine_running_
    /\ engine_running_' = FALSE
    /\ MovesTo(Main, "stop")
    /\ UNCHANGED <<vars, client, trades, in_batch, all_trades, batches, tradeVars>>

StopHandsOver ==
    /\ pc[Main] = "stop" /\ batch_mutex_ = Unlocked
    /\ \/ /\ trade_batch_ # <<>>
          /\ HandsOver(Main, trade_batch_, "collected")
          /\ batch_mutex_' = Main /\ MovesTo(Main, "stop pushes")
       \/ /\ trade_batch_ = <<>>
          /\ MovesTo(Main, "stop flush")
          /\ UNCHANGED <<vars, batch_mutex_, contents>>
    /\ UNCHANGED <<client, engine_running_, trades, in_batch, all_trades, batches, trade_batch_,
                   made, late>>

\* async_persistence_->flush and ->stop.
StopFlushes ==
    /\ \/ pc[Main] = "stop flush" /\ Flush /\ MovesTo(Main, "stop flushes")
       \/ pc[Main] = "stop flushes" /\ Stop /\ MovesTo(Main, "stop joins")
    /\ UNCHANGED <<client, engine_running_, trades, in_batch, all_trades, batches, tradeVars>>

StopEnds ==
    /\ pc[Main] = "stop joins" /\ owner = "idle"
    /\ MovesTo(Main, "idle")
    /\ UNCHANGED <<vars, client, engine_running_, trades, in_batch, all_trades, batches, tradeVars>>
-----------------------------------------------------------------------------
Orders(t) ==
    \/ \E n \in {1, 2} : ProcessOrder(t, n)
    \/ PersistTradesBatch(t) \/ BeginBatch(t) \/ EndBatch(t)

Returns(t) == BatchHandedOver(t) \/ AllHandedOver(t)

WorkerSteps == WorkerTop \/ WorkerPop \/ WorkerTake \/ PersistItem \/ PersistTrades
OwnerSteps == Join \/ FlushPop \/ FlushTake \/ FlushEnd

Background == (WorkerSteps \/ Spill \/ OwnerSteps)
              /\ UNCHANGED <<client, engine_running_, callVars, tradeVars>>

OptimizedNext ==
    \/ client = "direct" /\ Next /\ UNCHANGED <<client, engine_running_, callVars, tradeVars>>
    \/ /\ client = "engine"
       /\ \/ \E t \in Producers : Orders(t) \/ Returns(t)
          \/ StartEngine \/ StopEngine \/ StopHandsOver \/ StopFlushes \/ StopEnds
          \/ Background

OptimizedSpec == OptimizedInit /\ [][OptimizedNext]_optimizedVars

\* The threads keep running, as in AsyncPersistence.
OptimizedFairness ==
    /\ \A t \in Producers :
         /\ WF_optimizedVars(client = "engine" /\ Returns(t))
         /\ WF_optimizedVars(client = "direct" /\ PersistReturns(t)
                               /\ UNCHANGED <<client, engine_running_, callVars, tradeVars>>)
    /\ WF_optimizedVars(WorkerSteps /\ UNCHANGED <<client, engine_running_, callVars, tradeVars>>)
    /\ WF_optimizedVars(OwnerSteps /\ UNCHANGED <<client, engine_running_, callVars, tradeVars>>)

OptimizedFairSpec == OptimizedSpec /\ OptimizedFairness
-----------------------------------------------------------------------------
(* What the engine promises. *)

Numbers == 1 .. Len(made)

Labels == {"idle", "traded", "pushes", "pushes all",
           "stop", "stop pushes", "stop flush", "stop flushes", "stop joins"}
Contents(S) == [trades : Seq(S), call : {"collected", "batch"}]

\* The batch lock is held only over a push.
CallsTypeOK ==
    /\ client \in Clients /\ engine_running_ \in BOOLEAN
    /\ pc \in [Producers -> Labels]
    /\ in_batch \in [Producers -> BOOLEAN] /\ batches \in 0 .. MaxBatches
    /\ batch_mutex_ \in Producers \cup {Unlocked}
    /\ \A t \in Producers : pc[t] \in {"pushes", "stop pushes"} <=> batch_mutex_ = t

TradesTypeOK ==
    /\ made \in Seq(BOOLEAN) /\ Len(made) <= MaxTrades
    /\ trades \in [Producers -> Seq(Numbers)] /\ all_trades \in [Producers -> Seq(Numbers)]
    /\ trade_batch_ \in Seq(Numbers) /\ late \subseteq Numbers
    /\ contents \in [Producers -> Seq(Contents(Numbers))]

\* Type correctness.
OptimizedTypeOK == TypeOK /\ CallsTypeOK /\ TradesTypeOK

\* How often x occurs in a sequence, and in what the calls of one kind of a thread have
\* handed over.
Times(x, s) == Cardinality({i \in DOMAIN s : s[i] = x})
Copies(x, items, call) ==
    SumFunctionOnSet([i \in DOMAIN items |->
                        IF items[i].call = call THEN Times(x, items[i].trades) ELSE 0], DOMAIN items)

\* How often a thread has trade x on its way to trade_batch_ or beyond it, and how often
\* on its way through processOrderBatch or handed over by it.
Collected(x) == [t \in Producers |-> Times(x, trades[t]) + Copies(x, contents[t], "collected")]
Repeated(x) == [t \in Producers |-> Times(x, all_trades[t]) + Copies(x, contents[t], "batch")
                                     + IF in_batch[t] THEN Times(x, trades[t]) ELSE 0]

\* What a thread is handing over with the lock is in contents.
Waiting == IF batch_mutex_ = Unlocked THEN trade_batch_ ELSE <<>>

HandedOnce ==
    \A x \in Numbers :
        /\ SumFunctionOnSet(Collected(x), Producers) + Times(x, Waiting) = 1
        /\ SumFunctionOnSet(Repeated(x), Producers) = IF made[x] THEN 1 ELSE 0

OnlyLateLeft ==
    ~engine_running_ /\ pc[Main] \notin {"stop", "stop pushes"} => ToSet(trade_batch_) \subseteq late

\* process_order_es, processOrderBatch and stop on any threads: each trade is handed to
\* the persistence once by way of trade_batch_, or waits to be, and once more by the
\* call of processOrderBatch that made it, never more; and stop leaves only trades in
\* trade_batch_ that came while the engine was not running.
TradesHandedOver == OptimizedTypeOK /\ HandedOnce /\ OnlyLateLeft
=============================================================================
