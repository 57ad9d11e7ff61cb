------------------------ MODULE OptimizedPersistence ------------------------
(***************************************************************************)
(* OptimizedPersistenceManager (src/core/persistence_optimized.cpp): one   *)
(* thread logs trades and orders into two bounded queues, a writer thread  *)
(* drains them into two buffers and writes the buffers to two files when   *)
(* they are full or the flush interval has passed.                         *)
(*                                                                         *)
(* The queues are at their promise (BoundedFifo).  Which of the elapsed    *)
(* times has passed is left open.  Init is the state initialize leaves.    *)
(***************************************************************************)
EXTENDS Integers, Sequences, SequencesExt

CONSTANTS
    Orders,         \* the orders an entry may be about
    MaxTrades,      \* bound: trades of one order
    buffer_size_    \* entries a buffer takes before it must be written

ASSUME BufferAssumption == buffer_size_ \in Nat \ {0} /\ MaxTrades \in Nat

VARIABLES
    initialized_, shutdown_requested_,
    trade_queue_, order_queue_,
    trade_buffer_, order_buffer_,
    trade_log_, order_log_,       \* the records in the files
    writer,      \* "trades", "orders", "decide", "wait", "exited"
    has_data,    \* the writer's local of that name
    manager,     \* the caller: "idle", "join", "last flush"
    logging,     \* the entry between the check of logTrade/logOrder and its push
    lost         \* history: entries dropped by a full queue

writerVars == <<trade_buffer_, order_buffer_, trade_log_, order_log_, writer, has_data>>
flagVars == <<initialized_, shutdown_requested_, manager>>
logVars == <<trade_queue_, order_queue_, logging, lost>>
persistVars == <<writerVars, flagVars, logVars>>

\* OptimizedLogEntry: the k-th trade of an order, or the order itself as k = 0.
Entry == [order : Orders, k : 0 .. MaxTrades]
None == [order |-> 0, k |-> 0]
IsTradeEntry(e) == e.k # 0

\* queue_size is the least of these: a power of two not below twice the buffer.
QueueSizes == {n \in 2 * buffer_size_ .. 4 * buffer_size_ : \E m \in 0 .. n : n = 2 ^ m}

PersistInit ==
    /\ initialized_ = TRUE /\ shutdown_requested_ = FALSE
    /\ trade_queue_ = <<>> /\ order_queue_ = <<>>
    /\ trade_buffer_ = <<>> /\ order_buffer_ = <<>>
    /\ trade_log_ = <<>> /\ order_log_ = <<>>
    /\ writer = "trades" /\ has_data = FALSE
    /\ manager = "idle" /\ logging = None /\ lost = {}
-----------------------------------------------------------------------------
(* logTrade and logOrder *)

\* The flags are read; a call that finds the manager down ends here.
LogCheck(e) ==
    /\ logging = None
    /\ logging' = IF initialized_ /\ ~shutdown_requested_ THEN e ELSE None
    /\ UNCHANGED <<writerVars, flagVars, trade_queue_, order_queue_, lost>>

\* One slot of the ring stays free.
HasRoom(q) == \A n \in QueueSizes : Len(q) < n - 1

LogPush ==
    /\ logging # None
    /\ \/ /\ IsTradeEntry(logging) /\ HasRoom(trade_queue_)
          /\ trade_queue_' = Append(trade_queue_, logging)
          /\ UNCHANGED <<order_queue_, lost>>
       \/ /\ ~IsTradeEntry(logging) /\ HasRoom(order_queue_)
          /\ order_queue_' = Append(order_queue_, logging)
          /\ UNCHANGED <<trade_queue_, lost>>
       \/ /\ ~HasRoom(IF IsTradeEntry(logging) THEN trade_queue_ ELSE order_queue_)
          /\ lost' = lost \cup {logging}
          /\ UNCHANGED <<trade_queue_, order_queue_>>
    /\ logging' = None
    /\ UNCHANGED <<writerVars, flagVars>>
-----------------------------------------------------------------------------
(* writerThread *)

FullBuffer(b) == Len(b) >= buffer_size_

\* Trades are drained until the queue is empty or the buffer full, which is
\* looked at after each entry only.
DrainTrade ==
    /\ writer = "trades" /\ trade_queue_ # <<>>
    /\ trade_buffer_' = Append(trade_buffer_, Head(trade_queue_))
    /\ trade_queue_' = Tail(trade_queue_)
    /\ has_data' = TRUE
    /\ writer' = IF FullBuffer(trade_buffer_') THEN "orders" ELSE "trades"
    /\ UNCHANGED <<order_buffer_, trade_log_, order_log_, flagVars, order_queue_, logging, lost>>

TradesDrained ==
    /\ writer = "trades" /\ trade_queue_ = <<>>
    /\ writer' = "orders"
    /\ UNCHANGED <<trade_buffer_, order_buffer_, trade_log_, order_log_, has_data,
                   flagVars, logVars>>

DrainOrder ==
    /\ writer = "orders" /\ order_queue_ # <<>>
    /\ order_buffer_' = Append(order_buffer_, Head(order_queue_))
    /\ order_queue_' = Tail(order_queue_)
    /\ has_data' = TRUE
    /\ writer' = IF FullBuffer(order_buffer_') THEN "decide" ELSE "orders"
    /\ UNCHANGED <<trade_buffer_, trade_log_, order_log_, flagVars, trade_queue_, logging, lost>>

OrdersDrained ==
    /\ writer = "orders" /\ order_queue_ = <<>>
    /\ writer' = "decide"
    /\ UNCHANGED <<trade_buffer_, order_buffer_, trade_log_, order_log_, has_data,
                   flagVars, logVars>>

Write == /\ trade_log_' = trade_log_ \o trade_buffer_
         /\ order_log_' = order_log_ \o order_buffer_

\* The head of the loop, with has_data cleared for the next turn: on, or out
\* with a last write, after which the buffers are not cleared.
MustGoOnSlip == ~shutdown_requested_
MustGoOn == ~shutdown_requested_ \/ trade_queue_ # <<>> \/ order_queue_ # <<>>

\* A turn that brought data may write both buffers, and must if one is full.
WriteBatches ==
    /\ writer = "decide" /\ has_data
    /\ Write
    /\ trade_buffer_' = <<>> /\ order_buffer_' = <<>>
    /\ writer' = "next" /\ has_data' = FALSE
    /\ UNCHANGED <<flagVars, logVars>>

Hold ==
    /\ writer = "decide"
    /\ ~FullBuffer(trade_buffer_) /\ ~FullBuffer(order_buffer_)
    /\ writer' = IF ~has_data /\ ~shutdown_requested_ THEN "wait" ELSE "next"
    /\ has_data' = FALSE
    /\ UNCHANGED <<trade_buffer_, order_buffer_, trade_log_, order_log_, flagVars, logVars>>

\* wait_for returns, notified or after the flush interval, or there was no wait.
NextTurn ==
    /\ writer \in {"wait", "next"} /\ MustGoOn
    /\ writer' = "trades"
    /\ UNCHANGED <<trade_buffer_, order_buffer_, trade_log_, order_log_, has_data,
                   flagVars, logVars>>

LastWrite ==
    /\ writer \in {"wait", "next"} /\ ~MustGoOn
    /\ Write
    /\ writer' = "exited"
    /\ UNCHANGED <<trade_buffer_, order_buffer_, has_data, flagVars, logVars>>

Writer == \/ DrainTrade \/ TradesDrained \/ DrainOrder \/ OrdersDrained
          \/ WriteBatches \/ Hold \/ NextTurn \/ LastWrite
-----------------------------------------------------------------------------
(* shutdown *)

QueuesEmpty == trade_queue_ = <<>> /\ order_queue_ = <<>>

RequestShutdown ==
    /\ manager = "idle" /\ initialized_
    /\ shutdown_requested_' = TRUE
    /\ manager' = "join"
    /\ UNCHANGED <<writerVars, initialized_, logVars>>

JoinWriter ==
    /\ manager = "join" /\ writer = "exited"
    /\ manager' = "last flush"
    /\ UNCHANGED <<writerVars, initialized_, shutdown_requested_, logVars>>

\* The flush of shutdown needs the queues empty, with no writer to empty them.
ShutdownReturns ==
    /\ manager = "last flush" /\ QueuesEmpty
    /\ manager' = "idle"
    /\ initialized_' = FALSE
    /\ UNCHANGED <<writerVars, shutdown_requested_, logVars>>
=============================================================================
