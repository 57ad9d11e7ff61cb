-------------------------- MODULE ProductionEngine --------------------------
(***************************************************************************)
(* ProductionMatchingEngineV3 (src/core/matching_engine_production_v3.cpp) *)
(* over ProductionMatchingEngineV2 (..._v2.cpp): one thread sends orders   *)
(* through the write-ahead log into the engine, a worker carries orders    *)
(* and trades from the task ring to OptimizedPersistence, a flush thread   *)
(* syncs the log in groups, and another thread shuts it all down.          *)
(*                                                                         *)
(* Order n is the n-th one sent; TradesOf[n] says how many trades it makes *)
(* if the engine takes it.  The task ring is the ring itself, step by      *)
(* step; a task is the order's number.                                     *)
(***************************************************************************)
EXTENDS OptimizedPersistence, SpscQueue

CONSTANTS TradesOf    \* order -> number of trades, a sequence

MaxSent == Len(TradesOf)

ASSUME ProductionAssumption ==
    /\ TradesOf \in Seq(0 .. MaxTrades)
    /\ Orders = 1 .. MaxSent /\ Item = Orders /\ NoItem = 0

VARIABLES
    sent,             \* orders handed to process_order_safe
    engine,           \* its thread: "idle", "process", "enqueue", "publish", "batch"
    processed,        \* the orders the engine took
    wal, synced,      \* wal.log, and how many of its records fsync has covered
    committed,        \* last_committed_ts_: the order it was taken from, or 0
    batch_buffer_, to_flush,
    flusher,          \* "top", "collect", "sync", "mark", "exited"
    sync_failed,      \* history: an fsync has failed
    todo,             \* what the worker has still to log of its task
    worker,           \* "pop", "release", "exited"
    shutting_down_, persistence_running_, flush_running_,
    owner,            \* shutdown: "idle", "flusher", "v2", "worker", "writer", "done"
    full,             \* history: tasks a full ring refused
    overlap           \* history: an order was processed while shutdown ran

engineVars == <<sent, engine, processed, wal, batch_buffer_, full, overlap>>
groupVars == <<synced, committed, to_flush, flusher, sync_failed>>
workerVars == <<todo, worker>>
ownerVars == <<shutting_down_, persistence_running_, flush_running_, owner>>
vars == <<persistVars, ringVars, engineVars, groupVars, workerVars, ownerVars>>

Init ==
    /\ PersistInit /\ RingInit
    /\ sent = 0 /\ engine = "idle" /\ processed = {}
    /\ wal = <<>> /\ synced = 0 /\ committed = 0
    /\ batch_buffer_ = <<>> /\ to_flush = <<>> /\ flusher = "top" /\ sync_failed = FALSE
    /\ todo = <<>> /\ worker = "pop"
    /\ shutting_down_ = FALSE /\ persistence_running_ = TRUE /\ flush_running_ = TRUE
    /\ owner = "idle"
    /\ full = {} /\ overlap = FALSE
-----------------------------------------------------------------------------
(* process_order_safe *)

\* WriteAheadLog::append comes first, whatever becomes of the order.  An append
\* that fails throws: nothing was sent.
AppendToWal ==
    /\ engine = "idle" /\ sent < MaxSent
    /\ sent' = sent + 1
    /\ wal' = Append(wal, sent + 1)
    /\ engine' = "process"
    /\ UNCHANGED <<persistVars, ringVars, processed, batch_buffer_, full, overlap,
                   groupVars, workerVars, ownerVars>>

\* process_order_production_v2 throws: shutting down, or a check failed.
RefuseOrder ==
    /\ engine = "process"
    /\ engine' = "idle"
    /\ UNCHANGED <<persistVars, ringVars, sent, processed, wal, batch_buffer_, full, overlap,
                   groupVars, workerVars, ownerVars>>

TakeOrder ==
    /\ engine = "process" /\ ~shutting_down_
    /\ processed' = processed \cup {sent}
    /\ overlap' = (overlap \/ owner # "idle")
    /\ engine' = "enqueue"
    /\ UNCHANGED <<persistVars, ringVars, sent, wal, batch_buffer_, full,
                   groupVars, workerVars, ownerVars>>

\* enqueuePersistence: a full ring drops the task.
DropTask ==
    /\ engine = "enqueue" /\ RingFull
    /\ full' = full \cup {sent}
    /\ engine' = "batch"
    /\ UNCHANGED <<persistVars, ringVars, sent, processed, wal, batch_buffer_, overlap,
                   groupVars, workerVars, ownerVars>>

FillTask ==
    /\ engine = "enqueue" /\ PushFill(sent)
    /\ engine' = "publish"
    /\ UNCHANGED <<persistVars, sent, processed, wal, batch_buffer_, full, overlap,
                   groupVars, workerVars, ownerVars>>

PublishTask ==
    /\ engine = "publish" /\ PushPublish
    /\ engine' = "batch"
    /\ UNCHANGED <<persistVars, sent, processed, wal, batch_buffer_, full, overlap,
                   groupVars, workerVars, ownerVars>>

AddToBatch ==
    /\ engine = "batch"
    /\ batch_buffer_' = Append(batch_buffer_, sent)
    /\ engine' = "idle"
    /\ UNCHANGED <<persistVars, ringVars, sent, processed, wal, full, overlap,
                   groupVars, workerVars, ownerVars>>
-----------------------------------------------------------------------------
(* flush_worker.  Whether a batch is large or old enough is left open.     *)

FlusherGoesOn ==
    /\ flusher = "top" /\ flush_running_
    /\ flusher' = "collect"
    /\ UNCHANGED <<persistVars, ringVars, engineVars, synced, committed, to_flush, sync_failed,
                   workerVars, ownerVars>>

NotDue ==
    /\ flusher = "collect"
    /\ flusher' = "top"
    /\ UNCHANGED <<persistVars, ringVars, engineVars, synced, committed, to_flush, sync_failed,
                   workerVars, ownerVars>>

Collect ==
    /\ flusher = "collect" /\ batch_buffer_ # <<>>
    /\ to_flush' = batch_buffer_
    /\ batch_buffer_' = <<>>
    /\ flusher' = "sync"
    /\ UNCHANGED <<persistVars, ringVars, sent, engine, processed, wal, full, overlap,
                   synced, committed, sync_failed, workerVars, ownerVars>>

Sync ==
    /\ flusher = "sync"
    /\ synced' = Len(wal)
    /\ flusher' = "mark"
    /\ UNCHANGED <<persistVars, ringVars, engineVars, committed, to_flush, sync_failed,
                   workerVars, ownerVars>>

\* fsync reports an error: the batch is given up, neither marked nor kept.
SyncFails ==
    /\ flusher = "sync"
    /\ sync_failed' = TRUE
    /\ to_flush' = <<>>
    /\ flusher' = "top"
    /\ UNCHANGED <<persistVars, ringVars, engineVars, synced, committed, workerVars, ownerVars>>

MarkedSlip == Last(wal)
Marked == Last(to_flush)

MarkCommitted ==
    /\ flusher = "mark"
    /\ committed' = Marked
    /\ to_flush' = <<>>
    /\ flusher' = "top"
    /\ UNCHANGED <<persistVars, ringVars, engineVars, synced, sync_failed, workerVars, ownerVars>>

\* What is in batch_buffer_ now stays there.
FlusherExits ==
    /\ flusher = "top" /\ ~flush_running_
    /\ flusher' = "exited"
    /\ UNCHANGED <<persistVars, ringVars, engineVars, synced, committed, to_flush, sync_failed,
                   workerVars, ownerVars>>
-----------------------------------------------------------------------------
(* persistenceWorker *)

\* The order's trades, then the order.
EntriesOf(n) == [i \in 1 .. TradesOf[n] + 1 |->
                   [order |-> n, k |-> IF i > TradesOf[n] THEN 0 ELSE i]]

WorkerContinuesSlip == persistence_running_
WorkerContinues == persistence_running_ \/ RingSize > 0

Unoccupied == worker = "pop" /\ todo = <<>> /\ logging = None

WorkerPop ==
    /\ Unoccupied /\ WorkerContinues
    /\ \E n \in Orders : PopCopy(n) /\ todo' = EntriesOf(n)
    /\ worker' = "release"
    /\ UNCHANGED <<persistVars, engineVars, groupVars, ownerVars>>

WorkerReleases ==
    /\ worker = "release" /\ PopRelease
    /\ worker' = "pop"
    /\ UNCHANGED <<persistVars, engineVars, groupVars, todo, ownerVars>>

WorkerLogs ==
    /\ worker = "pop" /\ todo # <<>>
    /\ LogCheck(Head(todo))
    /\ todo' = Tail(todo)
    /\ UNCHANGED <<ringVars, engineVars, groupVars, worker, ownerVars>>

WorkerPushes ==
    /\ LogPush
    /\ UNCHANGED <<ringVars, engineVars, groupVars, workerVars, ownerVars>>

WorkerExits ==
    /\ Unoccupied /\ ~WorkerContinues
    /\ worker' = "exited"
    /\ UNCHANGED <<persistVars, ringVars, engineVars, groupVars, todo, ownerVars>>

Worker == \/ WorkerPop \/ WorkerReleases \/ WorkerLogs \/ WorkerPushes \/ WorkerExits

WriterSteps == Writer /\ UNCHANGED <<ringVars, engineVars, groupVars, workerVars, ownerVars>>
-----------------------------------------------------------------------------
(* shutdown: V3's flush thread, then V2's flag and worker, then the writer *)

Shutdown ==
    /\ owner = "idle" /\ flush_running_
    /\ flush_running_' = FALSE
    /\ owner' = "flusher"
    /\ overlap' = (engine # "idle")
    /\ UNCHANGED <<persistVars, ringVars, sent, engine, processed, wal, batch_buffer_, full,
                   groupVars, workerVars, shutting_down_, persistence_running_>>

FlusherJoined ==
    /\ owner = "flusher" /\ flusher = "exited"
    /\ shutting_down_' = TRUE
    /\ owner' = "v2"
    /\ UNCHANGED <<persistVars, ringVars, engineVars, groupVars, workerVars,
                   persistence_running_, flush_running_>>

StopWorker ==
    /\ owner = "v2"
    /\ persistence_running_' = FALSE
    /\ owner' = "worker"
    /\ UNCHANGED <<persistVars, ringVars, engineVars, groupVars, workerVars,
                   shutting_down_, flush_running_>>

WorkerGone == worker = "exited"

WorkerJoined ==
    /\ owner = "worker" /\ WorkerGone
    /\ RequestShutdown
    /\ owner' = "writer"
    /\ UNCHANGED <<ringVars, engineVars, groupVars, workerVars,
                   shutting_down_, persistence_running_, flush_running_>>

WriterJoined ==
    /\ owner = "writer" /\ JoinWriter
    /\ UNCHANGED <<ringVars, engineVars, groupVars, workerVars, ownerVars>>

ShutdownDone ==
    /\ owner = "writer" /\ ShutdownReturns
    /\ owner' = "done"
    /\ UNCHANGED <<ringVars, engineVars, groupVars, workerVars,
                   shutting_down_, persistence_running_, flush_running_>>

Owner == FlusherJoined \/ StopWorker \/ WorkerJoined \/ WriterJoined \/ ShutdownDone
Flusher == FlusherGoesOn \/ NotDue \/ Collect \/ Sync \/ SyncFails \/ MarkCommitted \/ FlusherExits
Engine == RefuseOrder \/ TakeOrder \/ DropTask \/ FillTask \/ PublishTask \/ AddToBatch

Next == AppendToWal \/ Engine \/ Flusher \/ Worker \/ WriterSteps \/ Shutdown \/ Owner

Spec == Init /\ [][Next]_vars

\* The threads run; a call in progress goes on.  Nobody has to send orders or to
\* shut down.  A batch is old enough to be collected after 10 ms.
Fairness ==
    /\ WF_vars(Engine) /\ WF_vars(Worker) /\ WF_vars(WriterSteps) /\ WF_vars(Owner)
    /\ WF_vars(Flusher) /\ SF_vars(Collect)

FairSpec == Spec /\ Fairness
-----------------------------------------------------------------------------
(* What the pipeline promises. *)

\* Type correctness.
TypeOK ==
    /\ RingTypeOK
    /\ {initialized_, shutdown_requested_, has_data, overlap, sync_failed, shutting_down_,
        persistence_running_, flush_running_} \subseteq BOOLEAN
    /\ trade_queue_ \in Seq(Entry) /\ \A n \in QueueSizes : Len(trade_queue_) < n
    /\ order_queue_ \in Seq(Entry) /\ \A n \in QueueSizes : Len(order_queue_) < n
    /\ trade_buffer_ \in Seq(Entry) /\ Len(trade_buffer_) <= buffer_size_
    /\ order_buffer_ \in Seq(Entry) /\ Len(order_buffer_) <= buffer_size_
    /\ trade_log_ \in Seq(Entry) /\ order_log_ \in Seq(Entry) /\ todo \in Seq(Entry)
    /\ logging \in Entry \cup {None} /\ lost \subseteq Entry
    /\ writer \in {"trades", "orders", "decide", "next", "wait", "exited"}
    /\ manager \in {"idle", "join", "last flush"}
    /\ sent \in 0 .. MaxSent /\ processed \subseteq Orders /\ full \subseteq Orders
    /\ engine \in {"idle", "process", "enqueue", "publish", "batch"}
    /\ wal \in Seq(Orders) /\ synced \in 0 .. Len(wal) /\ committed \in Orders \cup {0}
    /\ batch_buffer_ \in Seq(Orders) /\ to_flush \in Seq(Orders)
    /\ flusher \in {"top", "collect", "sync", "mark", "exited"}
    /\ worker \in {"pop", "release", "exited"}
    /\ owner \in {"idle", "flusher", "v2", "worker", "writer", "done"}

Before(e, f) == \/ e.order < f.order
                \/ e.order = f.order /\ (f.k = 0 \/ e.k < f.k) /\ e # f
InOrder(path) == \A i, j \in DOMAIN path : i < j => Before(path[i], path[j])

\* What still has to be logged: what the worker has begun, and the tasks it has not.
Begun == (IF logging = None THEN <<>> ELSE <<logging>>) \o todo
Waiting == (IF worker = "release" THEN Tail(Contents) ELSE Contents)
             \o (IF engine \in {"enqueue", "publish"} THEN <<sent>> ELSE <<>>)
ToLog == ToSet(Begun) \cup UNION {ToSet(EntriesOf(n)) : n \in ToSet(Waiting)}

\* What has been logged.  After the last write the buffers are left as they are.
Pending(buffer) == IF writer = "exited" THEN <<>> ELSE buffer

TradePath == trade_log_ \o Pending(trade_buffer_) \o trade_queue_
OrderPath == order_log_ \o Pending(order_buffer_) \o order_queue_
Logged == ToSet(TradePath) \cup ToSet(OrderPath)

Produced == UNION {ToSet(EntriesOf(n)) : n \in processed \ full}

\* enqueuePersistence to writeBatch: on the way from the engine to the files no
\* record is lost, doubled or overtaken by another of its file, except those a full
\* queue dropped, however engine, worker, writer and shutdown interleave.
PathsComplete ==
    /\ Logged \cup ToLog = Produced \ lost
    /\ \A e \in ToSet(TradePath) : IsTradeEntry(e)
    /\ \A e \in ToSet(OrderPath) : ~IsTradeEntry(e)
    /\ InOrder(TradePath) /\ InOrder(OrderPath) /\ InOrder(Begun)
    /\ \A e \in Logged, f \in ToLog : Before(e, f)
    /\ \A e \in ToSet(Begun), n \in ToSet(Waiting) : e.order < n
    /\ \A i, j \in DOMAIN Waiting : i < j => Waiting[i] < Waiting[j]

\* PERSISTENCE_OPTIMIZATION.md, graceful shutdown: when shutdown has returned and
\* no order was processed meanwhile, everything accepted is in the files.
ShutdownWritesAll ==
    owner = "done" /\ ~overlap =>
        Produced \ lost = ToSet(trade_log_) \cup ToSet(order_log_)

\* On the way to the files and in them, whatever the moment and the shutdown.
RecordsKept == TypeOK /\ PathsComplete /\ ShutdownWritesAll

\* flush_worker: what mark_committed covers has reached the disk, though orders
\* are appended between the collection of a batch, its fsync and its mark.
CommittedIsSynced ==
    \A n \in processed : n <= committed => n \in ToSet(SubSeq(wal, 1, synced))

\* shutdown returns, whatever is in the queues and whoever still sends orders.
ShutdownEnds == owner # "idle" ~> owner = "done"

\* Group commit: an order that was processed is committed, unless the engine is
\* shut down first or an fsync fails.
GroupCommits ==
    \A n \in Orders : n \in processed ~> (n <= committed \/ ~flush_running_ \/ sync_failed)

\* The threads of the pipeline get what they were given to its end.
PipelineMoves == ShutdownEnds /\ GroupCommits
=============================================================================
