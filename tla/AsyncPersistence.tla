-------------------------- MODULE AsyncPersistence --------------------------
(***************************************************************************)
(* AsyncPersistenceManager (src/core/persistence_async.cpp): engine        *)
(* threads push orders and trades into the lock-free queue, one worker     *)
(* thread pops them into a batch and writes full or late batches to the    *)
(* write-ahead log, and the owner starts, flushes and stops it all.        *)
(*                                                                         *)
(* pop never returns false, so the worker stays in the inner loop of       *)
(* persistenceWorker once it has begun to pop; the code after that loop    *)
(* runs only when the worker finds running_ false before its first pop.    *)
(* TRADE and BATCH items are treated alike: both are collected in          *)
(* wal_buffer and written after the orders of their batch.                 *)
(***************************************************************************)
EXTENDS MpmcQueue, Sequences, SequencesExt

CONSTANTS
    Producers,    \* the engine threads
    MaxItems,     \* bound: items handed over by them all
    BATCH_SIZE,   \* 1000 in the code
    MaxRetries,   \* 1000 in the code: flush counts retries in twos
    MaxStarts     \* bound: calls of start

ASSUME PersistenceAssumption ==
    /\ {"worker", "owner"} \cap Producers = {} /\ IsFiniteSet(Producers)
    /\ MaxItems \in Nat /\ BATCH_SIZE \in Nat \ {0}
    /\ MaxRetries \in Nat /\ MaxStarts \in Nat

VARIABLES
    running_,
    worker,      \* "none", "top", "pop", "write", "exited"
    batch,       \* the worker's batch, as far as persistBatch has not got to it
    wal_buffer,  \* the trades persistBatch has collected
    wal,         \* the records written to wal_file_
    flushed,     \* how many of them have left the stream's buffer
    open,        \* wal_file_ is open
    owner,       \* "idle", "flush", "join", "last flush"
    retries,     \* of the owner's flush
    sent,        \* producer -> number of persist*Async calls begun
    started,     \* number of calls of start
    discarded,   \* history: items flush has popped
    dropped      \* history: items written to a closed file

workVars == <<running_, worker, batch, wal_buffer, wal, flushed, open, dropped>>
ownerVars == <<owner, retries, started, discarded>>
vars == <<queueVars, workVars, ownerVars, sent>>

PersistType == {"ORDER", "TRADE"}
Item == [by : Producers, n : 1 .. MaxItems, type : PersistType]

ASSUME NullAssumption == NoItem \notin Item

Init ==
    /\ QueueInit
    /\ running_ = FALSE /\ worker = "none" /\ batch = <<>> /\ wal_buffer = <<>>
    /\ wal = <<>> /\ flushed = 0 /\ open = TRUE
    /\ owner = "idle" /\ retries = 0 /\ started = 0
    /\ sent = [t \in Producers |-> 0]
    /\ discarded = {} /\ dropped = {}

IsOrder(x) == x.type = "ORDER"
IsTrade(x) == x.type # "ORDER"
-----------------------------------------------------------------------------
(* Engine threads: persistOrderAsync, persistTradeAsync, persistBatchAsync *)

Pushing(t) == \E p \in pushing : p.item.by = t

Persist(t) ==
    /\ ~Pushing(t) /\ write_pos_ < MaxItems
    /\ \E type \in PersistType :
         PushClaim([by |-> t, n |-> sent[t] + 1, type |-> type])
    /\ sent' = [sent EXCEPT ![t] = @ + 1]
    /\ UNCHANGED <<workVars, ownerVars>>

PersistReturns(t) ==
    /\ \E p \in pushing : p.item.by = t /\ PushStore(p)
    /\ UNCHANGED <<workVars, ownerVars, sent>>
-----------------------------------------------------------------------------
(* persistenceWorker *)

\* writeToWAL: a closed file swallows the records.
WriteToWAL(items) ==
    \/ open /\ wal' = wal \o items /\ UNCHANGED dropped
    \/ ~open /\ dropped' = dropped \cup ToSet(items) /\ UNCHANGED wal

FlushBatch == flushed' = IF open THEN Len(wal) ELSE flushed

\* The head of the outer loop, reached once: into the loops, or out for good.
WorkerTop ==
    /\ worker = "top"
    /\ \/ (running_ \/ batch # <<>>) /\ worker' = "pop" /\ UNCHANGED flushed
       \/ ~(running_ \/ batch # <<>>) /\ worker' = "exited" /\ FlushBatch
    /\ UNCHANGED <<queueVars, running_, batch, wal_buffer, wal, open, dropped, ownerVars, sent>>

WorkerPops == \E c \in popping : c.by = "worker"

WorkerPop ==
    /\ worker = "pop" /\ ~WorkerPops
    /\ PopClaim("worker")
    /\ UNCHANGED <<workVars, ownerVars, sent>>

Full(b) == Len(b) >= BATCH_SIZE

\* An item arrives; BATCH_TIMEOUT_MS may or may not have passed.
WorkerTake ==
    /\ worker = "pop"
    /\ \E c \in popping, x \in Stored :
         /\ c.by = "worker" /\ PopTake(c, x)
         /\ batch' = Append(batch, x)
         /\ \/ worker' = "write"
            \/ ~Full(batch') /\ worker' = "pop"
    /\ UNCHANGED <<running_, wal_buffer, wal, flushed, open, dropped, ownerVars, sent>>

\* One turn of the loop of persistBatch: an ORDER is written at once, a TRADE waits.
PersistItem ==
    /\ worker = "write" /\ batch # <<>>
    /\ \/ /\ IsOrder(Head(batch))
          /\ WriteToWAL(<<Head(batch)>>)
          /\ UNCHANGED wal_buffer
       \/ /\ IsTrade(Head(batch))
          /\ wal_buffer' = Append(wal_buffer, Head(batch))
          /\ UNCHANGED <<wal, dropped>>
    /\ batch' = Tail(batch)
    /\ UNCHANGED <<queueVars, running_, worker, flushed, open, ownerVars, sent>>

\* The end of persistBatch: what has been collected is written.
PersistTrades ==
    /\ worker = "write" /\ batch = <<>>
    /\ WriteToWAL(wal_buffer)
    /\ wal_buffer' = <<>>
    /\ worker' = "pop"
    /\ UNCHANGED <<queueVars, running_, batch, flushed, open, ownerVars, sent>>

\* The stream writes out its buffer when it likes.
Spill ==
    /\ open /\ flushed < Len(wal)
    /\ flushed' \in flushed + 1 .. Len(wal)
    /\ UNCHANGED <<queueVars, running_, worker, batch, wal_buffer, wal, open, dropped, ownerVars, sent>>
-----------------------------------------------------------------------------
(* The owner: start, flush, stop *)

\* initialize opens the log for appending; a stream still open is closed first.
Initialize ==
    /\ owner = "idle" /\ worker \in {"none", "exited"}
    /\ FlushBatch
    /\ open' = TRUE
    /\ UNCHANGED <<queueVars, running_, worker, batch, wal_buffer, wal, dropped, ownerVars, sent>>

Start ==
    /\ owner = "idle" /\ ~running_ /\ started < MaxStarts
    /\ running_' = TRUE
    /\ worker' = "top"
    /\ started' = started + 1
    /\ UNCHANGED <<queueVars, batch, wal_buffer, wal, flushed, open, dropped,
                   owner, retries, discarded, sent>>

Flush ==
    /\ owner = "idle"
    /\ owner' = "flush"
    /\ retries' = 0
    /\ UNCHANGED <<queueVars, workVars, started, discarded, sent>>

Stop ==
    /\ owner = "idle" /\ running_
    /\ running_' = FALSE
    /\ owner' = "join"
    /\ UNCHANGED <<queueVars, worker, batch, wal_buffer, wal, flushed, open, dropped,
                   retries, started, discarded, sent>>

\* The loop that waits a second changes nothing; join waits for ever.
Join ==
    /\ owner = "join" /\ worker = "exited"
    /\ owner' = "last flush"
    /\ retries' = 0
    /\ UNCHANGED <<queueVars, workVars, started, discarded, sent>>

Flushing == owner \in {"flush", "last flush"}
OwnerPops == \E c \in popping : c.by = "owner"

FlushPop ==
    /\ Flushing /\ ~OwnerPops /\ retries <= MaxRetries
    /\ PopClaim("owner")
    /\ UNCHANGED <<workVars, ownerVars, sent>>

\* pop(dummy) && retries < 1000: one more item is popped than is retried for.
FlushTake ==
    /\ Flushing
    /\ \E c \in popping, x \in Stored :
         /\ c.by = "owner" /\ PopTake(c, x)
         /\ discarded' = discarded \cup {x}
    /\ retries' = IF retries < MaxRetries THEN retries + 2 ELSE MaxRetries + 1
    /\ UNCHANGED <<workVars, owner, started, sent>>

\* The end of flush, and of the stop that called it.
FlushEnd ==
    /\ Flushing /\ ~OwnerPops /\ retries > MaxRetries
    /\ FlushBatch
    /\ open' = (open /\ owner = "flush")
    /\ owner' = "idle"
    /\ UNCHANGED <<queueVars, running_, worker, batch, wal_buffer, wal, dropped,
                   retries, started, discarded, sent>>

Next ==
    \/ \E t \in Producers : Persist(t) \/ PersistReturns(t)
    \/ WorkerTop \/ WorkerPop \/ WorkerTake \/ PersistItem \/ PersistTrades
    \/ Spill
    \/ Initialize \/ Start \/ Flush \/ Stop \/ Join \/ FlushPop \/ FlushTake \/ FlushEnd

Spec == Init /\ [][Next]_vars

\* The threads keep running: the spins of push and pop yield, nothing preempts
\* a thread for ever.  Nobody is obliged to call anything.
Fairness ==
    /\ \A t \in Producers : WF_vars(PersistReturns(t))
    /\ WF_vars(WorkerTop \/ WorkerPop \/ WorkerTake \/ PersistItem \/ PersistTrades)
    /\ WF_vars(Join \/ FlushPop \/ FlushTake \/ FlushEnd)

FairSpec == Spec /\ Fairness
-----------------------------------------------------------------------------
(* What the queue and the manager promise. *)

Spin == [pos : Nat, item : Item]

\* Type correctness; the batch never grows past BATCH_SIZE.
TypeOK ==
    /\ buffer_ \in [Slots -> Item \cup {NoItem}]
    /\ write_pos_ \in Nat /\ read_pos_ \in Nat
    /\ pushing \subseteq Spin
    /\ popping \subseteq [pos : Nat, by : {"worker", "owner"}]
    /\ lapped \in BOOLEAN
    /\ running_ \in BOOLEAN /\ open \in BOOLEAN
    /\ worker \in {"none", "top", "pop", "write", "exited"}
    /\ batch \in Seq(Item) /\ wal_buffer \in Seq(Item)
    /\ Len(batch) + Len(wal_buffer) <= BATCH_SIZE
    /\ wal \in Seq(Item) /\ flushed \in 0 .. Len(wal)
    /\ owner \in {"idle", "flush", "join", "last flush"}
    /\ retries \in 0 .. MaxRetries + 1
    /\ sent \in [Producers -> 0 .. MaxItems]
    /\ started \in 0 .. MaxStarts
    /\ discarded \subseteq Item /\ dropped \subseteq Item

Count == Cardinality(pushing) + Cardinality({i \in Slots : buffer_[i] # NoItem})
           + Len(batch) + Len(wal_buffer) + Len(wal) + Cardinality(discarded) + Cardinality(dropped)
Places == {p.item : p \in pushing} \cup Stored \cup ToSet(batch) \cup ToSet(wal_buffer)
            \cup ToSet(wal) \cup discarded \cup dropped

\* lockfree_queue.h and persistBatch: every item handed over is in exactly one
\* place - on its way into the queue, in a slot, in the worker's batch, in the
\* log, thrown away by flush or swallowed by a closed file - however producers,
\* worker and owner interleave on the two counters and the slots.
ExactlyOnce ==
    /\ {<<x.by, x.n>> : x \in Places} =
         UNION {{t} \X (1 .. sent[t]) : t \in Producers}
    /\ Count = SumFunctionOnSet(sent, Producers)

\* persistBatch: a producer's records reach the log in the order it handed them
\* over, except that orders overtake earlier trades, as they are written first.
\* A slot two pushes or two pops wait for gives no such order.
WalOrder ==
    \A i, j \in 1 .. Len(wal) :
        i < j /\ wal[i].by = wal[j].by /\ wal[i].n > wal[j].n
          => lapped \/ (IsOrder(wal[i]) /\ IsTrade(wal[j]))

\* Between any two steps no record is lost, doubled or overtaken where it must not be,
\* and the batch keeps its size.
RecordsReachLog == TypeOK /\ ExactlyOnce /\ WalOrder

WorkerGone == worker \in {"none", "exited"}

\* persistence_async.h "non-blocking": while a worker is there, a push that found
\* its slot taken returns and an item that was stored is taken out, whatever
\* flush and stop do meanwhile and whoever waits at a slot.
QueueMoves ==
    /\ \A t \in Producers : Pushing(t) ~> (~Pushing(t) \/ WorkerGone)
    /\ \A i \in Slots : buffer_[i] # NoItem ~> (buffer_[i] = NoItem \/ WorkerGone)
-----------------------------------------------------------------------------
(* What the comments say, and the code does not do.                        *)

\* persistence_async.cpp:54, stop waits for the worker for at most a second.
StopReturns == owner = "join" ~> owner # "join"
=============================================================================
