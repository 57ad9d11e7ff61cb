-------------------------- MODULE EventReplication --------------------------
(***************************************************************************)
(* DistributedEventStore: an event is appended to the local store and then *)
(* put on replication_queue_, under another mutex; a worker takes up to    *)
(* MaxBatch events at a time off the queue, hands each to replicate_event, *)
(* and sleeps.  replicate_event sends nothing yet, and answers true: what  *)
(* is modelled is which events it is called for, and in which order.       *)
(*                                                                         *)
(* The n-th event of appender a is <<a, n>>.  The store is destroyed after *)
(* the appenders have returned from append_event.                          *)
(***************************************************************************)
EXTENDS Integers, Sequences, SequencesExt, FiniteSets

CONSTANTS
  Appenders,      \* the threads that append
  MaxAppends,     \* bound: events of one appender
  MaxBatch        \* events the worker takes at once (100 in the code)

ASSUME ReplicationAssumption == MaxAppends \in Nat /\ MaxBatch \in Nat \ {0}

VARIABLES
  store_state,          \* "new", "failed" or "open" once initialized,
                        \* "joining" and "gone" when destroyed
  log,                  \* the events of the local store
  appended,             \* per appender, the events it has appended
  unqueued,             \* per appender, appended but not yet queued (<<>> or one)
  replication_queue_,
  replication_running_,
  replication_worker,   \* "none", "look", "replicate", "sleep", "returned"
  events_to_replicate,  \* the worker's batch
  replicated            \* the events replicate_event was called for

replicationVars == <<store_state, log, appended, unqueued, replication_queue_,
  replication_running_, replication_worker, events_to_replicate, replicated>>

ReplicationInit ==
  /\ store_state = "new"
  /\ log = <<>> /\ replicated = <<>>
  /\ appended = [a \in Appenders |-> 0]
  /\ unqueued = [a \in Appenders |-> <<>>]
  /\ replication_queue_ = <<>> /\ events_to_replicate = <<>>
  /\ replication_running_ = FALSE
  /\ replication_worker = "none"

\* The local store opens its log, and the worker starts, or neither.
InitializeStore ==
  /\ store_state = "new"
  /\ \/ /\ store_state' = "open"
        /\ replication_running_' = TRUE
        /\ replication_worker' = "look"
     \/ /\ store_state' = "failed"
        /\ UNCHANGED <<replication_running_, replication_worker>>
  /\ UNCHANGED <<log, appended, unqueued, replication_queue_,
                 events_to_replicate, replicated>>

\* append_event to a store that did not open is refused and changes nothing.
AppendLocal(a) ==
  /\ store_state = "open"
  /\ unqueued[a] = <<>>
  /\ appended[a] < MaxAppends
  /\ LET e == <<a, appended[a] + 1>>
     IN /\ log' = Append(log, e)
        /\ unqueued' = [unqueued EXCEPT ![a] = <<e>>]
  /\ appended' = [appended EXCEPT ![a] = @ + 1]
  /\ UNCHANGED <<store_state, replication_queue_, replication_running_,
                 replication_worker, events_to_replicate, replicated>>

QueueForReplication(a) ==
  /\ unqueued[a] # <<>>
  /\ replication_queue_' = replication_queue_ \o unqueued[a]
  /\ unqueued' = [unqueued EXCEPT ![a] = <<>>]
  /\ UNCHANGED <<store_state, log, appended, replication_running_,
                 replication_worker, events_to_replicate, replicated>>

BatchSize == IF Len(replication_queue_) < MaxBatch THEN Len(replication_queue_)
             ELSE MaxBatch

LeftInQueueSlip ==
  SubSeq(replication_queue_, IF BatchSize = 0 THEN 1 ELSE BatchSize, Len(replication_queue_))

LeftInQueue == SubSeq(replication_queue_, BatchSize + 1, Len(replication_queue_))

\* the top of the worker's loop: the flag, then a batch under replication_mutex_
TakeBatch ==
  /\ replication_worker = "look"
  /\ IF replication_running_
     THEN /\ replication_worker' = "replicate"
          /\ events_to_replicate' = SubSeq(replication_queue_, 1, BatchSize)
          /\ replication_queue_' = LeftInQueue
     ELSE /\ replication_worker' = "returned"
          /\ UNCHANGED <<events_to_replicate, replication_queue_>>
  /\ UNCHANGED <<store_state, log, appended, unqueued, replication_running_,
                 replicated>>

ReplicateEvent ==
  /\ replication_worker = "replicate"
  /\ IF events_to_replicate = <<>>
     THEN /\ replication_worker' = "sleep"
          /\ UNCHANGED <<events_to_replicate, replicated>>
     ELSE /\ replicated' = Append(replicated, Head(events_to_replicate))
          /\ events_to_replicate' = Tail(events_to_replicate)
          /\ UNCHANGED replication_worker
  /\ UNCHANGED <<store_state, log, appended, unqueued, replication_queue_,
                 replication_running_>>

WakeReplication ==
  /\ replication_worker = "sleep"
  /\ replication_worker' = "look"
  /\ UNCHANGED <<store_state, log, appended, unqueued, replication_queue_,
                 replication_running_, events_to_replicate, replicated>>

\* The destructor clears the flag and joins; what is queued then is dropped
\* with the queue.
DestroyStore ==
  /\ store_state = "open"
  /\ \A a \in Appenders : unqueued[a] = <<>>
  /\ replication_running_' = FALSE
  /\ store_state' = "joining"
  /\ UNCHANGED <<log, appended, unqueued, replication_queue_,
                 replication_worker, events_to_replicate, replicated>>

JoinReplication ==
  /\ store_state = "joining"
  /\ replication_worker = "returned"
  /\ store_state' = "gone"
  /\ UNCHANGED <<log, appended, unqueued, replication_queue_, replication_running_,
                 replication_worker, events_to_replicate, replicated>>

ReplicationWorker == TakeBatch \/ ReplicateEvent \/ WakeReplication

ReplicationNext ==
  \/ InitializeStore
  \/ \E a \in Appenders : AppendLocal(a) \/ QueueForReplication(a)
  \/ ReplicationWorker
  \/ DestroyStore \/ JoinReplication

\* The worker is a thread that never waits but for its sleep; an appender
\* that has appended goes on to queue; join returns when the worker has.
ReplicationFairness ==
  /\ WF_replicationVars(ReplicationWorker)
  /\ \A a \in Appenders : WF_replicationVars(QueueForReplication(a))
  /\ WF_replicationVars(JoinReplication)

ReplicationSpec == ReplicationInit /\ [][ReplicationNext]_replicationVars /\ ReplicationFairness
-----------------------------------------------------------------------------
Events == {<<a, n>> : a \in Appenders, n \in 1 .. MaxAppends}

\* Type correctness.
ReplicationTypeOK ==
  /\ store_state \in {"new", "failed", "open", "joining", "gone"}
  /\ \A q \in {log, replication_queue_, events_to_replicate, replicated} :
       q \in Seq(Events)
  /\ appended \in [Appenders -> 0 .. MaxAppends]
  /\ unqueued \in [Appenders -> {<<>>} \cup {<<e>> : e \in Events}]
  /\ replication_worker \in {"none", "look", "replicate", "sleep", "returned"}
  /\ Len(events_to_replicate) <= MaxBatch
  /\ replication_worker # "replicate" => events_to_replicate = <<>>

\* Append and worker interleaved: each event of the log is in one place, on
\* its way to the queue, queued, in the worker's batch or replicated, and
\* there once.  So nothing is replicated twice, and all a destroyed store
\* loses is what its queue held.
QueuedOn == replicated \o events_to_replicate \o replication_queue_

ReplicatedOnce ==
  LET onItsWay == {e \in Events : \E a \in Appenders : unqueued[a] = <<e>>}
  IN /\ IsInjective(QueuedOn)
     /\ ToSet(QueuedOn) \cap onItsWay = {}
     /\ ToSet(QueuedOn) \cup onItsWay = ToSet(log)
     /\ IsInjective(log)

\* The log and the queue have mutexes of their own, so the replicas may see
\* the events of two appenders in another order than the log has; the events
\* of one appender they see in order, and without a gap: when one comes, each
\* that its appender appended before it has come.
AppenderOrderKept ==
  \A i \in DOMAIN replicated : \A n \in 1 .. replicated[i][2] - 1 :
    \E j \in 1 .. i - 1 : replicated[j] = <<replicated[i][1], n>>

\* All of it, wherever appenders and worker are.
ReplicationSound == ReplicationTypeOK /\ ReplicatedOnce /\ AppenderOrderKept

\* An event in the log of a store that stays open is replicated in the end,
\* though the worker sleeps between batches.
EveryEventReplicated ==
  \A e \in Events :
    (e \in ToSet(log) /\ store_state = "open") ~>
      (e \in ToSet(replicated) \/ store_state # "open")

\* The destructor returns.
DestructorReturns == store_state = "joining" ~> store_state = "gone"
=============================================================================
