---------------------------- MODULE EventStreams ----------------------------
(***************************************************************************)
(* EventStreamProcessor and the two read sides it feeds: the CQRSManager   *)
(* of event_sourcing_advanced.cpp (commands to the event sourcing engine,  *)
(* a cache of orders) and the TradingServiceCQRS (views of orders).  Both  *)
(* subscribe a handler and start a worker that, every 10 ms, reads the     *)
(* events after last_processed_ back from the log and hands them over.     *)
(*                                                                         *)
(* The n-th event of the log is the number n.  append_event counts an      *)
(* event (latest_sequence_) before it is in the file.  Event::serialize    *)
(* writes the type as a character and no event can be read back            *)
(* (EventSourcedEngine!Readable): get_events throws when the file has any  *)
(* event, whatever range is asked for.  An exception that leaves a worker  *)
(* ends the program (std::terminate); one in a thread that calls           *)
(* process_new_events itself is that thread's caller's.                    *)
(***************************************************************************)
EXTENDS Integers, FiniteSets

CONSTANTS
  Readers,        \* "manager", "service": what Init chooses from
  Commands,       \* the commands clients give the manager
  MaxLog,         \* bound: events in the log
  MaxStreams      \* bound: how often processing is started

ASSUME StreamsAssumption ==
  /\ Readers \subseteq {"manager", "service"}
  /\ MaxLog \in Nat /\ MaxStreams \in Nat

VARIABLES
  reader,             \* which read side the program has
  reader_state,       \* "new", "failed", "up", "serving"; destroyed
                      \* while serving "stopping" and "stopped", else
                      \* "closing" and "closed"
  owns_event_store_,  \* the service made its own store
  store_deleted,      \* and deleted it
  latest_sequence_, written, \* events counted, events in the file
  to_publish,         \* events of the command in progress still to append
  program,            \* "up" or "terminated"
  processing_, streams,      \* the flag, and how often it was set
  thread,             \* the worker and a caller of process_new_events
  last_processed_, events_processed_,
  views               \* the events the read side's cache or views show

storeStreamVars == <<latest_sequence_, written, to_publish>>
readerVars == <<reader, reader_state, owns_event_store_, store_deleted>>
streamVars == <<processing_, streams, thread, last_processed_, events_processed_, views>>
streamsVars == <<readerVars, storeStreamVars, program, streamVars>>

StreamThreads == {"worker", "caller"}

\* at: "none", "look" (about to look for new events), "read" (has found that
\* there are some, up to current), "thrown" (the caller got the exception)
NoThread == [at |-> "none", current |-> 0]

StreamsInit ==
  /\ reader \in Readers
  /\ reader_state = "new"
  /\ owns_event_store_ \in IF reader = "service" THEN BOOLEAN ELSE {FALSE}
  /\ store_deleted = FALSE
  /\ latest_sequence_ = 0 /\ written = 0 /\ to_publish = 0
  /\ program = "up"
  /\ processing_ = FALSE /\ streams = 0
  /\ thread = [t \in StreamThreads |-> NoThread]
  /\ last_processed_ = 0 /\ events_processed_ = 0
  /\ views = {}

Readable == FALSE

Throws == written > 0 /\ ~Readable
-----------------------------------------------------------------------------
(* The write side *)

\* CommandHandler::validate_command.  A command: its type, and whether its
\* ids, its price and its quantity are all positive.
ValidCommand(c) == c.positive

\* What the engine publishes of a placed order: a rejection, a placement, or
\* a placement, a match and the trade.  Of a cancellation, nothing: the
\* engine finds no order.  The cache's store is the engine's.
Published(c) == IF ValidCommand(c) /\ c.type = "PLACE" THEN {1, 3} ELSE {0}

\* CQRSManager::execute_command
ExecuteCommand(c) ==
  /\ program = "up"
  /\ to_publish = 0
  /\ reader = "manager" /\ reader_state \in {"new", "up"}
  /\ \E n \in Published(c) : /\ latest_sequence_ + n <= MaxLog
                             /\ to_publish' = n
  /\ UNCHANGED <<readerVars, latest_sequence_, written, program, streamVars>>

\* The service's store is another program part's, which appends to it, or
\* its own, which nobody appends to: submitting publishes nothing.
PublishElsewhere ==
  /\ program = "up"
  /\ to_publish = 0
  /\ reader = "service" /\ ~owns_event_store_
  /\ latest_sequence_ < MaxLog
  /\ to_publish' = 1
  /\ UNCHANGED <<readerVars, latest_sequence_, written, program, streamVars>>

\* append_event, under event_log_mutex_: the sequence, then the file
CountEvent ==
  /\ program = "up"
  /\ to_publish > 0 /\ latest_sequence_ = written
  /\ latest_sequence_' = latest_sequence_ + 1
  /\ UNCHANGED <<readerVars, written, to_publish, program, streamVars>>

WriteEvent ==
  /\ program = "up"
  /\ latest_sequence_ > written
  /\ written' = latest_sequence_
  /\ to_publish' = to_publish - 1
  /\ UNCHANGED <<readerVars, latest_sequence_, program, streamVars>>
-----------------------------------------------------------------------------
(* The stream *)

CanStart == program = "up" /\ ~processing_ /\ thread["worker"].at = "none" /\ streams < MaxStreams

\* EventStreamProcessor::start_processing, from sequence 0
Started ==
  /\ processing_' = TRUE
  /\ streams' = streams + 1
  /\ last_processed_' = 0
  /\ thread' = [thread EXCEPT !["worker"].at = "look"]
  /\ UNCHANGED <<events_processed_, views>>

\* CQRSManager: the constructor subscribes; start_cache_update starts.  It
\* may be called again after stop_cache_update.
StartCacheUpdate ==
  /\ CanStart
  /\ reader = "manager" /\ reader_state \in {"new", "up"}
  /\ reader_state' = "up"
  /\ Started
  /\ UNCHANGED <<reader, owns_event_store_, store_deleted, storeStreamVars, program>>

\* TradingServiceCQRS: the constructor rebuilds the views from the log, which
\* throws when the log has any event; initialize subscribes and starts.
InitializeService ==
  /\ CanStart
  /\ reader = "service" /\ reader_state = "new"
  /\ IF Throws
     THEN reader_state' = "failed" /\ UNCHANGED streamVars
     ELSE reader_state' = "up" /\ Started
  /\ UNCHANGED <<reader, owns_event_store_, store_deleted, storeStreamVars, program>>

\* start: the gRPC server comes up and running_ is set, or it does not
StartServing ==
  /\ program = "up"
  /\ reader = "service" /\ reader_state = "up"
  /\ reader_state' = "serving"
  /\ UNCHANGED <<reader, owns_event_store_, store_deleted, storeStreamVars, program, streamVars>>

\* A thread calls process_new_events itself, as the benchmark does while it
\* waits for the worker.
CallProcess ==
  /\ program = "up"
  /\ thread["caller"].at = "none"
  /\ reader_state \in {"up", "serving"}
  /\ thread' = [thread EXCEPT !["caller"].at = "look"]
  /\ UNCHANGED <<readerVars, storeStreamVars, program, processing_, streams,
                 last_processed_, events_processed_, views>>

\* where a thread goes from process_new_events
Returned(t) == IF t = "caller" THEN NoThread ELSE [NoThread EXCEPT !.at = "look"]

\* where it goes when it finds processing_ clear
Left(t) == NoThread

\* process_new_events: processing_, then latest_sequence_ against
\* last_processed_.  The worker leaves its loop when processing_ is clear.
Look(t) ==
  /\ program = "up"
  /\ thread[t].at = "look"
  /\ thread' = [thread EXCEPT ![t] =
       IF ~processing_ THEN Left(t)
       ELSE IF last_processed_ + 1 > latest_sequence_ THEN Returned(t)
       ELSE [at |-> "read", current |-> latest_sequence_]]
  /\ UNCHANGED <<readerVars, storeStreamVars, program, processing_, streams,
                 last_processed_, events_processed_, views>>

\* get_events and the handlers.  A file with no event yet gives none, and
\* what was counted but not written is passed over.
ReadEvents(t) ==
  /\ program = "up"
  /\ thread[t].at = "read"
  /\ LET read == {n \in 1 .. written : last_processed_ < n /\ n <= thread[t].current}
     IN IF Throws
        THEN /\ program' = IF t = "worker" THEN "terminated" ELSE program
             /\ thread' = [thread EXCEPT ![t].at = "thrown"]
             /\ UNCHANGED <<last_processed_, events_processed_, views>>
        ELSE /\ views' = views \cup read
             /\ events_processed_' = events_processed_ + Cardinality(read)
             /\ last_processed_' = thread[t].current
             /\ thread' = [thread EXCEPT ![t] = Returned(t)]
             /\ UNCHANGED program
  /\ UNCHANGED <<readerVars, storeStreamVars, processing_, streams>>

\* stop_cache_update, stopViewUpdate: the flag; the join is the worker's end
StopProcessing ==
  /\ program = "up"
  /\ processing_
  /\ processing_' = FALSE
  /\ UNCHANGED <<readerVars, storeStreamVars, program, streams, thread,
                 last_processed_, events_processed_, views>>
-----------------------------------------------------------------------------
(* The destructors *)

FlagAfterStopSlip == processing_

FlagAfterStop == IF reader_state = "serving" THEN FALSE ELSE processing_

\* ~TradingServiceCQRS: stop() does nothing unless running_
Destroy ==
  /\ program = "up"
  /\ reader_state \in {"up", "serving"}
  /\ thread["caller"].at \in {"none", "thrown"}
  /\ reader_state' = IF reader_state = "serving" THEN "stopping" ELSE "closing"
  /\ processing_' = FlagAfterStop
  /\ UNCHANGED <<reader, owns_event_store_, store_deleted, storeStreamVars, program,
                 streams, thread, last_processed_, events_processed_, views>>

\* stop() joins the worker it told to stop; the body of the destructor then
\* deletes the store
DeleteStore ==
  /\ program = "up"
  /\ reader_state \in {"stopping", "closing"}
  /\ processing_ \/ thread["worker"].at = "none"
  /\ store_deleted' = owns_event_store_
  /\ reader_state' = IF reader_state = "stopping" THEN "stopped" ELSE "closed"
  /\ UNCHANGED <<reader, owns_event_store_, storeStreamVars, program, streamVars>>

\* the members go after the body, the processor with its own stop
DestroyMembers ==
  /\ program = "up"
  /\ reader_state \in {"stopped", "closed"}
  /\ processing_
  /\ processing_' = FALSE
  /\ UNCHANGED <<readerVars, storeStreamVars, program, streams, thread,
                 last_processed_, events_processed_, views>>

\* A worker that uses the deleted store may end the program; or what it reads
\* there is still what it was (Look, ReadEvents).
UseDeletedStore ==
  /\ program = "up"
  /\ store_deleted /\ processing_
  /\ thread["worker"].at # "none"
  /\ program' = "terminated"
  /\ UNCHANGED <<readerVars, storeStreamVars, streamVars>>

StreamsStep ==
  \/ \E c \in Commands : ExecuteCommand(c)
  \/ PublishElsewhere \/ CountEvent \/ WriteEvent
  \/ StartCacheUpdate \/ InitializeService \/ StartServing
  \/ CallProcess \/ StopProcessing
  \/ Destroy \/ DeleteStore \/ DestroyMembers \/ UseDeletedStore

StreamsNext ==
  \/ StreamsStep
  \/ \E t \in StreamThreads : Look(t) \/ ReadEvents(t)

\* The worker runs; append_event ends once it has begun.
StreamsFairness ==
  /\ WF_streamsVars(Look("worker") \/ ReadEvents("worker"))
  /\ WF_streamsVars(WriteEvent)

StreamsSpec == StreamsInit /\ [][StreamsNext]_streamsVars /\ StreamsFairness
-----------------------------------------------------------------------------
\* Type correctness.
StreamsTypeOK ==
  /\ reader_state \in {"new", "failed", "up", "serving", "stopping", "stopped",
                      "closing", "closed"}
  /\ written <= latest_sequence_ /\ latest_sequence_ <= written + 1
  /\ latest_sequence_ + to_publish <= MaxLog + 1
  /\ program \in {"up", "terminated"}
  /\ \A t \in StreamThreads : /\ thread[t].at \in {"none", "look", "read", "thrown"}
                              /\ thread[t].current <= latest_sequence_
  /\ last_processed_ <= latest_sequence_

\* The race of append_event with the stream: of all the events of the log the
\* stream can get past the first one only, and only by looking between its
\* count and its write; the views show none of them.
StreamStopsAtFirst ==
  /\ last_processed_ <= 1
  /\ views = {} /\ events_processed_ = 0

\* A service whose gRPC server came up stops its worker before the store it
\* owns goes.  (initialize without a successful start leaves a worker that
\* reads the deleted store.)
StoreOutlivesWorker ==
  reader_state = "stopped" => thread["worker"].at = "none" /\ program = "up"

\* What a stream does before it ends.
StreamsSound == StreamsTypeOK /\ StreamStopsAtFirst /\ StoreOutlivesWorker

\* An event the worker has not got past stops the stream for good or the
\* program: it is never just left unread.
UnreadEventEndsStream ==
  (written > last_processed_ /\ processing_ /\ thread["worker"].at # "none") ~>
     (program = "terminated" \/ ~processing_)

\* The worker leaves when it is told to: stop_processing returns, unless the
\* program has ended.
StopReturns ==
  (~processing_ /\ thread["worker"].at # "none") ~>
     (thread["worker"].at = "none" \/ processing_ \/ program = "terminated")
=============================================================================
