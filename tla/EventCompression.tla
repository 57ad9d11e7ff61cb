-------------------------- MODULE EventCompression --------------------------
(***************************************************************************)
(* EventCompressor (event_sourcing_advanced.cpp): compress_events, called  *)
(* by the program's threads and by a background worker, which wakes every  *)
(* ten minutes and compresses what is older than compression_interval_.    *)
(*                                                                         *)
(* The worker keeps compression_mutex_ while it calls compress_events,     *)
(* which locks it again: from then on the worker waits for itself (a       *)
(* second lock of a std::mutex by its holder is undefined; in this build   *)
(* the thread stops there).  Sequences are unsigned numbers of Width bits, *)
(* so what is older than the interval in a log shorter than it is nearly   *)
(* the largest number.                                                     *)
(***************************************************************************)
EXTENDS Integers, FiniteSets

CONSTANTS
  Callers,                 \* threads that call compress_events
  Strategies,              \* the strategies the program may have set
  SequenceWidth,           \* bits of a SequenceID
  compression_interval_, retention_sequence_,
  MaxSequence,             \* bound: events in the store
  MaxCompressions          \* bound: calls of compress_events, per caller

ASSUME CompressionAssumption ==
  /\ Strategies \subseteq {"NONE", "SNAPSHOT_ONLY", "SNAPSHOT_AND_DELETE", "ARCHIVE"}
  /\ SequenceWidth \in Nat /\ compression_interval_ \in Nat
  /\ retention_sequence_ \in Nat /\ MaxSequence \in Nat /\ MaxCompressions \in Nat

\* Intervals and logs are short of the largest sequence (2^64 - 1 in the code).
ASSUME RangeAssumption ==
  /\ 2^SequenceWidth \in Nat
  /\ MaxSequence < 2^SequenceWidth
  /\ compression_interval_ + retention_sequence_ < 2^SequenceWidth

VARIABLES
  strategy_,
  current_sequence,        \* the store's latest_sequence
  compression_mutex_,      \* its holder, or "nobody"
  running_,
  compressor,              \* the worker: "none", "loop", "waits", "woken",
                           \* "self" (waits for itself), "returned"
  stopping,                \* stop_background_compression is joining
  last_compressed,         \* the worker's local
  compressing,             \* per caller: "idle" or "called", and up to where
  calls,                   \* per caller: calls made
  compressed_count,        \* per caller: what the last call returned
  snapshots                \* the sequences whose file was written

workerVars == <<running_, compressor, stopping, last_compressed>>
compressionVars == <<strategy_, current_sequence, compression_mutex_, workerVars,
                     compressing, calls, compressed_count, snapshots>>

CompressionInit ==
  /\ strategy_ \in Strategies
  /\ current_sequence = 0
  /\ compression_mutex_ = "nobody"
  /\ running_ = FALSE /\ compressor = "none" /\ stopping = FALSE
  /\ last_compressed = 0
  /\ compressing = [c \in Callers |-> [at |-> "idle", upTo |-> 0]]
  /\ calls = [c \in Callers |-> 0]
  /\ compressed_count = [c \in Callers |-> 0]
  /\ snapshots = {}

StoreGrows ==
  /\ current_sequence < MaxSequence
  /\ current_sequence' = current_sequence + 1
  /\ UNCHANGED <<strategy_, compression_mutex_, workerVars, compressing, calls,
                 compressed_count, snapshots>>

\* compress_events is called, and waits for the mutex
CallCompress(c, upTo) ==
  /\ compressing[c].at = "idle"
  /\ calls[c] < MaxCompressions
  /\ calls' = [calls EXCEPT ![c] = @ + 1]
  /\ compressing' = [compressing EXCEPT ![c] = [at |-> "called", upTo |-> upTo]]
  /\ UNCHANGED <<strategy_, current_sequence, compression_mutex_, workerVars,
                 compressed_count, snapshots>>

\* create_snapshot, archive_events: the file opens or not
FileOpens(upTo) == snapshots' = snapshots \cup {upTo}
FileFails == UNCHANGED snapshots

\* what compress_events returns when the file was or was not written
CountReturnedSlip(upTo, wrote) == upTo

CountReturned(upTo, wrote) ==
  IF wrote \/ strategy_ = "SNAPSHOT_ONLY" THEN upTo ELSE 0

HolderAfterSlip(c) == IF compressed_count'[c] = 0 THEN c ELSE "nobody"

HolderAfter(c) == "nobody"

\* archive_events reads the events back, which throws unless there are none
\* (EventSourcedEngine!Readable); the lock goes as the exception does.
Compress(c) ==
  LET upTo == compressing[c].upTo
  IN /\ compressing[c].at = "called"
     /\ compression_mutex_ = "nobody"
     /\ \/ /\ strategy_ = "NONE" \/ (strategy_ = "ARCHIVE" /\ current_sequence > 0)
           /\ FileFails
           /\ compressed_count' = [compressed_count EXCEPT ![c] = 0]
        \/ /\ ~(strategy_ = "NONE" \/ (strategy_ = "ARCHIVE" /\ current_sequence > 0))
           /\ \/ /\ FileOpens(upTo)
                 /\ compressed_count' = [compressed_count EXCEPT ![c] = CountReturned(upTo, TRUE)]
              \/ /\ FileFails
                 /\ compressed_count' = [compressed_count EXCEPT ![c] = CountReturned(upTo, FALSE)]
     /\ compression_mutex_' = HolderAfter(c)
     /\ compressing' = [compressing EXCEPT ![c].at = "idle"]
     /\ UNCHANGED <<strategy_, current_sequence, workerVars, calls>>
-----------------------------------------------------------------------------
StartBackground ==
  /\ ~running_ /\ ~stopping /\ compressor = "none"
  /\ running_' = TRUE
  /\ compressor' = "loop"
  /\ UNCHANGED <<strategy_, current_sequence, compression_mutex_, stopping,
                 last_compressed, compressing, calls, compressed_count, snapshots>>

\* the flag and the notification, without the mutex; then the join
StopBackground ==
  /\ running_ /\ ~stopping
  /\ running_' = FALSE
  /\ stopping' = TRUE
  /\ UNCHANGED <<strategy_, current_sequence, compression_mutex_, compressor,
                 last_compressed, compressing, calls, compressed_count, snapshots>>

JoinCompressor ==
  /\ stopping
  /\ compressor = "returned"
  /\ stopping' = FALSE
  /\ compressor' = "none"
  /\ last_compressed' = 0
  /\ UNCHANGED <<strategy_, current_sequence, compression_mutex_, running_,
                 compressing, calls, compressed_count, snapshots>>

\* the worker locks the mutex and begins to wait, which gives it back
BeginWait ==
  /\ compressor = "loop"
  /\ IF running_ THEN compression_mutex_ = "nobody" /\ compressor' = "waits"
     ELSE compressor' = "returned"
  /\ UNCHANGED <<strategy_, current_sequence, compression_mutex_, running_, stopping,
                 last_compressed, compressing, calls, compressed_count, snapshots>>

\* notified or after ten minutes, with the mutex again; without running_ the
\* worker leaves the loop and unlocks
WakeCompressor ==
  /\ compressor = "waits"
  /\ compression_mutex_ = "nobody"
  /\ IF running_ THEN compression_mutex_' = "worker" /\ compressor' = "woken"
     ELSE compressor' = "returned" /\ UNCHANGED compression_mutex_
  /\ UNCHANGED <<strategy_, current_sequence, running_, stopping, last_compressed,
                 compressing, calls, compressed_count, snapshots>>

CompressTo == (current_sequence - compression_interval_) % 2^SequenceWidth

\* nothing to compress, and around the loop; or compress_events, by itself
CompressOld ==
  /\ compressor = "woken"
  /\ IF CompressTo > last_compressed /\ CompressTo > retention_sequence_
     THEN compressor' = "self" /\ UNCHANGED compression_mutex_
     ELSE compressor' = "loop" /\ compression_mutex_' = "nobody"
  /\ UNCHANGED <<strategy_, current_sequence, running_, stopping, last_compressed,
                 compressing, calls, compressed_count, snapshots>>

CompressionWorker == BeginWait \/ WakeCompressor \/ CompressOld

CompressionNext ==
  \/ StoreGrows
  \/ \E c \in Callers : Compress(c) \/ \E upTo \in 1 .. MaxSequence : CallCompress(c, upTo)
  \/ StartBackground \/ StopBackground \/ JoinCompressor
  \/ CompressionWorker

\* The worker and the callers run; whoever waits for the mutex gets it if it
\* is free again and again.
CompressionFairness ==
  /\ WF_compressionVars(JoinCompressor)
  /\ SF_compressionVars(CompressionWorker)
  /\ \A c \in Callers : SF_compressionVars(Compress(c))

CompressionSpec == CompressionInit /\ [][CompressionNext]_compressionVars /\ CompressionFairness
-----------------------------------------------------------------------------
\* Type correctness.
CompressionTypeOK ==
  /\ compression_mutex_ \in {"nobody", "worker"}
  /\ compressor \in {"none", "loop", "waits", "woken", "self", "returned"}
  /\ compressing \in [Callers -> [at : {"idle", "called"}, upTo : 0 .. MaxSequence]]
  /\ compressed_count \in [Callers -> 0 .. MaxSequence]
  /\ snapshots \subseteq 1 .. MaxSequence
  /\ stopping => ~running_

\* A log exactly one interval long is all that keeps a worker that woke from
\* waiting for itself: in a log that is shorter compress_to wraps round.
WokenStops ==
  [][compressor = "woken" /\ compressor' = "loop" =>
       current_sequence = compression_interval_
       \/ (compression_interval_ < current_sequence
             /\ current_sequence <= compression_interval_ + retention_sequence_)]_compressionVars

\* compress_events under failing files: but for SNAPSHOT_ONLY, which counts
\* what it failed to save, a count is returned only for a file that exists.
CountHasFile ==
  strategy_ # "SNAPSHOT_ONLY" =>
    \A c \in Callers : compressed_count[c] > 0 => compressed_count[c] \in snapshots

\* What compress_events answers, and what becomes of a worker that wakes.
CompressionSound == [](CompressionTypeOK /\ CountHasFile) /\ WokenStops

\* stop_background_compression returns, even if its notification comes before
\* the worker waits, unless the worker waits for itself.
StopEnds == stopping ~> (~stopping \/ compressor = "self")

\* So does a call of compress_events, whatever the strategy and its outcome.
CompressEnds ==
  \A c \in Callers :
    compressing[c].at = "called" ~> (compressing[c].at = "idle" \/ compressor = "self")
=============================================================================
