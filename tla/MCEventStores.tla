---------------------------- MODULE MCEventStores ----------------------------
(* The four parts of event_sourcing_advanced.cpp for TLC.  They share no     *)
(* state, so each behaviour is one of subject's, and the others rest.        *)
EXTENDS EventReplication, EventStreams, EventCompression, EventVersions

VARIABLE subject

vars == <<subject, replicationVars, streamsVars, compressionVars, versionVars>>

Init ==
  /\ subject \in {"replication", "streams", "compression", "versions"}
  /\ ReplicationInit /\ StreamsInit /\ CompressionInit /\ VersionsInit
  /\ subject # "streams" => reader = "manager"
  /\ subject # "compression" => strategy_ = "NONE"

Next ==
  \/ /\ subject = "replication" /\ ReplicationNext
     /\ UNCHANGED <<subject, streamsVars, compressionVars, versionVars>>
  \/ /\ subject = "streams" /\ StreamsNext
     /\ UNCHANGED <<subject, replicationVars, compressionVars, versionVars>>
  \/ /\ subject = "compression" /\ CompressionNext
     /\ UNCHANGED <<subject, replicationVars, streamsVars, versionVars>>
  \/ /\ subject = "versions" /\ VersionsNext
     /\ UNCHANGED <<subject, replicationVars, streamsVars, compressionVars>>

Spec ==
  /\ Init /\ [][Next]_vars
  /\ subject = "replication" => ReplicationFairness
  /\ subject = "streams" => StreamsFairness
  /\ subject = "compression" => CompressionFairness

\* The threads of the four get where they go: what was appended or published is
\* dealt with or the stream ends, and a caller of stop or compress_events returns.
ThreadsMove ==
  /\ EveryEventReplicated /\ DestructorReturns
  /\ UnreadEventEndsStream /\ StopReturns
  /\ StopEnds /\ CompressEnds

\* A good order, a bad one, and a cancellation.
SomeCommands == {[type |-> "PLACE", positive |-> TRUE], [type |-> "PLACE", positive |-> FALSE],
                 [type |-> "CANCEL", positive |-> TRUE]}

\* Events of every version that support some of those there are.
SomeEvents == [version : Versions, min : {0, 1}, max : {2, 3}]
=============================================================================
