CONSTANTS
  Appenders = {a1, a2}
  MaxAppends = 2
  MaxBatch = 2
  Readers = {"manager", "service"}
  Commands <- SomeCommands
  MaxLog = 4
  MaxStreams = 2
  Callers = {c1}
  Strategies = {"NONE", "SNAPSHOT_ONLY", "SNAPSHOT_AND_DELETE", "ARCHIVE"}
  SequenceWidth = 4
  compression_interval_ = 2
  retention_sequence_ = 1
  MaxSequence = 4
  MaxCompressions = 2
  VersionWidth = 2
  MaxRegistered = 2
  VersionedEvents <- SomeEvents
SPECIFICATION Spec
INVARIANTS ReplicationSound  VersionsSound
PROPERTIES CompressionSound ThreadsMove
CHECK_DEADLOCK FALSE
