---------------------------- MODULE EventVersions ----------------------------
(***************************************************************************)
(* EventVersionManager and VersionedEventStore: the schemas of one event   *)
(* type, and the version an event is given by migrate_to_version.  No      *)
(* migration function is applied: the event takes each version of the path *)
(* in turn.  A version is an unsigned number of VersionWidth bits: the     *)
(* path back to version 0 and the path up to the largest never end, since  *)
(* their counters wrap round.                                              *)
(*                                                                         *)
(* get_versioned_events hands nothing to the manager: no event can be read *)
(* back from the log (EventSourcedEngine!Readable).                        *)
(***************************************************************************)
EXTENDS Integers, FiniteSets

CONSTANTS
  VersionWidth,           \* bits of an EventVersion
  MaxRegistered,          \* bound: schemas registered
  VersionedEvents         \* events: version, min_supported_version, max_supported_version

Versions == 0 .. 2^VersionWidth - 1

ASSUME VersionAssumption ==
  /\ VersionWidth \in Nat \ {0} /\ 2^VersionWidth \in Nat /\ 2^VersionWidth > 1
  /\ MaxRegistered \in Nat
  /\ \A e \in VersionedEvents : {e.version, e.min, e.max} \subseteq Versions

VARIABLES
  schemas_,               \* the versions that have a schema
  current_versions_,      \* the current version
  registered,             \* schemas registered after the default one
  migrated                \* the last migration: event, target and result

versionVars == <<schemas_, current_versions_, registered, migrated>>

VersionsInit ==
  /\ schemas_ = {1}
  /\ current_versions_ = 1
  /\ registered = 0
  /\ migrated = <<>>

CurrentAfter(v) == IF v > current_versions_ THEN v ELSE current_versions_

RegisterSchema(v) ==
  /\ registered < MaxRegistered
  /\ registered' = registered + 1
  /\ schemas_' = schemas_ \cup {v}
  /\ current_versions_' = CurrentAfter(v)
  /\ UNCHANGED migrated

\* the versions an event takes on its way; `endless` when the path has no end
GetMigrationPath(from, to) ==
  IF from < to THEN [endless |-> to = 2^VersionWidth - 1, through |-> (from + 1) .. to]
  ELSE IF from > to THEN [endless |-> to = 0, through |-> to .. (from - 1)]
  ELSE [endless |-> FALSE, through |-> {}]

SupportsSlip(e, target) == TRUE

Supports(e, target) == e.min <= target /\ target <= e.max

\* the version of the result, or -1 when the path exhausts memory
MigrateToVersion(e, target) ==
  LET path == GetMigrationPath(e.version, target)
  IN IF e.version = target \/ ~Supports(e, target) THEN e.version
     ELSE IF path.endless THEN -1 ELSE target

Migrate(e, target) ==
  /\ migrated' = <<e, target, MigrateToVersion(e, target)>>
  /\ UNCHANGED <<schemas_, current_versions_, registered>>

MigrateToLatest(e) == Migrate(e, current_versions_)

VersionsNext ==
  \/ \E v \in Versions : RegisterSchema(v)
  \/ \E e \in VersionedEvents : MigrateToLatest(e) \/ \E v \in Versions : Migrate(e, v)

VersionsSpec == VersionsInit /\ [][VersionsNext]_versionVars
-----------------------------------------------------------------------------
\* Type correctness, and the current version is the highest of the schemas
\* registered, in whatever order they came.
VersionsTypeOK ==
  /\ schemas_ \subseteq Versions
  /\ current_versions_ \in schemas_
  /\ \A v \in schemas_ : v <= current_versions_

\* A migration changes the version only to the target, and only to one the
\* event supports; it has no end only on the way to the first or the last number.
MigrationWithinSupport ==
  migrated # <<>> =>
    LET e == migrated[1] target == migrated[2] result == migrated[3]
    IN /\ result \in {e.version, target, -1}
       /\ result # e.version => e.min <= target /\ target <= e.max
       /\ result = -1 => target \in {0, 2^VersionWidth - 1}

\* Versions only rise, and an event follows them only as far as it may.
VersionsSound == VersionsTypeOK /\ MigrationWithinSupport
=============================================================================
