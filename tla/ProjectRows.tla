----------------------------- MODULE ProjectRows ----------------------------
(***************************************************************************)
(* The row of one project: the authored configuration with its immutable   *)
(* versions, and the status column the reconcilers own.  Every write is    *)
(* one transaction under a row lock, except the back-fill of versions,     *)
(* which reads the rows first and seeds them one by one.                   *)
(***************************************************************************)
EXTENDS Integers, FiniteSets

CONSTANTS
    Sizes,      \* slot counts
    TTLs,       \* default times to live; NoValue clears the field
    NoValue,
    Statuses,   \* what a reconciler reports
    NoProject,
    Legacy,     \* configurations written before versions were kept
    Authored    \* configurations clients register

\* An authored configuration: the slot count, its mirror under the workload identities
\* if that map exists, the default time to live, the retired array of slots, and
\* whether status keys of a read came back with it.
Configs ==
    [count : Sizes, mirror : Sizes \union {NoValue}, ttl : TTLs \union {NoValue},
     slots : BOOLEAN, status : BOOLEAN]

Reconcilers == {"workload_identity", "managed_origin"}
NoStatus == [r \in Reconcilers |-> NoValue]

VARIABLES
    project,    \* NoProject, or its authored config, status and version reference
    versions,   \* project_config_schemas, each named by its content
    backfill    \* the configuration the back-fill read, or NoValue

vars == <<project, versions, backfill>>

\* stripServerManagedStatus.
Strip(config) == [config EXCEPT !.status = FALSE]

\* projectConfigSchemaRef: a version is named by the hash of its content.
VersionOf(config) == Strip(config)

\* Before the first start with versions: no project, or a row from before them.
Init ==
    /\ \/ project = NoProject
       \/ \E config \in Legacy :
             project = [config |-> config, status |-> NoStatus, ref |-> NoValue]
    /\ versions = {}
    /\ backfill = NoValue

\* mutant: the row is written whole
FreshStatus == NoStatus

\* The status column is not in the update set.
StatusOfRow == IF project = NoProject THEN NoStatus ELSE project.status

\* ProjectsStore.Upsert.
Upsert(config) ==
    /\ project' = [config |-> Strip(config), status |-> StatusOfRow, ref |-> VersionOf(config)]
    /\ versions' = versions \union {VersionOf(config)}
    /\ UNCHANGED backfill

\* mutateProject: a change of the configuration mints a version too.
Mutate(config) ==
    /\ project # NoProject
    /\ project' = [project EXCEPT !.config = Strip(config), !.ref = VersionOf(config)]
    /\ versions' = versions \union {VersionOf(config)}
    /\ UNCHANGED backfill

\* SetTestEnvironmentCount: the mirror follows where its map exists.
SetTestEnvironmentCount(n) ==
    Mutate([project.config EXCEPT !.count = n, !.slots = FALSE,
                                  !.mirror = IF @ = NoValue THEN @ ELSE n])

\* SetTestLeaseDefaultTTL, SetTestLeaseHotSwapMinTTL.
SetTestLeaseDefaultTTL(ttl) == Mutate([project.config EXCEPT !.ttl = ttl])

StripLegacySlotsArray == Mutate([project.config EXCEPT !.slots = FALSE])

\* mutateStatus: configuration and version stay.
SetStatus(reconciler, status) ==
    /\ project # NoProject
    /\ project' = [project EXCEPT !.status[reconciler] = status]
    /\ UNCHANGED <<versions, backfill>>

\* BackfillConfigSchemas: the rows without a version ...
BackfillSelect ==
    /\ backfill = NoValue /\ project # NoProject /\ project.ref = NoValue
    /\ backfill' = project.config
    /\ UNCHANGED <<project, versions>>

\* The pointer is moved only if it is still empty.
Point(config) == IF project.ref = NoValue THEN VersionOf(config) ELSE project.ref

\* ... seeded one transaction each.
BackfillSeed ==
    /\ backfill # NoValue
    /\ versions' = versions \union {VersionOf(backfill)}
    /\ project' = [project EXCEPT !.ref = Point(backfill)]
    /\ backfill' = NoValue

Write ==
    \/ \E config \in Authored : Upsert(config)
    \/ project # NoProject /\ \E n \in Sizes : SetTestEnvironmentCount(n)
    \/ project # NoProject /\ \E ttl \in TTLs \union {NoValue} : SetTestLeaseDefaultTTL(ttl)
    \/ project # NoProject /\ StripLegacySlotsArray
    \/ \E r \in Reconcilers, s \in Statuses : SetStatus(r, s)

Next == Write \/ BackfillSelect \/ BackfillSeed

Spec == Init /\ [][Next]_vars
=============================================================================
