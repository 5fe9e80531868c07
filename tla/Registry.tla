------------------------------ MODULE Registry ------------------------------
(***************************************************************************)
(* The authored configuration of a project and the registrations of one    *)
(* workflow of it, with what their versions, pins and ledger promise.      *)
(***************************************************************************)
EXTENDS WorkflowRegistry

CONSTANTS Sizes, TTLs, NoValue, Statuses, NoProject, Legacy, Authored,
          MaxWrites     \* bound on the writes of the project row, and of both together

VARIABLES project, versions, backfill,
          writes        \* writes of the project row

Project == INSTANCE ProjectRows

ASSUME ProjectAssumption == Legacy \union Authored \subseteq Project!Configs /\ MaxWrites \in Nat

projectVars == <<project, versions, backfill, writes>>
allVars == <<vars, projectVars>>

\* Registering a workflow needs its project (registerWorkflow, upsertWorkflow).
WorkflowStep == project # NoProject /\ Next /\ UNCHANGED projectVars

ProjectWrite ==
    /\ writes < MaxWrites - load /\ Project!Write
    /\ writes' = writes + 1 /\ UNCHANGED vars

Backfill ==
    /\ Project!BackfillSelect \/ Project!BackfillSeed
    /\ UNCHANGED <<vars, writes>>

RegistryInit == Init /\ Project!Init /\ writes = 0
RegistryNext == WorkflowStep \/ ProjectWrite \/ Backfill

-----------------------------------------------------------------------------
\* A pinned control keeps its pinned value through registrations, patches, deletes and
\* the registrations after a delete ("An incoming payload can never move a pinned
\* control", enforceControlPins), as long as pins and patches are set one request at a
\* time.
PinsHold ==
    row # NoRow => \A target \in DOMAIN row.pins : row.content.controls[target] = row.pins[target]

ControlOf(r, t) == IF r.content.controls[t] \in Values THEN r.content.controls[t] ELSE NoLane

\* Unless another request wrote in between, the ledger event of a registration names
\* every control that moved, lanes that appear and disappear with their phase included.
LedgerNamesMoves ==
    [][\A c \in Clients :
          /\ Busy(c) /\ requests[c].pc = "upsert" /\ requests'[c] = Idle
          /\ requests[c].base = row /\ row # NoRow
          => \A t \in Controls : ControlOf(row', t) # ControlOf(row, t) =>
                 t \in controlEvent'.changes
      ]_allVars

\* What the reconcilers reported outlives every change of the configuration, and their
\* reports leave configuration and version alone.
StatusIsTheReconcilers ==
    [][project # NoProject =>
          \/ project'.status = project.status
          \/ project'.config = project.config /\ project'.ref = project.ref
      ]_allVars
=============================================================================
