-------------------------- MODULE WorkflowRegistry --------------------------
(***************************************************************************)
(* The registrations of one workflow name: its row, the schemas its runs   *)
(* resolve by reference, the operator's control pins and the ledger of     *)
(* control-plane writes.  Register, patch, pin and unpin read the row in   *)
(* one statement and write it in a later transaction; only the tombstone   *)
(* of a delete is written under a row lock.                                *)
(***************************************************************************)
EXTENDS Integers, FiniteSets

CONSTANTS
    Clients,      \* requests that may be under way at a time
    Phased,       \* control targets that are the recycle lane of a phase
    Mandatory,    \* control targets every registration gives a value
    Values,       \* what a control may be set to
    Patchable,    \* the values within a patch's range of attempts
    NoLane,       \* the phase declares no recycle policy
    NoSuchPhase,  \* the registration has no such phase
    Submissions,  \* the registrations clients send
    NoRow,
    Alone,        \* kinds of request that run while no other request does
    MaxRequests   \* bound on the requests of a behaviour

Controls == Phased \union Mandatory

\* What a registration says of its controls, and the rest of it: the variables of its
\* conditions and whether its metadata carries the tombstone of a delete.
Contents ==
    [controls : [Controls -> Values \union {NoLane, NoSuchPhase}], vars : {"old", "new"},
     deleted : BOOLEAN]

Declared(content, target) == content.controls[target] \in Values

\* ValidateWorkflowRegister: the budget and the verification phase's policy are given.
Accepted(content) == \A target \in Mandatory : Declared(content, target)

NoPins == [target \in {} |-> NoLane]

ASSUME RegistryAssumption ==
    /\ Values \intersect {NoLane, NoSuchPhase} = {} /\ Patchable \subseteq Values
    /\ Submissions \subseteq Contents /\ \A s \in Submissions : Accepted(s)
    /\ MaxRequests \in Nat

\* The content hash of a registration: everything but its variables.
SchemaRef(content) == [controls |-> content.controls, deleted |-> content.deleted]

-----------------------------------------------------------------------------
\* A pin whose phase the incoming registration lacks rejects the registration.
PinsFit(content, pins) == \A target \in DOMAIN pins : content.controls[target] # NoSuchPhase

\* mutant: only the pins of the budget and the verification lane are enforced
EnforcedIfDeclared(content, pins) ==
    [content EXCEPT !.controls =
        [t \in Controls |-> IF t \in DOMAIN pins /\ t \in Mandatory THEN pins[t] ELSE @[t]]]

\* enforceControlPins: a pinned control takes its pinned value.
Enforced(content, pins) ==
    [content EXCEPT !.controls =
        [t \in Controls |-> IF t \in DOMAIN pins THEN pins[t] ELSE @[t]]]

Null(value) == value \in {NoLane, NoSuchPhase}

\* mutant: only the lanes of the new registration are compared
MovedInNext(prev, next) ==
    {t \in Controls : next.controls[t] # NoSuchPhase /\ prev.controls[t] # next.controls[t]}

\* controlChanges: the controls whose value differs, a lane or phase that is not there
\* being null on either side.
Moved(prev, next) ==
    {t \in Controls :
        /\ prev.controls[t] # next.controls[t]
        /\ ~(Null(prev.controls[t]) /\ Null(next.controls[t]))}

\* The changes the ledger reports of a registration: none where there is no previous one.
ControlChanges(prev, incoming, next, pins) ==
    (IF prev = NoRow THEN {} ELSE Moved(prev.content, next))
        \union {t \in DOMAIN pins : incoming.controls[t] # pins[t]}

-----------------------------------------------------------------------------
VARIABLES
    row,        \* the workflow row: content, schema reference and pins, or NoRow
    schemas,    \* workflow_schemas: the content stored under each reference
    controlEvent, \* the newest of the workflow_control_events
    requests,   \* [Clients -> the request under way]
    load        \* requests begun

vars == <<row, schemas, controlEvent, requests, load>>

Idle == [pc |-> "idle"]
Busy(c) == requests[c] # Idle

PinsOf(r) == IF r = NoRow THEN NoPins ELSE r.pins

Init ==
    /\ row = NoRow
    /\ schemas = [ref \in {} |-> NoRow]
    /\ controlEvent = NoRow
    /\ requests = [c \in Clients |-> Idle]
    /\ load = 0

Admissible(c, kind) ==
    /\ ~Busy(c) /\ load < MaxRequests
    /\ kind \in Alone => \A d \in Clients : ~Busy(d)
    /\ \A d \in Clients : Busy(d) => requests[d].kind \notin Alone

Begin(c, request) ==
    /\ Admissible(c, request.kind)
    /\ requests' = [requests EXCEPT ![c] = request]
    /\ load' = load + 1
    /\ UNCHANGED <<row, schemas, controlEvent>>

Answer(c) == requests' = [requests EXCEPT ![c] = Idle]
Refuse(c) == Answer(c) /\ UNCHANGED <<row, schemas, controlEvent, load>>

\* registerWorkflow, patchWorkflow, pinWorkflowControl, unpinWorkflowControl.
Register(c) ==
    \E s \in Submissions : Begin(c, [pc |-> "pins", kind |-> "register", incoming |-> s])
Patch(c) ==
    \E t \in Controls : \E v \in IF t \in Phased THEN Patchable ELSE Values :
        Begin(c, [pc |-> "look", kind |-> "patch", target |-> t, value |-> v])
Pin(c) == \E t \in Controls : Begin(c, [pc |-> "look", kind |-> "pin", target |-> t])
Unpin(c) == \E t \in Controls : Begin(c, [pc |-> "look", kind |-> "unpin", target |-> t])

\* The registration read back with the one dial of the patch moved.
Scaled(content, target, value) == [content EXCEPT !.controls[target] = value]

\* PatchWorkflow's read: a pinned target is refused, and a lane that does not exist.
LookToPatch(c) ==
    LET q == requests[c]
    IN  /\ q.pc = "look" /\ q.kind = "patch"
        /\ IF row # NoRow /\ q.target \notin DOMAIN row.pins /\ Declared(row.content, q.target)
           THEN /\ requests' = [requests EXCEPT ![c] =
                        [pc |-> "pins", kind |-> "patch",
                         incoming |-> Scaled(row.content, q.target, q.value)]]
                /\ UNCHANGED <<row, schemas, controlEvent, load>>
           ELSE Refuse(c)

\* upsertWorkflow up to its transaction: the previous row, its pins and the validation.
ReadPins(c) ==
    LET q == requests[c]
        pins == PinsOf(row)
        next == Enforced(q.incoming, pins)
    IN  /\ q.pc = "pins"
        /\ IF PinsFit(q.incoming, pins) /\ Accepted(next)
           THEN /\ requests' = [requests EXCEPT ![c] =
                        [pc |-> "upsert", kind |-> q.kind, content |-> next, base |-> row,
                         changes |-> ControlChanges(row, q.incoming, next, pins)]]
                /\ UNCHANGED <<row, schemas, controlEvent, load>>
           ELSE Refuse(c)

\* INSERT ... ON CONFLICT DO NOTHING.
StoredSchemas(ref, content) ==
    [r \in DOMAIN schemas \union {ref} |-> IF r \in DOMAIN schemas THEN schemas[r] ELSE content]

\* The row an upsert leaves: control_pins is not in its update set.
UpsertedRow(content) == [content |-> content, ref |-> SchemaRef(content), pins |-> PinsOf(row)]

\* WorkflowsStore.Upsert: schema, row and ledger event in one transaction.
Upsert(c) ==
    LET q == requests[c]
    IN  /\ q.pc = "upsert"
        /\ schemas' = StoredSchemas(SchemaRef(q.content), q.content)
        /\ row' = UpsertedRow(q.content)
        /\ controlEvent' = [action |-> q.kind, ref |-> SchemaRef(q.content), changes |-> q.changes]
        /\ Answer(c) /\ UNCHANGED load

\* PinWorkflowControl reads the live value, UnpinWorkflowControl the pin.
LookToPin(c) ==
    LET q == requests[c]
        write(pins) ==
            /\ requests' = [requests EXCEPT ![c] =
                    [pc |-> "write_pins", kind |-> q.kind, pins |-> pins, ref |-> row.ref]]
            /\ UNCHANGED <<row, schemas, controlEvent, load>>
    IN  /\ q.pc = "look"
        /\ \/ /\ q.kind = "pin" /\ row # NoRow
              /\ Declared(row.content, q.target)
              /\ write([t \in DOMAIN row.pins \union {q.target} |->
                            IF t = q.target THEN row.content.controls[t] ELSE row.pins[t]])
           \/ /\ q.kind = "unpin" /\ row # NoRow
              /\ q.target \in DOMAIN row.pins
              /\ write([t \in DOMAIN row.pins \ {q.target} |-> row.pins[t]])
           \/ /\ q.kind = "pin" /\ (row # NoRow => ~Declared(row.content, q.target))
              /\ Refuse(c)
           \/ /\ q.kind = "unpin" /\ q.target \notin DOMAIN PinsOf(row)
              /\ Refuse(c)

\* UpdateControlPins: the column is replaced by the pins made of what was read.
WritePins(c) ==
    LET q == requests[c]
    IN  /\ q.pc = "write_pins"
        /\ row' = [row EXCEPT !.pins = q.pins]
        /\ controlEvent' = [action |-> q.kind, ref |-> q.ref, changes |-> {}]
        /\ Answer(c) /\ UNCHANGED <<schemas, load>>

\* WorkflowsStore.Delete: a tombstone in the metadata; neither reference nor pins move.
Delete(c) ==
    /\ Admissible(c, "delete") /\ row # NoRow
    /\ row' = [row EXCEPT !.content.deleted = TRUE]
    /\ controlEvent' = [action |-> "delete", ref |-> NoRow, changes |-> {}]
    /\ load' = load + 1
    /\ UNCHANGED <<schemas, requests>>

Next ==
    \E c \in Clients :
        \/ Register(c) \/ Patch(c) \/ Pin(c) \/ Unpin(c) \/ Delete(c)
        \/ LookToPatch(c) \/ ReadPins(c) \/ Upsert(c) \/ LookToPin(c) \/ WritePins(c)

Spec == Init /\ [][Next]_vars
=============================================================================
