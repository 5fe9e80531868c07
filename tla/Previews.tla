------------------------------ MODULE Previews ------------------------------
(***************************************************************************)
(* One live preview: the control API, the provision that runs behind it,   *)
(* the verifier that reads the edge back, the sessions that push to the    *)
(* edge, and the credential sweep at start-up.  Every writer of the row    *)
(* reads it, computes the next one and writes it back if the row is still  *)
(* the one it read (UpdatePreviewEnvironmentIfMatch).                      *)
(***************************************************************************)
EXTENDS PreviewRow

CONSTANTS MaxRequests,   \* control requests: provision, enable, disable, delete
          MaxCalls,      \* requests and pushes together
          MaxFaults      \* failed calls, restarted pods, crashes

VARIABLES row,        \* the preview_environments row
          credential, \* the federated credential of the preview exists
          edge,       \* the edge pod and its override directory
          request,    \* control requests and the provisions they started
          push,       \* pushes and reverts, and the receipts that follow
          verifier,   \* the read-back loop
          sweep,      \* the start-up sweep of orphaned credentials
          seen,       \* the row each writer read
          fresh,      \* the writers whose row is still the stored one
          faults,
          receipt,    \* history: the build of the last receipt accepted
          served      \* history: builds the edge has served

vars == <<row, credential, edge, request, push, verifier, sweep, seen, fresh,
          faults, receipt, served>>
past == <<receipt, served>>

Requests == 1..MaxRequests
Writers == {<<"request", i>> : i \in Requests} \cup {<<"push", i>> : i \in Releases}
               \cup {<<"verifier", 0>>}
Verifier == <<"verifier", 0>>

NoRequest == [op |-> "none", pc |-> "idle", ok |-> TRUE]

Init == /\ row = NoRow /\ credential = FALSE /\ edge = NoEdge
        /\ request = [i \in Requests |-> NoRequest]
        /\ push = [i \in Releases |-> [pc |-> "idle", build |-> NoBuild]]
        /\ verifier = [pc |-> "idle", status |-> NoBuild]
        /\ sweep = [pc |-> "done", live |-> FALSE]
        /\ seen = [w \in Writers |-> NoRow] /\ fresh = {}
        /\ faults = 0 /\ receipt = NoBuild /\ served = {}

Fault == faults < MaxFaults /\ faults' = faults + 1
Room == Cardinality({i \in Requests : request[i].pc # "idle"})
            + Cardinality({i \in Releases : push[i].pc # "idle"}) < MaxCalls
Goes(i, pc) == request' = [request EXCEPT ![i] =
    IF pc = "done" THEN [NoRequest EXCEPT !.pc = pc] ELSE [@ EXCEPT !.pc = pc]]
Fails(i, pc) == request' = [request EXCEPT ![i].pc = pc, ![i].ok = FALSE]
Pushes(i, pc) == push' = [push EXCEPT ![i].pc = pc]

-----------------------------------------------------------------------------
(* UpdatePreviewEnvironmentIfMatch *)

ReadRow(w) == /\ row # NoRow
              /\ seen' = [seen EXCEPT ![w] = row]
              /\ fresh' = fresh \cup {w}

Matches(w) == w \in fresh

WriteRow(w, next) == /\ row # NoRow /\ Matches(w)
                     /\ row' = next /\ fresh' = {}
                     /\ seen' = [seen EXCEPT ![w] = NoRow]

Conflict(w) == /\ row = NoRow \/ ~Matches(w)
               /\ seen' = [seen EXCEPT ![w] = NoRow]
               /\ UNCHANGED <<row, fresh>>

Insert == row' = NewRow /\ fresh' = {} /\ receipt' = NoBuild
Erase == row' = NoRow /\ fresh' = {}

-----------------------------------------------------------------------------
(* Control requests *)

Ops == {"provision", "enable", "disable", "delete"}

Send(i, op) ==
    /\ Room /\ request[i].pc = "idle" /\ \A j \in Requests : j < i => request[j].pc # "idle"
    /\ request' = [request EXCEPT ![i] =
           [op |-> op, pc |-> IF op = "provision" THEN "create" ELSE "read", ok |-> TRUE]]
    /\ UNCHANGED <<row, credential, edge, push, verifier, sweep, seen, fresh, faults, past>>

\* provisionPreviewEnvironment: insert the row, or find the one that is there
Create(i) ==
    /\ request[i].pc = "create"
    /\ IF row = NoRow
         THEN Insert /\ Goes(i, "access")
         ELSE /\ Goes(i, IF row.state = "provisioning" THEN "access" ELSE "reread")
              /\ UNCHANGED <<row, fresh, receipt>>
    /\ UNCHANGED <<credential, edge, push, verifier, sweep, seen, faults, served>>

\* An existing row is put back to provisioning; a failure to is ignored.
Reread(i) ==
    /\ request[i].pc = "reread"
    /\ \/ ReadRow(<<"request", i>>) /\ Goes(i, "reset")
       \/ row = NoRow /\ Goes(i, "access") /\ UNCHANGED <<seen, fresh>>
    /\ UNCHANGED <<row, credential, edge, push, verifier, sweep, faults, past>>

Reset(i) ==
    LET w == <<"request", i>> IN
    /\ request[i].pc = "reset"
    /\ WriteRow(w, MarkProvisioning(seen[w])) \/ Conflict(w)
    /\ Goes(i, "access")
    /\ UNCHANGED <<credential, edge, push, verifier, sweep, faults, past>>

\* ProvisionPreview: the installer's access, then EnsurePreviewWorkloadIdentity
\* (an upsert); only what fails from there on is cleaned up.
Prepare(i) ==
    /\ request[i].pc = "access"
    /\ \/ credential' = TRUE /\ Goes(i, "install") /\ UNCHANGED faults
       \/ Fails(i, "note") /\ Fault /\ UNCHANGED credential
       \/ Fails(i, "cleanup") /\ Fault /\ UNCHANGED credential
    /\ UNCHANGED <<row, edge, push, verifier, sweep, seen, fresh, past>>

\* The warm and the hot Helm phase; the hot one brings up the pod with the edge
\* in front.  A pod whose values changed is replaced, and its override with it.
AtEdge == {"extract", "mark", "flip", "prune", "unlink", "clear"}
DropPushes == push' = [i \in Releases |->
                  IF push[i].pc \in AtEdge THEN [push[i] EXCEPT !.pc = "done"] ELSE push[i]]

Install(i) ==
    /\ request[i].pc = "install"
    /\ \/ /\ edge' = EmptyEdge /\ DropPushes
          /\ Goes(i, "note") /\ UNCHANGED faults
       \/ /\ edge.up /\ UNCHANGED <<edge, push>>
          /\ Goes(i, "note") /\ UNCHANGED faults
       \/ /\ Fails(i, "cleanup") /\ Fault /\ UNCHANGED <<edge, push>>
    /\ UNCHANGED <<row, credential, verifier, sweep, seen, fresh, past>>

\* cleanupPreviewWorkloadIdentity, of a failed provision or of a delete
Cleanup(i) ==
    /\ request[i].pc = "cleanup"
    /\ \/ credential' = FALSE /\ UNCHANGED faults
       \/ Fault /\ UNCHANGED credential
    /\ Goes(i, IF request[i].op = "delete" THEN "runtime" ELSE "note")
    /\ UNCHANGED <<row, edge, push, verifier, sweep, seen, fresh, past>>

\* runPreviewProvision records the outcome under the provision's own deadline:
\* a provision that failed by running out of it records nothing.
Note(i) ==
    /\ request[i].pc = "note"
    /\ \/ ReadRow(<<"request", i>>) /\ Goes(i, "noted")
       \/ /\ row = NoRow \/ ~request[i].ok
          /\ Goes(i, "done") /\ UNCHANGED <<seen, fresh>>
    /\ UNCHANGED <<row, credential, edge, push, verifier, sweep, faults, past>>

Noted(i) ==
    LET w == <<"request", i>> IN
    /\ request[i].pc = "noted"
    /\ \/ WriteRow(w, IF request[i].ok THEN MarkReady(seen[w]) ELSE MarkError(seen[w]))
       \/ Conflict(w)
    /\ Goes(i, "done")
    /\ UNCHANGED <<credential, edge, push, verifier, sweep, faults, past>>

\* setPreviewEnabled and deletePreviewEnvironment read the row first
Read(i) ==
    /\ request[i].pc = "read"
    /\ \/ /\ request[i].op # "delete"
          /\ ReadRow(<<"request", i>>) /\ Goes(i, "toggle")
       \/ /\ request[i].op = "delete" /\ row # NoRow
          /\ Goes(i, "cleanup") /\ UNCHANGED <<seen, fresh>>
       \/ row = NoRow /\ Goes(i, "done") /\ UNCHANGED <<seen, fresh>>
    /\ UNCHANGED <<row, credential, edge, push, verifier, sweep, faults, past>>

Toggle(i) ==
    LET w == <<"request", i>> IN
    /\ request[i].pc = "toggle"
    /\ WriteRow(w, SetEnabled(seen[w], request[i].op = "enable")) \/ Conflict(w)
    /\ Goes(i, "done")
    /\ UNCHANGED <<credential, edge, push, verifier, sweep, faults, past>>

\* DeprovisionPreview; the row goes even when the teardown fails
Deprovision(i) ==
    /\ request[i].pc = "runtime"
    /\ \/ edge' = NoEdge /\ DropPushes /\ UNCHANGED faults
       \/ Fault /\ UNCHANGED <<edge, push>>
    /\ Goes(i, "erase")
    /\ UNCHANGED <<row, credential, verifier, sweep, seen, fresh, past>>

DeleteRow(i) ==
    /\ request[i].pc = "erase" /\ Erase /\ Goes(i, "done")
    /\ UNCHANGED <<credential, edge, push, verifier, sweep, seen, faults, past>>

-----------------------------------------------------------------------------
(* Sessions: Store.Push, Store.Delete, and the receipt of a push *)

Begin(i, build) ==
    /\ Room /\ push[i].pc = "idle" /\ \A j \in Releases : j < i => push[j].pc # "idle"
    /\ edge.up
    /\ push' = [push EXCEPT ![i] = [build |-> build,
                                    pc |-> IF build = NoBuild THEN "unlink" ELSE "extract"]]
    /\ UNCHANGED <<row, credential, edge, request, verifier, sweep, seen, fresh, faults, past>>

\* A bad archive removes the release it began.
Extract(i) ==
    /\ push[i].pc = "extract"
    /\ \/ edge' = Extracted(edge, i) /\ Pushes(i, "mark") /\ UNCHANGED faults
       \/ Pushes(i, "done") /\ Fault /\ UNCHANGED edge
    /\ UNCHANGED <<row, credential, request, verifier, sweep, seen, fresh, past>>

Mark(i) ==
    /\ push[i].pc = "mark"
    /\ IF i \in edge.dirs
         THEN edge' = Marked(edge, i) /\ Pushes(i, "flip")
         ELSE Pushes(i, "done") /\ UNCHANGED edge
    /\ UNCHANGED <<row, credential, request, verifier, sweep, seen, fresh, faults, past>>

BuildOf(r) == IF r = 0 THEN NoBuild ELSE push[r].build
Serving == IF Active(edge) THEN BuildOf(edge.current) ELSE NoBuild

\* The flip does not look whether the release is still there.
Flip(i) ==
    /\ push[i].pc = "flip"
    /\ edge' = Flipped(edge, i) /\ Pushes(i, "prune")
    /\ served' = IF Active(edge') THEN served \cup {push[i].build} ELSE served
    /\ UNCHANGED <<row, credential, request, verifier, sweep, seen, fresh, faults, receipt>>

Prune(i) ==
    /\ push[i].pc = "prune"
    /\ edge' = Removed(edge, Prunable(edge)) /\ Pushes(i, "receipt")
    /\ UNCHANGED <<row, credential, request, verifier, sweep, seen, fresh, faults, past>>

Unlink(i) ==
    /\ push[i].pc = "unlink"
    /\ edge' = Flipped(edge, 0) /\ Pushes(i, "clear")
    /\ UNCHANGED <<row, credential, request, verifier, sweep, seen, fresh, faults, past>>

Clear(i) ==
    /\ push[i].pc = "clear"
    /\ edge' = Removed(edge, Releases) /\ Pushes(i, "done")
    /\ UNCHANGED <<row, credential, request, verifier, sweep, seen, fresh, faults, past>>

\* recordPreviewPushReceipt; a session whose receipt is refused may send it again
ReadReceipt(i) ==
    /\ push[i].pc = "receipt"
    /\ \/ ReadRow(<<"push", i>>) /\ Pushes(i, "record")
       \/ Pushes(i, "done") /\ UNCHANGED <<seen, fresh>>
    /\ UNCHANGED <<row, credential, edge, request, verifier, sweep, faults, past>>

Record(i) ==
    LET w == <<"push", i>> IN
    /\ push[i].pc = "record"
    /\ \/ /\ WriteRow(w, RecordPushReceipt(seen[w], push[i].build))
          /\ receipt' = push[i].build /\ Pushes(i, "done")
       \/ /\ Conflict(w) /\ Pushes(i, "receipt") /\ UNCHANGED receipt
    /\ UNCHANGED <<credential, edge, request, verifier, sweep, faults, served>>

-----------------------------------------------------------------------------
(* The verifier: drainPreviewVerify and VerifyPreviewEnvironment *)

Due == row # NoRow /\ row.enabled /\ PendingObservation(row)

ReadStatus ==
    /\ verifier.pc = "idle" /\ Due
    /\ \/ edge.up /\ verifier' = [pc |-> "read", status |-> Serving] /\ UNCHANGED faults
       \/ Fault /\ UNCHANGED verifier
    /\ UNCHANGED <<row, credential, edge, request, push, sweep, seen, fresh, past>>

ReadBack ==
    /\ verifier.pc = "read"
    /\ \/ ReadRow(Verifier) /\ verifier' = [verifier EXCEPT !.pc = "fold"]
       \/ /\ row = NoRow /\ verifier' = [pc |-> "idle", status |-> NoBuild]
          /\ UNCHANGED <<seen, fresh>>
    /\ UNCHANGED <<row, credential, edge, request, push, sweep, faults, past>>

Fold ==
    /\ verifier.pc = "fold"
    /\ WriteRow(Verifier, RecordObserved(seen[Verifier], verifier.status)) \/ Conflict(Verifier)
    /\ verifier' = [pc |-> "idle", status |-> NoBuild]
    /\ UNCHANGED <<credential, edge, request, push, sweep, faults, past>>

-----------------------------------------------------------------------------
(* The start-up sweep, and faults *)

\* A list of the projects or of the previews that fails ends the sweep of this start.
SweepList ==
    /\ sweep.pc = "start"
    /\ \/ sweep' = [pc |-> "listed", live |-> row # NoRow] /\ UNCHANGED faults
       \/ sweep' = [pc |-> "failed", live |-> FALSE] /\ Fault
    /\ UNCHANGED <<row, credential, edge, request, push, verifier, seen, fresh, past>>

\* mutant: the sweep leaves a preview whose pod still runs
OrphanedStopped == credential /\ ~sweep.live /\ ~edge.up
Orphaned == credential /\ ~sweep.live

Reclaim ==
    /\ sweep.pc = "listed"
    /\ \/ /\ credential' = (credential /\ ~Orphaned) /\ UNCHANGED faults
          /\ sweep' = [pc |-> "done", live |-> FALSE]
       \/ /\ Orphaned /\ Fault /\ UNCHANGED credential
          /\ sweep' = [pc |-> "failed", live |-> FALSE]
    /\ UNCHANGED <<row, edge, request, push, verifier, seen, fresh, past>>

Crash ==
    /\ Fault
    /\ request' = [i \in Requests |->
           IF request[i].pc = "idle" THEN NoRequest ELSE [NoRequest EXCEPT !.pc = "done"]]
    /\ push' = [i \in Releases |->
           IF push[i].pc = "record" THEN [push[i] EXCEPT !.pc = "receipt"] ELSE push[i]]
    /\ verifier' = [pc |-> "idle", status |-> NoBuild]
    /\ sweep' = [pc |-> "start", live |-> FALSE]
    /\ seen' = [w \in Writers |-> NoRow] /\ fresh' = {}
    /\ UNCHANGED <<row, credential, edge, past>>

\* The pod is replaced by its Deployment; the override was in its emptyDir.
RestartEdge ==
    /\ edge.up /\ Fault /\ edge' = EmptyEdge /\ DropPushes
    /\ UNCHANGED <<row, credential, request, verifier, sweep, seen, fresh, past>>

-----------------------------------------------------------------------------
Ask(i) == \E op \in Ops : Send(i, op)
Provision(i) == Create(i) \/ Reread(i) \/ Reset(i) \/ Prepare(i) \/ Install(i)
                    \/ Note(i) \/ Noted(i)
Control(i) == Read(i) \/ Toggle(i) \/ Cleanup(i) \/ Deprovision(i) \/ DeleteRow(i)
Session(i) == \E build \in Builds \cup {NoBuild} : Begin(i, build)
AtStore(i) == Extract(i) \/ Mark(i) \/ Flip(i) \/ Prune(i) \/ Unlink(i) \/ Clear(i)
Receipt(i) == ReadReceipt(i) \/ Record(i)
Verify == ReadStatus \/ ReadBack \/ Fold
Sweep == SweepList \/ Reclaim

Next == \/ \E i \in Requests : Ask(i) \/ Provision(i) \/ Control(i)
        \/ \E i \in Releases : Session(i) \/ AtStore(i) \/ Receipt(i)
        \/ Verify \/ Sweep \/ Crash \/ RestartEdge

\* A handler and a goroutine go on, the verifier has its ticker, the sweep runs
\* once at start-up; nobody has to send a request or a push.
Fairness ==
    /\ \A i \in Requests : WF_vars(Provision(i) \/ Control(i))
    /\ \A i \in Releases : WF_vars(AtStore(i)) /\ WF_vars(Receipt(i))
    /\ WF_vars(Verify) /\ WF_vars(Sweep)

-----------------------------------------------------------------------------
\* What the live preview lane must not get wrong.

(* Observed, not claimed: a preview is shown live only for a build that    *)
(* the edge has served, whatever the sessions claimed, in whatever order   *)
(* read-backs and receipts reached the row (RecordObserved).               *)
LiveWasServed == row # NoRow /\ row.state = "live" =>
                     row.claimed \in served /\ row.observed = row.claimed

(* A credential left without a row by a process that died is gone after    *)
(* the sweep of the next start, unless a list or its deletion fails or a   *)
(* request brings the preview back                                         *)
(* (ReclaimOrphanedPreviewWorkloadIdentities).                             *)
SweepConverges ==
    (sweep.pc = "start" /\ row = NoRow /\ credential)
        ~> (~credential \/ row # NoRow \/ sweep.pc = "failed")
=============================================================================
