----------------------------- MODULE Inspections -----------------------------
(* Inspections of a leased test slot: a report and a screenshot in the blob  *)
(* store and a row of the ledger over them (inspection_api.go,               *)
(* pg/slot_inspections.go).  Calls of POST /v1/inspections run beside each   *)
(* other and beside the sweep of the lease's clean-up (inspection_sweep.go). *)
(*                                                                           *)
(* A call mints the identity of its inspection, so a call stands for it.     *)
EXTENDS Naturals, FiniteSets

CONSTANTS Calls,          \* the requests clients send for one lease
          RequestOf,      \* [Calls -> their X-Inspection-Request-Id or NoRequest]
          RunScoped,      \* the calls that declare a run
          NoRequest,
          MaxMishaps      \* failed calls and crashes

VARIABLES call,       \* what each call does next, and what it answered
          ledger,     \* slot_inspections: the calls whose row is there
          blobs,      \* the blobs, by call and part
          held,       \* the lease of the slot is live
          sweep,      \* the blobs the sweep has still to delete, or its phase
          lost,       \* the blobs whose upload or deletion failed or was never tried
          unsure,     \* the calls whose insert failed, with or without a row
          mishaps

inspectionVars == <<call, ledger, blobs, held, sweep, lost, unsure, mishaps>>
unfailed == <<lost, unsure, mishaps>>

Parts == {"report", "screenshot"}
Blob(c, part) == [of |-> c, part |-> part]
BlobsOf(calls, parts) == {Blob(c, part) : c \in calls, part \in parts}
At(c, pc) == call[c].pc = pc
Goes(c, pc) == call' = [call EXCEPT ![c].pc = pc]
Answers(c, with) == call' = [call EXCEPT ![c] = [pc |-> "answered", with |-> with]]
Refused == [error |-> TRUE]
Record(c) == [error |-> FALSE, id |-> c]
InFlight(c) == call[c].pc \notin {"parsed", "answered"}
Faulty == mishaps > 0 /\ mishaps' = mishaps - 1

\* A call that names a run has it resolved before it uploads.
Start(c) == IF c \in RunScoped THEN "run" ELSE "report"

\* ResolveTestSlotLeaseByTankSession: only a lease that is claimed or pending is looked at.
ResolveLease(c) ==
  /\ At(c, "parsed")
  /\ IF ~held THEN Answers(c, Refused)
     ELSE Goes(c, IF RequestOf[c] = NoRequest THEN Start(c) ELSE "lookup")
  /\ UNCHANGED <<ledger, blobs, held, sweep, unfailed>>

\* LookupSlotInspectionByRequest: an earlier record is the answer.
SameRequest(c) == {d \in ledger : RequestOf[d] = RequestOf[c] /\ RequestOf[c] # NoRequest}
Lookup(c) ==
  /\ At(c, "lookup")
  /\ IF SameRequest(c) = {} THEN Goes(c, Start(c))
     ELSE \E d \in SameRequest(c) : Answers(c, Record(d))
  /\ UNCHANGED <<ledger, blobs, held, sweep, unfailed>>

\* ResolveInspectionRunProject: the run is one of the lease's project or not.
ResolveRun(c) ==
  /\ At(c, "run")
  /\ Goes(c, "report") \/ Answers(c, Refused)
  /\ UNCHANGED <<ledger, blobs, held, sweep, unfailed>>

Upload(c, part, next) ==
  /\ At(c, part)
  /\ blobs' = blobs \cup {Blob(c, part)}
  /\ Goes(c, next)
  /\ UNCHANGED <<ledger, held, sweep, unfailed>>

\* A failed upload may have left its blob, which nobody deletes; a failed screenshot
\* takes the report with it.
UploadFails(c, part) ==
  /\ At(c, part)
  /\ IF part = "report" THEN Answers(c, Refused) ELSE Goes(c, "takeback")
  /\ blobs' \in {blobs, blobs \cup {Blob(c, part)}}
  /\ lost' = lost \cup {Blob(c, part)}
  /\ Faulty
  /\ UNCHANGED <<ledger, held, sweep, unsure>>

\* InsertSlotInspection: the unique index on lease and request refuses the
\* second of two calls that both looked in vain.
Insert(c) ==
  /\ At(c, "insert")
  /\ IF SameRequest(c) = {}
       THEN ledger' = ledger \cup {c} /\ Answers(c, Record(c))
       ELSE Goes(c, "undo") /\ UNCHANGED ledger
  /\ UNCHANGED <<blobs, held, sweep, unfailed>>

\* An insert whose answer is lost has written its row.
InsertFails(c) ==
  /\ At(c, "insert") /\ Goes(c, "undo")
  /\ \/ UNCHANGED ledger
     \/ SameRequest(c) = {} /\ ledger' = ledger \cup {c}
  /\ unsure' = unsure \cup {c}
  /\ Faulty
  /\ UNCHANGED <<blobs, held, sweep, lost>>

\* Mutant: only the report is taken back.
UndoReport(c, pc, parts) ==
  /\ At(c, pc)
  /\ blobs' = blobs \ {Blob(c, "report")}
  /\ Answers(c, Refused)
  /\ UNCHANGED <<ledger, held, sweep, unfailed>>

\* The rollback deletes what the call has uploaded; a deletion that fails is logged.
Undo(c, pc, parts) ==
  /\ At(c, pc)
  /\ \E missed \in SUBSET BlobsOf({c}, parts) :
       /\ blobs' = blobs \ (BlobsOf({c}, parts) \ missed)
       /\ lost' = lost \cup missed
       /\ IF missed = {} THEN UNCHANGED mishaps ELSE Faulty
  /\ Answers(c, Refused)
  /\ UNCHANGED <<ledger, held, sweep, unsure>>

CreateInspection(c) ==
  \/ ResolveLease(c) \/ Lookup(c) \/ ResolveRun(c)
  \/ Upload(c, "report", "screenshot") \/ Upload(c, "screenshot", "insert")
  \/ \E part \in Parts : UploadFails(c, part)
  \/ Insert(c) \/ InsertFails(c)
  \/ Undo(c, "takeback", {"report"}) \/ Undo(c, "undo", Parts)
-----------------------------------------------------------------------------
\* cleanupTestSlotRuntime releases the lease, then it sweeps.
Release ==
  /\ held /\ held' = FALSE
  /\ UNCHANGED <<call, ledger, blobs, sweep, unfailed>>

\* DeleteByLease leaves the rows of a run alone.
SweptRows == ledger \ RunScoped
SweepRows ==
  /\ ~held /\ sweep.pc = "rows"
  /\ sweep' = [pc |-> "blobs", todo |-> BlobsOf(SweptRows, Parts)]
  /\ ledger' = ledger \ SweptRows
  /\ UNCHANGED <<call, blobs, held, unfailed>>

\* The deletion of the rows fails, with or without effect, or there is no writer to
\* delete the blobs with: the sweep is over.
SweepFails ==
  /\ ~held /\ sweep.pc = "rows"
  /\ sweep' = [pc |-> "blobs", todo |-> {}]
  /\ \/ UNCHANGED <<ledger, lost>>
     \/ ledger' = ledger \ SweptRows /\ lost' = lost \cup BlobsOf(SweptRows, Parts)
  /\ Faulty
  /\ UNCHANGED <<call, blobs, held, unsure>>

\* A deletion that fails is counted, and the sweep goes on.
SweepBlob ==
  /\ \E b \in sweep.todo :
       /\ sweep' = [sweep EXCEPT !.todo = @ \ {b}]
       /\ \/ blobs' = blobs \ {b} /\ UNCHANGED <<lost, mishaps>>
          \/ lost' = lost \cup {b} /\ Faulty /\ UNCHANGED blobs
  /\ UNCHANGED <<call, ledger, held, unsure>>

\* The server dies: calls and sweep get no further. The clean-up is resumed and finds
\* the rows gone.
Crash ==
  /\ call' = [c \in Calls |-> IF InFlight(c) THEN [pc |-> "answered", with |-> Refused] ELSE call[c]]
  /\ sweep' = [sweep EXCEPT !.todo = {}]
  /\ lost' = lost \cup sweep.todo \cup BlobsOf({c \in Calls : InFlight(c)}, Parts)
  /\ Faulty
  /\ UNCHANGED <<ledger, blobs, held, unsure>>
-----------------------------------------------------------------------------
InspectionsInit ==
  /\ call = [c \in Calls |-> [pc |-> "parsed", with |-> Refused]]
  /\ ledger = {} /\ blobs = {}
  /\ held = TRUE
  /\ sweep = [pc |-> "rows", todo |-> {}]
  /\ lost = {} /\ unsure = {}
  /\ mishaps = MaxMishaps

InspectionsNext ==
  \/ \E c \in Calls : CreateInspection(c)
  \/ Release \/ SweepRows \/ SweepFails \/ SweepBlob \/ Crash
-----------------------------------------------------------------------------
RowsHaveBlobs == BlobsOf(ledger \ unsure, Parts) \subseteq blobs
BlobsHaveOwners ==
    \A b \in blobs : b.of \in ledger \/ InFlight(b.of) \/ b \in sweep.todo \/ b \in lost

(* The ledger and the blob store agree but for what failed. A row has both   *)
(* of its blobs, with calls, sweep, failures and restarts in any order,      *)
(* unless its own insert was reported as failed. And a blob belongs to a     *)
(* row, to a call under way or to the sweep, unless its own upload or        *)
(* deletion failed, or never came because the sweep had no rows or writer to *)
(* go by or the process died: nothing is left where nothing failed, not by   *)
(* requests that meet on the index either.  Uploads come before the row, the *)
(* sweep takes the rows first, and a failure takes back what its call has    *)
(* uploaded so far (createInspection, sweepLeaseInspections).                *)
LedgerMatchesBlobs == RowsHaveBlobs /\ BlobsHaveOwners
=============================================================================
