-------------------------------- MODULE Slot --------------------------------
(* One row of the slots table and the transitions of its state machine       *)
(* (slot.go), with the walks that the lifecycle helpers of                   *)
(* slot_transitions.go take through it.  Every helper is one optimistic      *)
(* write: it reads the row, computes the next one and writes it only if the  *)
(* row did not change in between, so it is one step here.                    *)
(*                                                                           *)
(* The public reference of a lease is the name of its slot                   *)
(* (publicids.LeaseRef), so active_lease_ref tells that a slot is held and   *)
(* not by whom: it is the Boolean "held".                                    *)
EXTENDS Naturals

NoRow == [state |-> "absent", held |-> FALSE, cleanupError |-> FALSE,
          stale |-> FALSE]
NewUnseededSlot == [NoRow EXCEPT !.state = "unseeded"]

Transitions ==
  {<<"unseeded", "provisioning">>,
   <<"provisioning", "provisioned">>, <<"provisioning", "error">>,
   <<"provisioned", "activating">>, <<"provisioned", "provisioning">>,
   <<"activating", "running">>, <<"activating", "cleaning">>,
   <<"activating", "error">>,
   <<"running", "cleaning">>, <<"running", "error">>,
   <<"cleaning", "provisioned">>, <<"cleaning", "error">>,
   <<"error", "cleaning">>, <<"error", "provisioning">>}

Exists(row) == row.state # "absent"

CanTransitionTo(row, next) ==
  Exists(row) /\ (row.state = next \/ <<row.state, next>> \in Transitions)

Moved(row, next) == [row EXCEPT !.state = next, !.stale = FALSE]
-----------------------------------------------------------------------------
(* The Mark functions.  Each has a condition, CanX, without which it returns *)
(* ErrInvalidSlotTransition and the row is left alone.                       *)
CanProvision(row) == CanTransitionTo(row, "provisioning")
MarkProvisioning(row) == Moved(row, "provisioning")

\* A provisioned row has no reference: the warm-up frees what it finds held.
CanBeProvisioned(row) == CanTransitionTo(row, "provisioned")
MarkProvisioned(row) == [Moved(row, "provisioned") EXCEPT !.held = FALSE]

\* The test "slot already reserved" compares two references to the same slot
\* and never fails.
CanReserve(row) == row.state = "provisioned"
MarkReserved(row) == [row EXCEPT !.held = TRUE, !.stale = FALSE]
MarkReservationReleased(row) == [row EXCEPT !.held = FALSE, !.stale = FALSE]

MarkCleaning(row) == [Moved(row, "cleaning") EXCEPT !.cleanupError = FALSE]
MarkCleaned(row) ==
  [Moved(row, "provisioned") EXCEPT !.held = FALSE, !.cleanupError = FALSE]
MarkError(row) ==
  [Moved(row, "error") EXCEPT
     !.cleanupError = @ \/ row.state = "cleaning"]
-----------------------------------------------------------------------------
(* The walks: a helper first brings an early row forward, so that its own    *)
(* transition is valid.                                                      *)
Early == {"unseeded", "provisioning", "provisioned"}

CanActivate(row) == row.state \in Early \cup {"activating"}
LeaseActivating(row) == [Moved(row, "activating") EXCEPT !.held = TRUE]

CanRun(row) == CanTransitionTo(row, "running")
LeaseRunning(row) == Moved(row, "running")

\* updateLeaseSlotCleaning: an early row is held for the lease on its way.
LeaseCleaning(row) ==
  [MarkCleaning(row) EXCEPT !.held = @ \/ row.state \in Early]

\* markLeaseSlotCleaned: any row but an unseeded one becomes free; whose
\* cleanup it was is not looked at.
CanBeCleaned(row) == Exists(row) /\ row.state # "unseeded"
LeaseCleaned(row) == MarkCleaned(row)

\* setLeaseSlotCleanupFinished(error): through cleaning into error.
CleanupFailed(row) == MarkError(LeaseCleaning(row))

CanFail(row) == CanTransitionTo(row, "error") \/ row.state = "unseeded"
LeaseError(row) == MarkError(row)

\* repairProvisioning, under the conditions of claimSlotPreliminaryRepair.
CanRepair(row) ==
  \/ row.state \in Early
  \/ row.state = "error" /\ ~row.cleanupError
RepairProvisioning(row) == [MarkProvisioning(row) EXCEPT !.held = FALSE]
-----------------------------------------------------------------------------
\* A row the allocator offers: selectReadySlotIndices.
Available(row) == row.state = "provisioned" /\ ~row.held
=============================================================================
