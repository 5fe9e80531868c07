------------------------------ MODULE SlotLease ------------------------------
(* The slots of one project and the leases on them: acquisition by a run or  *)
(* by a test-slot checkout, activation, return, expiry, cancellation,        *)
(* clean-up, warm-up, repair, scaling, and the two sweeps of a starting      *)
(* server (ExpireStaleLeases, RecoverInFlightTestSlots).                     *)
(*                                                                           *)
(* The rows are shared by every server process; goroutines, timers and the   *)
(* registries that deduplicate them belong to one process and die with it.   *)
(* A goroutine or a handler is a task: it moves from one store or Kubernetes *)
(* call to the next, and everything else may happen in between.              *)
EXTENDS Slot, Integers, FiniteSets, FiniteSetsExt

CONSTANTS Servers, Slots, Leases, \* Slots and Leases are sets of numbers
          NoLease,                \* the lease of a warm-up or of an orphan
          Serial,                 \* acquisitions do not overlap
          Prompt,                 \* a handler writes right after it reads
          Weight, Events          \* what each disturbance counts, and the bound

Disturbances == {"boot", "failure", "cancel", "scale", "repair"}

ASSUME SlotsAssumption ==
  /\ Slots \subseteq Nat \ {0} /\ Leases \subseteq Nat \ {0}
  /\ NoLease \notin Leases /\ Prompt \in BOOLEAN
  /\ Serial \in BOOLEAN /\ Events \in Nat
  /\ Weight \in [Disturbances -> Nat]

VARIABLES slots,    \* the slots table
          leases,   \* the leases table
          count,    \* the slot count in the project's metadata
          tasks,    \* the goroutines and handlers between two calls
          timers,   \* testSlotLeaseTimers of each process, by reference
          up,       \* the processes that run
          runtime,  \* the leases whose hot runtime is in a slot's namespace
          spent     \* how often each kind of disturbance has happened

vars == <<slots, leases, count, tasks, timers, up, runtime, spent>>

NoLeaseRow == [state |-> "none", checkout |-> FALSE, slot |-> 0, due |-> FALSE]

Ops == {"acquire", "cancel", "claim", "extend", "activate", "cleanup", "warm",
        "repair", "scale", "boot"}

Claimed(l) == l \in Leases /\ leases[l].state = "claimed"
Checkout(l) == Claimed(l) /\ leases[l].checkout
ClaimedOn(s) == {l \in Leases : Claimed(l) /\ leases[l].slot = s}
Task(srv, op, s, l, pc) ==
  [srv |-> srv, op |-> op, slot |-> s, lease |-> l, pc |-> pc, victim |-> NoLease]
At(t, op, pc) == t.op = op /\ t.pc = pc
Spend(kind) ==
  /\ MapThenSumSet(LAMBDA k : Weight[k] * spent[k], Disturbances) + Weight[kind] <= Events
  /\ spent' = [spent EXCEPT ![kind] = @ + 1]
Fails(bad) == IF bad THEN Spend("failure") ELSE UNCHANGED spent

\* t makes its next call; t is done; t ends and starts others.
Goto(t, pc) == tasks' = (tasks \ {t}) \cup {[t EXCEPT !.pc = pc]}
Done(t) == tasks' = tasks \ {t}
Become(t, new) == tasks' = (tasks \ {t}) \cup new

\* UpdateIfMatch: ok and next are a condition and a result of module Slot.
Update(s, row) == slots' = [slots EXCEPT ![s] = row]
UpdateIf(s, ok, row) == IF ok THEN Update(s, row) ELSE UNCHANGED slots
\* A lease's row is read and written in one transaction.
Patch(l, row) == leases' = [leases EXCEPT ![l] = row]
Due(l, due) == Patch(l, [leases[l] EXCEPT !.due = due])
End(l, state) == Patch(l, [leases[l] EXCEPT !.state = state])
\* ensureSlotExists, then the update.
Seeded(s) == IF Exists(slots[s]) THEN slots[s] ELSE NewUnseededSlot

Arm(ts, srv, l) == [ts EXCEPT ![srv][leases[l].slot] = l]
Disarm(ts, srv, s) == [ts EXCEPT ![srv][s] = NoLease]

\* The registries testSlotActivations, testSlotCleanups and testSlotWarmups.
\* A lease without number or id is known by its slot.
Running(srv, op, s, l) ==
  \E t \in tasks : t.srv = srv /\ t.op = op /\ t.slot = s /\ t.lease = l
Started(srv, op, s, l, pc) ==
  IF Running(srv, op, s, l) THEN {} ELSE {Task(srv, op, s, l, pc)}
Warming(srv, s) ==
  \E t \in tasks : t.srv = srv /\ t.slot = s /\ t.op \in {"warm", "repair"}
Warmups(srv, S) == {Task(srv, "warm", s, NoLease, "mark") : s \in {x \in S : ~Warming(srv, x)}}
-----------------------------------------------------------------------------
(* Acquisition.                                                              *)

\* selectAvailableRunnerSlot: the first ready slot no claimed lease names.
ReadySlots == {s \in Slots : s <= count /\ Available(slots[s])}
\* Mutant: the claimed leases are not looked at.
UnusedByRow == ReadySlots

Unused == {s \in ReadySlots : ClaimedOn(s) = {}}

\* Numbers are given out in their order, each once.
Taken(k) == leases[k].state # "none" \/ \E t \in tasks : t.op = "acquire" /\ t.lease = k
NextNumber(l) == ~Taken(l) /\ \A k \in Leases : ~Taken(k) => k >= l

\* A run's admission or a checkout picks a slot ...
Pick(srv, l, checkout) ==
  /\ NextNumber(l) /\ Unused # {}
  /\ Serial => ~\E t \in tasks : t.op = "acquire"
  /\ tasks' = tasks \cup
       {Task(srv, "acquire", Min(Unused), l, IF checkout THEN "checkout" ELSE "run")}
  /\ UNCHANGED <<slots, leases, count, timers, up, runtime, spent>>

\* ... inserts the lease as claimed ...
Insert(t) ==
  /\ t.op = "acquire" /\ t.pc \in {"checkout", "run"}
  /\ Patch(t.lease, [state |-> "claimed", checkout |-> t.pc = "checkout", slot |-> t.slot,
                      due |-> FALSE])
  /\ Goto(t, "reserve")
  /\ UNCHANGED <<slots, count, timers, up, runtime, spent>>

\* ... and reserves the slot; it cancels the lease if the slot has moved on.
Reserve(t) ==
  /\ At(t, "acquire", "reserve")
  /\ UpdateIf(t.slot, CanReserve(slots[t.slot]), MarkReserved(slots[t.slot]))
  /\ IF ~CanReserve(slots[t.slot])
       THEN Become(t, {Task(t.srv, "cancel", t.slot, t.lease, "list")})
       ELSE IF leases[t.lease].checkout THEN Goto(t, "activate") ELSE Done(t)
  /\ UNCHANGED <<leases, count, timers, up, runtime, spent>>

\* checkoutTestSlot after AcquireLease: record the activation, arm the timer,
\* start the activation.
StartActivation(t) ==
  /\ At(t, "acquire", "activate")
  /\ LET row == Seeded(t.slot) IN
     IF CanActivate(row)
       THEN /\ Update(t.slot, LeaseActivating(row))
            /\ timers' = Arm(timers, t.srv, t.lease)
            /\ Become(t, Started(t.srv, "activate", t.slot, t.lease, "install"))
       ELSE /\ Update(t.slot, row)
            /\ Become(t, {Task(t.srv, "cancel", t.slot, t.lease, "list")})
            /\ UNCHANGED timers
  /\ UNCHANGED <<leases, count, up, runtime, spent>>
-----------------------------------------------------------------------------
(* CancelLeaseByRef: it finds the lease by its reference, releases it        *)
(* without looking at its state again, and frees the reservation of a run's. *)

ByRef(s) == IF ClaimedOn(s) # {} THEN Min(ClaimedOn(s)) ELSE NoLease

CancelList(t) ==
  /\ t.pc = "list"
  /\ IF ByRef(t.slot) = NoLease
       THEN IF t.op = "cancel" THEN Done(t) ELSE Goto(t, "cancelled")
       ELSE tasks' = (tasks \ {t}) \cup
              {[t EXCEPT !.pc = "patch", !.victim = ByRef(t.slot)]}
  /\ UNCHANGED <<slots, leases, count, timers, up, runtime, spent>>

CancelPatch(t) ==
  /\ t.pc = "patch"
  /\ End(t.victim, "released")
  /\ IF ~leases[t.victim].checkout THEN Goto(t, "free")
       ELSE IF t.op = "cancel" THEN Done(t) ELSE Goto(t, "cancelled")
  /\ UNCHANGED <<slots, count, timers, up, runtime, spent>>

\* releaseRunnerSlotReservation
CancelFree(t) ==
  /\ t.pc = "free"
  /\ UpdateIf(t.slot, CanReserve(slots[t.slot]), MarkReservationReleased(slots[t.slot]))
  /\ IF t.op = "cancel" THEN Done(t) ELSE Goto(t, "cancelled")
  /\ UNCHANGED <<leases, count, timers, up, runtime, spent>>

\* The end of a run, an abort or an operator cancels the lease of a slot; the
\* operator's endpoint also stops the timer of its own process.
Cancel(srv, s) ==
  /\ ClaimedOn(s) # {}
  /\ tasks' = tasks \cup {Task(srv, "cancel", s, NoLease, "list")}
  /\ timers' = Disarm(timers, srv, s)
  /\ Spend("cancel")
  /\ UNCHANGED <<slots, leases, count, up, runtime>>

\* ReleaseLeaseByCallbackToken of the store: a second call only frees the
\* reservation again.
ReleaseRunLease(srv, l) ==
  /\ leases[l].state # "none" /\ ~leases[l].checkout
  /\ tasks' = tasks \cup
       {[Task(srv, "cancel", leases[l].slot, l, IF Claimed(l) THEN "patch" ELSE "free")
          EXCEPT !.victim = l]}
  /\ Spend("cancel")
  /\ UNCHANGED <<slots, leases, count, timers, up, runtime>>

\* A lease is released by its callback token: a checkout that is not over yet
\* goes through the clean-up, like a return; the lease of a run is released.
ReleaseByToken(srv, l) ==
  \/ /\ Checkout(l) /\ ~Running(srv, "claim", leases[l].slot, l)
     /\ tasks' = tasks \cup {Task(srv, "claim", leases[l].slot, l, "cas")}
     /\ UNCHANGED <<slots, leases, count, timers, up, runtime, spent>>
  \/ ReleaseRunLease(srv, l)
-----------------------------------------------------------------------------
(* Activation.                                                               *)

\* ActivateTestSlotRuntime: it creates the runtime or fails half way.
Install(t, ok) ==
  /\ At(t, "activate", "install")
  /\ Fails(~ok)
  /\ runtime' = [runtime EXCEPT ![t.slot] = @ \cup {t.lease}]
  /\ Goto(t, IF ok THEN "installed" ELSE "failed")
  /\ UNCHANGED <<slots, leases, count, timers, up>>

\* A clean-up of the same process cancels the installation.
Interrupted(t) ==
  /\ At(t, "activate", "install")
  /\ Running(t.srv, "cleanup", t.slot, t.lease)
  /\ Goto(t, "failed")
  /\ UNCHANGED <<slots, leases, count, timers, up, runtime, spent>>

\* Mutant: it goes on whatever has become of its lease and its slot.
BlindlyActivating(t) ==
  /\ t.op = "activate" /\ t.pc \in {"installed", "failed"}
  /\ Goto(t, IF t.pc = "installed" THEN "succeed" ELSE "fail")
  /\ UNCHANGED <<slots, leases, count, timers, up, runtime, spent>>

\* It stops unless its lease is claimed and its slot still activating.
StillActivating(t) ==
  /\ t.op = "activate" /\ t.pc \in {"installed", "failed"}
  /\ IF Claimed(t.lease) /\ slots[t.slot].state \in {"activating", "absent"}
       THEN Goto(t, IF t.pc = "installed" THEN "succeed" ELSE "fail")
       ELSE Done(t)
  /\ UNCHANGED <<slots, leases, count, timers, up, runtime, spent>>

Activated(t) ==
  /\ At(t, "activate", "succeed")
  /\ LET row == Seeded(t.slot) IN
       Update(t.slot, IF CanRun(row) THEN LeaseRunning(row) ELSE row)
  /\ Done(t)
  /\ UNCHANGED <<leases, count, timers, up, runtime, spent>>

ActivationFailed(t) ==
  /\ At(t, "activate", "fail")
  /\ LET row == Seeded(t.slot) IN
       Update(t.slot, IF CanFail(row) THEN LeaseError(row) ELSE row)
  /\ Goto(t, "undo")
  /\ UNCHANGED <<leases, count, timers, up, runtime, spent>>

\* The failed activation tears down what it left ...
UndoActivation(t, ok) ==
  /\ At(t, "activate", "undo")
  /\ Fails(~ok)
  /\ runtime' = IF ok THEN [runtime EXCEPT ![t.slot] = {}] ELSE runtime
  /\ Goto(t, IF ok THEN "undone" ELSE "undo failed")
  /\ UNCHANGED <<slots, leases, count, timers, up>>

\* ... records it, stops the timer and cancels the lease either way.
ActivationUndone(t) ==
  /\ t.op = "activate" /\ t.pc \in {"undone", "undo failed"}
  /\ LET row == Seeded(t.slot) IN
       Update(t.slot, IF t.pc = "undo failed" THEN CleanupFailed(row)
                      ELSE IF CanBeCleaned(row) THEN LeaseCleaned(row) ELSE row)
  /\ timers' = Disarm(timers, t.srv, t.slot)
  /\ Goto(t, "list")
  /\ UNCHANGED <<leases, count, up, runtime, spent>>

ActivationEnds(t) ==
  /\ At(t, "activate", "cancelled") /\ Done(t)
  /\ UNCHANGED <<slots, leases, count, timers, up, runtime, spent>>
-----------------------------------------------------------------------------
(* Return, expiry and clean-up.                                              *)

\* resolveTestSlotLease: the oldest checkout of the slot that is not over.
CheckoutOf(s) == Min({l \in ClaimedOn(s) : leases[l].checkout})

\* returnTestSlot finds the lease of a slot and claims the clean-up.
Return(srv, l) ==
  /\ Checkout(l) /\ l = CheckoutOf(leases[l].slot)
  /\ ~Running(srv, "claim", leases[l].slot, l)
  /\ tasks' = tasks \cup {Task(srv, "claim", leases[l].slot, l, "cas")}
  /\ UNCHANGED <<slots, leases, count, timers, up, runtime, spent>>

\* tryReturnOrphanedErrorSlot: no lease, a clean-up that failed.
ReturnOrphan(srv, s) ==
  /\ ~\E l \in ClaimedOn(s) : leases[l].checkout
  /\ slots[s].state = "error" /\ slots[s].cleanupError
  /\ ~Running(srv, "claim", s, NoLease)
  /\ tasks' = tasks \cup {Task(srv, "claim", s, NoLease, "cas")}
  /\ UNCHANGED <<slots, leases, count, timers, up, runtime, spent>>

\* fireLeaseExpiry: the timer reads the lease again; a lease that is gone
\* needs nothing, one that was extended is armed again.
TimerFires(srv, s) ==
  LET l == timers[srv][s] IN
  /\ l # NoLease
  /\ leases[l].due \/ ~Claimed(l)
  /\ timers' = Disarm(timers, srv, s)
  /\ tasks' = IF Claimed(l) THEN tasks \cup {Task(srv, "claim", s, l, "cas")}
                            ELSE tasks
  /\ UNCHANGED <<slots, leases, count, up, runtime, spent>>

\* claimTestSlotCleanup: one caller takes the slot to cleaning, a second one
\* finds it there and leaves; the winner starts the clean-up.
ClaimCleanup(t) ==
  /\ At(t, "claim", "cas")
  /\ LET row == Seeded(t.slot) IN
     IF row.state = "cleaning"
       THEN Done(t) /\ UNCHANGED <<slots, timers>>
       ELSE /\ Update(t.slot, LeaseCleaning(row))
            /\ Become(t, Started(t.srv, "cleanup", t.slot, t.lease, "await"))
            /\ timers' = Disarm(timers, t.srv, t.slot)
  /\ UNCHANGED <<leases, count, up, runtime, spent>>

\* Mutant: the clean-up does not wait for the activation.
DoNotAwait(t) ==
  /\ At(t, "cleanup", "await")
  /\ Goto(t, "teardown")
  /\ UNCHANGED <<slots, leases, count, timers, up, runtime, spent>>

\* cancelInflightActivation: the clean-up waits until the activation of its
\* process has unwound, at most activationCancelWait.
AwaitActivation(t) ==
  /\ At(t, "cleanup", "await")
  /\ Prompt => ~Running(t.srv, "activate", t.slot, t.lease)
  /\ Goto(t, "teardown")
  /\ UNCHANGED <<slots, leases, count, timers, up, runtime, spent>>

\* ReturnTestSlotRuntime and EnsureTestSlotPreliminaries
Teardown(t, ok) ==
  /\ At(t, "cleanup", "teardown")
  /\ Fails(~ok)
  /\ runtime' = IF ok THEN [runtime EXCEPT ![t.slot] = {}] ELSE runtime
  /\ Goto(t, IF ~ok THEN "failed"
             ELSE IF Claimed(t.lease) THEN "list" ELSE "cancelled")
  /\ UNCHANGED <<slots, leases, count, timers, up>>

\* Mutant: a clean-up that fails leaves the row as it is.
CleanupGivesUp(t) ==
  /\ t.op = "cleanup" /\ t.pc \in {"cancelled", "failed"}
  /\ LET row == Seeded(t.slot) IN
       Update(t.slot, IF t.pc = "cancelled" /\ CanBeCleaned(row) THEN LeaseCleaned(row) ELSE row)
  /\ Done(t)
  /\ UNCHANGED <<leases, count, timers, up, runtime, spent>>

CleanupEnds(t) ==
  /\ t.op = "cleanup" /\ t.pc \in {"cancelled", "failed"}
  /\ LET row == Seeded(t.slot) IN
       Update(t.slot, IF t.pc = "failed" THEN CleanupFailed(row)
                      ELSE IF CanBeCleaned(row) THEN LeaseCleaned(row) ELSE row)
  /\ Done(t)
  /\ UNCHANGED <<leases, count, timers, up, runtime, spent>>
-----------------------------------------------------------------------------
(* Warm-up, repair and scaling.                                              *)

\* warmTestSlot: a slot past provisioning is left alone.
WarmMark(t) ==
  /\ At(t, "warm", "mark")
  /\ LET row == Seeded(t.slot) IN
     IF CanProvision(row)
       THEN Update(t.slot, MarkProvisioning(row)) /\ Goto(t, "prepare")
       ELSE Update(t.slot, row) /\ Done(t)
  /\ UNCHANGED <<leases, count, timers, up, runtime, spent>>

\* EnsureTestSlotPreliminaries, of a warm-up or of a repair.
Prepare(t, ok) ==
  /\ t.op \in {"warm", "repair"} /\ t.pc = "prepare"
  /\ Fails(~ok)
  /\ Goto(t, IF ok THEN "prepared" ELSE "unprepared")
  /\ UNCHANGED <<slots, leases, count, timers, up, runtime>>

Prepared(t) ==
  /\ t.pc \in {"prepared", "unprepared"}
  /\ LET row == slots[t.slot] IN
     IF t.pc = "prepared"
       THEN UpdateIf(t.slot, CanBeProvisioned(row), MarkProvisioned(row))
       ELSE UpdateIf(t.slot, CanTransitionTo(row, "error"), MarkError(row))
  /\ Done(t)
  /\ UNCHANGED <<leases, count, timers, up, runtime, spent>>

\* activeTestSlotLeaseForSlot: a checkout or a run holds the slot.
InUse(s) == ClaimedOn(s) # {}

\* The repair endpoint: refused while a live lease names the slot ...
Repair(srv, s) ==
  /\ s <= count /\ ~InUse(s) /\ ~Warming(srv, s)
  /\ tasks' = tasks \cup {Task(srv, "repair", s, NoLease, "claim")}
  /\ Spend("repair")
  /\ UNCHANGED <<slots, leases, count, timers, up, runtime>>

\* ... and then claimed on the slot's state alone.
ClaimRepair(t) ==
  /\ At(t, "repair", "claim")
  /\ LET row == Seeded(t.slot) IN
     IF CanRepair(row)
       THEN Update(t.slot, RepairProvisioning(row)) /\ Goto(t, "prepare")
       ELSE Update(t.slot, row) /\ Done(t)
  /\ UNCHANGED <<leases, count, timers, up, runtime, spent>>

\* The rows that a count of n leaves over, and the checkouts that hold them.
RemovedAbove(n) == {s \in Slots : s > n /\ Exists(slots[s])}
CheckedOutAbove(n) == {l \in Leases : Checkout(l) /\ leases[l].slot > n}

\* scaleProjectTestEnvironments: refused while a checkout holds a slot above
\* the new count; then the count, the rows and the warm-ups.
Scale(srv, n) ==
  /\ n # count
  /\ RemovedAbove(n) # {} => CheckedOutAbove(n) = {}
  /\ count' = n
  /\ tasks' = tasks \cup {Task(srv, "scale", 0, NoLease, "deprovision")}
  /\ Spend("scale")
  /\ UNCHANGED <<slots, leases, timers, up, runtime>>

\* A reconciliation of identities or origins, or the deletion of a namespace,
\* that fails ends the request.
Deprovision(t, ok) ==
  /\ At(t, "scale", "deprovision")
  /\ Fails(~ok)
  /\ IF ok
       THEN /\ runtime' = [s \in Slots |->
                            IF s \in RemovedAbove(count) THEN {} ELSE runtime[s]]
            /\ slots' = [s \in Slots |-> IF s > count THEN NoRow ELSE Seeded(s)]
            /\ Goto(t, "warm")
       ELSE Done(t) /\ UNCHANGED <<slots, runtime>>
  /\ UNCHANGED <<leases, count, timers, up>>

\* EnsureProjectTestSlotsWarmed
Cold(s) ==
  /\ s <= count
  /\ \/ slots[s].state \in {"absent", "unseeded"}
     \/ slots[s].state = "provisioning" /\ slots[s].stale

ScaleWarm(t) ==
  /\ At(t, "scale", "warm")
  /\ Become(t, Warmups(t.srv, {s \in Slots : Cold(s)}))
  /\ UNCHANGED <<slots, leases, count, timers, up, runtime, spent>>
-----------------------------------------------------------------------------
(* A process starts: ExpireStaleLeases ends every lease past its deadline,   *)
(* then RecoverInFlightTestSlots arms the timers of the others and resumes   *)
(* what was in flight, unless the slot was touched less than recoveryMinAge  *)
(* ago.                                                                      *)

Boot(srv) ==
  /\ srv \notin up
  /\ up' = up \cup {srv}
  /\ tasks' = tasks \cup {Task(srv, "boot", 0, NoLease, "expire")}
  /\ Spend("boot")
  /\ UNCHANGED <<slots, leases, count, timers, runtime>>

StaleLeases == {l \in Leases : Claimed(l) /\ leases[l].due}

ExpireOne(t, l) ==
  /\ At(t, "boot", "expire") /\ l \in StaleLeases
  /\ End(l, "expired")
  /\ LET row == slots[leases[l].slot] IN
       UpdateIf(leases[l].slot, ~leases[l].checkout /\ CanReserve(row),
                MarkReservationReleased(row))
  /\ UNCHANGED <<count, tasks, timers, up, runtime, spent>>

Expired(t) ==
  /\ At(t, "boot", "expire") /\ StaleLeases = {}
  /\ Goto(t, "recover")
  /\ UNCHANGED <<slots, leases, count, timers, up, runtime, spent>>

Resumed(srv, l) ==
  LET row == slots[leases[l].slot]
      s == leases[l].slot IN
  IF ~row.stale THEN {}
  ELSE CASE row.state = "activating" -> Started(srv, "activate", s, l, "install")
         [] row.state = "cleaning" \/ (row.state = "error" /\ row.cleanupError)
              -> Started(srv, "cleanup", s, l, "await")
         [] OTHER -> {}
Orphaned(s) ==
  /\ ~\E l \in ClaimedOn(s) : leases[l].checkout
  /\ slots[s].stale
  /\ slots[s].state \in {"activating", "running", "cleaning", "error"}

Recover(t) ==
  /\ At(t, "boot", "recover")
  /\ LET held == {l \in Leases : Checkout(l)}
         orphans == {s \in Slots : Orphaned(s)}
         cold == {s \in Slots : Cold(s) /\ ~\E l \in held : leases[l].slot = s}
     IN /\ Become(t, (UNION {Resumed(t.srv, l) : l \in held})
                     \cup (UNION {Started(t.srv, "cleanup", s, NoLease, "await") : s \in orphans})
                     \cup Warmups(t.srv, cold))
        /\ timers' = [timers EXCEPT ![t.srv] =
             [s \in Slots |-> IF \E l \in held : leases[l].slot = s
                                THEN CHOOSE l \in held : leases[l].slot = s
                                ELSE IF s \in orphans THEN NoLease ELSE @[s]]]
  /\ UNCHANGED <<slots, leases, count, up, runtime, spent>>

\* A process dies with its goroutines and timers.
Crash(srv) ==
  /\ srv \in up
  /\ up' = up \ {srv}
  /\ tasks' = {t \in tasks : t.srv # srv}
  /\ timers' = [timers EXCEPT ![srv] = [s \in Slots |-> NoLease]]
  /\ UNCHANGED <<slots, leases, count, runtime, spent>>
-----------------------------------------------------------------------------
(* Time: the deadline of a lease, and the age of a row.                      *)
DeadlinePasses(l) ==
  /\ Claimed(l) /\ ~leases[l].due
  /\ Due(l, TRUE)
  /\ UNCHANGED <<slots, count, tasks, timers, up, runtime, spent>>

\* rearmUpdatedLeaseTimer: the handling process arms its timer for a checkout.
Rearmed(srv, l) == IF leases[l].checkout THEN Arm(timers, srv, l) ELSE timers

\* An operator gives a lease that is past its deadline a later one.
Extend(srv, l) ==
  /\ Claimed(l) /\ leases[l].due /\ ByRef(leases[l].slot) = l
  /\ Due(l, FALSE)
  /\ timers' = Rearmed(srv, l)
  /\ Spend("cancel")
  /\ UNCHANGED <<slots, count, tasks, up, runtime>>

\* What an extension asks of a lease, be it for the holder or for a deployment.
Extensible(l) == Checkout(l) /\ ~leases[l].due /\ slots[leases[l].slot].state # "cleaning"

\* Extension asked for ...
AskExtension(srv, l) ==
  /\ Extensible(l)
  /\ tasks' = tasks \cup {Task(srv, "extend", leases[l].slot, l, "ttl")}
  /\ Spend("cancel")
  /\ UNCHANGED <<slots, leases, count, timers, up, runtime>>

\* ... and UpdateLeaseTTLByRef gives it to whatever lease the slot's name finds.
WriteTTL(t) ==
  /\ At(t, "extend", "ttl")
  /\ LET l == ByRef(t.slot) IN
     IF l = NoLease THEN UNCHANGED <<leases, timers>>
     ELSE /\ Due(l, FALSE)
          /\ timers' = Rearmed(t.srv, l)
  /\ Done(t)
  /\ UNCHANGED <<slots, count, up, runtime, spent>>

\* While calls are prompt no row gets old under a task that works on it.
RowAges(s) ==
  /\ Exists(slots[s]) /\ ~slots[s].stale
  /\ Prompt => ~\E t \in tasks : t.slot = s
  /\ Update(s, [slots[s] EXCEPT !.stale = TRUE])
  /\ UNCHANGED <<leases, count, tasks, timers, up, runtime, spent>>
-----------------------------------------------------------------------------
Init ==
  /\ count \in 1..Cardinality(Slots)
  /\ slots = [s \in Slots |-> IF s <= count
                THEN [NewUnseededSlot EXCEPT !.state = "provisioned"] ELSE NoRow]
  /\ leases = [l \in Leases |-> NoLeaseRow]
  /\ tasks = {} /\ up = Servers
  /\ timers = [srv \in Servers |-> [s \in Slots |-> NoLease]]
  /\ runtime = [s \in Slots |-> {}]
  /\ spent = [kind \in Disturbances |-> 0]

AcquireStep(t) == Insert(t) \/ Reserve(t) \/ StartActivation(t)
CancelStep(t) == CancelList(t) \/ CancelPatch(t) \/ CancelFree(t)
ActivationStep(t) ==
  \/ \E ok \in BOOLEAN : Install(t, ok) \/ UndoActivation(t, ok)
  \/ Interrupted(t) \/ StillActivating(t) \/ Activated(t)
  \/ ActivationFailed(t) \/ ActivationUndone(t) \/ ActivationEnds(t)
CleanupStep(t) ==
  \/ AwaitActivation(t) \/ CleanupEnds(t) \/ \E ok \in BOOLEAN : Teardown(t, ok)
WarmStep(t) ==
  \/ WarmMark(t) \/ ClaimRepair(t) \/ Prepared(t)
  \/ \E ok \in BOOLEAN : Prepare(t, ok)
ScaleStep(t) == ScaleWarm(t) \/ \E ok \in BOOLEAN : Deprovision(t, ok)
BootStep(t) == Expired(t) \/ Recover(t) \/ \E l \in Leases : ExpireOne(t, l)

TaskStep(t) ==
  \/ AcquireStep(t) \/ CancelStep(t) \/ ActivationStep(t) \/ CleanupStep(t)
  \/ WarmStep(t) \/ ScaleStep(t) \/ BootStep(t) \/ WriteTTL(t)

\* The listener opens when the sweep of the leases is done.
Listening(srv) == ~\E t \in tasks : t.srv = srv /\ At(t, "boot", "expire")

Request(srv) ==
  \/ \E l \in Leases, checkout \in BOOLEAN : Pick(srv, l, checkout)
  \/ \E l \in Leases : \/ ReleaseByToken(srv, l) \/ Return(srv, l)
                       \/ Extend(srv, l) \/ AskExtension(srv, l)
  \/ \E s \in Slots : Cancel(srv, s) \/ ReturnOrphan(srv, s) \/ Repair(srv, s)
                       \/ TimerFires(srv, s)
  \/ \E n \in 0..Cardinality(Slots) : Scale(srv, n)

Environment ==
  \/ \E l \in Leases : DeadlinePasses(l)
  \/ \E s \in Slots : RowAges(s)
  \/ \E srv \in Servers : Crash(srv) \/ Boot(srv)

\* A prompt handler makes the write its read has decided before others act.
Between == {t \in tasks : At(t, "claim", "cas") \/ t.pc = "patch" \/ At(t, "repair", "claim")}

Next ==
  \/ \E t \in tasks : ClaimCleanup(t)
  \/ \E t \in tasks : (Prompt => Between \subseteq {t}) /\ TaskStep(t)
  \/ (Prompt => Between = {}) /\ (Environment \/ \E srv \in up : Listening(srv) /\ Request(srv))

Spec == Init /\ [][Next]_vars

-----------------------------------------------------------------------------
\* What a snapshot shows of the slots (computeStateSnapshot).

\* A free provisioned slot is "available".
PublicState(row) == IF Available(row) THEN "available" ELSE row.state

\* A slot with the lease that names it; a held slot that is ready is shown as
\* claimed by a checkout or reserved by a run.
TestEnvironment(s) ==
  LET held == ClaimedOn(s)
      shown == PublicState(slots[s])
      kind == IF \E l \in held : leases[l].checkout THEN "claimed" ELSE "reserved"
      state == IF held # {} /\ shown \in {"available", "absent", "provisioned"}
                 THEN kind ELSE shown
  IN [state |-> state, held |-> held, usable |-> held # {} /\ state = "running"]

Environments == [s \in {x \in Slots : x <= count} |-> TestEnvironment(s)]

\* The slots a checkout may expect to get.
CheckoutAvailable ==
  {s \in DOMAIN Environments :
     Environments[s].held = {} /\ Environments[s].state = "available"}
-----------------------------------------------------------------------------
\* What the slots and leases owe each other.

\* No Kubernetes call failed and no operator repaired or scaled.
Undisturbed == spent.failure + spent.repair + spent.scale = 0

\* A slot is shown as available exactly when the allocator would offer it, and then
\* nothing of the last lease is left in its namespace and nobody works on it any
\* more, though returns, timers, cancels, releases and the recovery of a crashed
\* server all clean up.
OfferedIsClean ==
  /\ CheckoutAvailable = Unused
  /\ Undisturbed =>
       \A s \in CheckoutAvailable :
         /\ runtime[s] = {}
         /\ ~\E t \in tasks : t.slot = s /\ t.op \in {"activate", "cleanup"}

\* A slot shown as usable has the runtime of the lease it is shown with, and of no
\* other, in its namespace.
RunningIsReal ==
  Undisturbed =>
    \A s \in DOMAIN Environments :
      Environments[s].usable => runtime[s] = Environments[s].held

\* The leases and slots of the store implement the abstract allocator.
Owners == INSTANCE SlotOwners WITH
  holders <- [s \in Slots |-> ClaimedOn(s)],
  past <- {l \in Leases : leases[l].state \in {"released", "expired"}}

\* As long as acquisitions do not overlap, every write to leases and slots is a step of
\* the abstract allocator or none, whatever ends or dies between the write of the lease
\* and that of the slot: a slot is given to one lease, and an ended lease does not come
\* back, though CancelLeaseByRef finds it by the name of its slot.
ImplementsOwners == Owners!Spec
-----------------------------------------------------------------------------
\* Goroutines and handlers go on, and a process that is down comes back while
\* it still may (the Deployment restarts its pod).
Fairness ==
  /\ \A srv \in Servers, op \in Ops, s \in Slots \cup {0}, l \in Leases \cup {NoLease} :
       WF_vars(\E t \in tasks : /\ t.srv = srv /\ t.op = op /\ t.slot = s /\ t.lease = l
                                /\ TaskStep(t) \/ ClaimCleanup(t))
FairSpec == Spec /\ Fairness

\* While its server stays up, a clean-up ends: the slot leaves "cleaning",
\* for the pool or for an error that a return may retry.
CleaningEnds ==
  \A s \in Slots :
    slots[s].state = "cleaning"
      ~> \/ slots[s].state # "cleaning"
         \/ up # Servers \/ spent.boot > 0
=============================================================================
