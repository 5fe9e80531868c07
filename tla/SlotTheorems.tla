---------------------------- MODULE SlotTheorems ----------------------------
(***************************************************************************)
(* The slots and leases of the store implement the abstract allocator, for *)
(* any number of servers, slots, leases and disturbances.                  *)
(***************************************************************************)
EXTENDS SlotLease, WellFoundedInduction, TLAPS

LeaseRows ==
    [state : {"none", "claimed", "released", "expired"}, checkout : BOOLEAN,
     slot : Slots \cup {0}, due : BOOLEAN]
Steps ==
    {"checkout", "run", "reserve", "activate", "list", "patch", "free", "cancelled",
     "install", "installed", "failed", "succeed", "fail", "undo", "undone", "undo failed",
     "cas", "await", "teardown", "mark", "prepare", "prepared", "unprepared", "claim",
     "deprovision", "warm", "expire", "recover", "ttl"}
TaskRecords ==
    [srv : Servers, op : Ops, slot : Slots \cup {0}, lease : Leases \cup {NoLease},
     pc : Steps, victim : Leases \cup {NoLease}]

TypeOK ==
    /\ leases \in [Leases -> LeaseRows]
    /\ tasks \subseteq TaskRecords
    /\ up \subseteq Servers

\* A lease that was inserted names a slot.
Given(l) == leases[l].state # "none"
LeasesOK == \A l \in Leases : Given(l) => leases[l].slot \in Slots

Acquisitions == {t \in tasks : t.op = "acquire"}
Inserting(t) == t.pc \in {"checkout", "run"}

\* A number is with one acquisition, and free until that has inserted its lease.
AcquireOK ==
    \A t \in Acquisitions :
      /\ t.lease \in Leases /\ t.slot \in Slots
      /\ t.pc \in {"checkout", "run", "reserve", "activate"}
      /\ Inserting(t) => ~Given(t.lease)
      /\ \A u \in Acquisitions : u.lease = t.lease => u = t

\* What a cancellation has found was inserted.
VictimOK == \A t \in tasks : t.pc = "patch" => t.victim \in Leases /\ Given(t.victim)

\* While acquisitions do not overlap, the slot that is being given is still free.
SerialOK ==
    /\ \A t, u \in Acquisitions : t = u
    /\ \A t \in Acquisitions : Inserting(t) => ClaimedOn(t.slot) = {}
    /\ \A k, l \in Leases : Claimed(k) /\ Claimed(l) /\ leases[k].slot = leases[l].slot => k = l

SlotInv ==
    /\ TypeOK /\ LeasesOK /\ AcquireOK /\ VictimOK
    /\ Serial => SerialOK

\* A task that does not acquire a lease and would release only one that was inserted.
Plain(t) ==
    /\ t \in TaskRecords /\ t.op # "acquire"
    /\ t.pc = "patch" => t.victim \in Leases /\ Given(t.victim)
\* A step that starts no acquisition ...
Moves == up' \subseteq Servers /\ \A t \in tasks' : t \in tasks \/ Plain(t)
\* ... and inserts no lease.
Keeps ==
    /\ leases' \in [Leases -> LeaseRows]
    /\ \A l \in Leases : /\ Given(l)' <=> Given(l)
                         /\ Claimed(l)' => Claimed(l)
                         /\ leases'[l].slot = leases[l].slot
-----------------------------------------------------------------------------
\* Sets of numbers.

\* A set of numbers that is not empty has a smallest one.
LEMMA HasMin ==
    ASSUME NEW S, S \subseteq Nat, S # {} PROVE \E x \in S : \A y \in S : x <= y
<1>1. OpToRel(<, Nat) = {ss \in Nat \X Nat : ss[1] < ss[2]}
    BY Zenon DEF OpToRel
<1>2. IsWellFoundedOn(OpToRel(<, Nat), Nat)
    BY NatLessThanWellFounded
<1>3. IsWellFoundedOn({ss \in Nat \X Nat : ss[1] < ss[2]}, Nat)
    BY <1>1, <1>2, Zenon
<1>4. PICK x \in S : \A y \in S : ~(<<y, x>> \in {ss \in Nat \X Nat : ss[1] < ss[2]})
    BY <1>3, WFMin
<1>5. ASSUME NEW y \in S PROVE x <= y
  <2>1. <<y, x>> \in Nat \X Nat /\ <<y, x>>[1] = y /\ <<y, x>>[2] = x
      OBVIOUS
  <2>2. ~(y < x)
      BY <1>4, <2>1
  <2>3. x \in Nat /\ y \in Nat
      OBVIOUS
  <2> QED BY <2>2, <2>3
<1> QED BY <1>5

\* Min of the community modules picks it.
LEMMA MinIsLeast ==
    ASSUME NEW S, S \subseteq Nat, S # {} PROVE Min(S) \in S
BY HasMin DEF Min

\* CancelLeaseByRef finds a claimed lease of the slot or none.
LEMMA ByRefIsClaimed ==
    ASSUME NEW s PROVE  ByRef(s) = NoLease \/ (ByRef(s) \in Leases /\ Claimed(ByRef(s)))
<1>1. CASE ClaimedOn(s) = {}
    BY <1>1 DEF ByRef
<1>2. CASE ClaimedOn(s) # {}
  <2>1. ClaimedOn(s) \subseteq Nat
      BY SlotsAssumption DEF ClaimedOn
  <2>2. Min(ClaimedOn(s)) \in ClaimedOn(s)
      BY <1>2, <2>1, MinIsLeast
  <2> QED BY <1>2, <2>2 DEF ByRef, ClaimedOn
<1> QED BY <1>1, <1>2
-----------------------------------------------------------------------------
\* Tasks.

\* The task of an operation that does not acquire is plain.
LEMMA NewTask ==
    ASSUME NEW srv \in Servers, NEW op \in Ops \ {"acquire"}, NEW s \in Slots \cup {0},
           NEW l \in Leases \cup {NoLease}, NEW pc \in Steps \ {"patch"}
    PROVE  Plain(Task(srv, op, s, l, pc))
BY DEF Plain, Task, TaskRecords

\* A task that goes on stays plain.
LEMMA PlainGoes ==
    ASSUME TypeOK, NEW t \in tasks, t.op # "acquire", NEW pc \in Steps \ {"patch"},
           Goto(t, pc)
    PROVE  \A u \in tasks' : u \in tasks \/ Plain(u)
<1>1. t \in TaskRecords
    BY DEF TypeOK
<1>2. Plain([t EXCEPT !.pc = pc])
    BY <1>1 DEF Plain, TaskRecords
<1> QED BY <1>2 DEF Goto

\* Such steps keep the invariant.
LEMMA MovesKeep == ASSUME SlotInv, Moves, Keeps PROVE SlotInv'
<1> USE DEF SlotInv
<1>1. TypeOK'
    BY DEF TypeOK, Moves, Keeps, Plain
<1>2. \A l \in Leases : (Given(l)' <=> Given(l)) /\ (Claimed(l)' => Claimed(l))
    BY DEF Keeps
<1>3. \A s : ClaimedOn(s)' \subseteq ClaimedOn(s)
    BY DEF Keeps, ClaimedOn
<1>4. Acquisitions' \subseteq Acquisitions
    BY DEF Acquisitions, Moves, Plain
<1>5. LeasesOK'
    BY <1>2 DEF LeasesOK, Keeps
<1>6. AcquireOK'
    BY <1>2, <1>4 DEF AcquireOK
<1>7. VictimOK'
    BY <1>2 DEF VictimOK, Moves, Plain
<1>8. Serial => SerialOK'
    BY <1>2, <1>3, <1>4 DEF SerialOK, Keeps
<1> QED BY <1>1, <1>5, <1>6, <1>7, <1>8
-----------------------------------------------------------------------------
\* The steps of tasks and requests that start no acquisition.

\* A cancellation, once it has looked for its lease.
LEMMA CancelFreeMoves == ASSUME SlotInv, NEW t \in tasks, CancelFree(t) PROVE Moves
<1> USE DEF SlotInv
<1>1. t \in TaskRecords /\ t.op # "acquire"
    BY DEF TypeOK, AcquireOK, Acquisitions, CancelFree
<1>2. CASE Done(t)
    BY <1>2 DEF Moves, CancelFree, Done, TypeOK
<1>3. CASE Goto(t, "cancelled")
  <2>1. "cancelled" \in Steps \ {"patch"}
      BY DEF Steps
  <2> QED BY <1>1, <1>3, <2>1, PlainGoes DEF Moves, CancelFree, TypeOK
<1> QED BY <1>2, <1>3, Zenon DEF CancelFree

\* The steps of an activation.
LEMMA ActivationMoves == ASSUME SlotInv, NEW t \in tasks, ActivationStep(t) PROVE Moves
<1> USE DEF SlotInv
<1>1. t \in TaskRecords /\ t.op = "activate" /\ leases' = leases /\ up' = up
    BY DEF TypeOK, ActivationStep, Install, UndoActivation, Interrupted, StillActivating,
           Activated, ActivationFailed, ActivationUndone, ActivationEnds, At
<1>2. \/ Done(t) \/ Goto(t, "installed") \/ Goto(t, "failed") \/ Goto(t, "succeed")
      \/ Goto(t, "fail") \/ Goto(t, "undo") \/ Goto(t, "undone") \/ Goto(t, "undo failed")
      \/ Goto(t, "list")
  <2> HIDE DEF SlotInv
  <2>1. CASE \E ok \in BOOLEAN : Install(t, ok)
      BY <2>1 DEF Install
  <2>2. CASE \E ok \in BOOLEAN : UndoActivation(t, ok)
      BY <2>2 DEF UndoActivation
  <2>3. CASE StillActivating(t) \/ Interrupted(t)
      BY <2>3, Zenon DEF StillActivating, Interrupted
  <2>4. CASE Activated(t) \/ ActivationFailed(t) \/ ActivationUndone(t) \/ ActivationEnds(t)
      BY <2>4, Zenon DEF Activated, ActivationFailed, ActivationUndone, ActivationEnds
  <2> QED BY <2>1, <2>2, <2>3, <2>4 DEF ActivationStep
<1>3. CASE Done(t)
    BY <1>1, <1>3 DEF Moves, Done, TypeOK
<1>4. ASSUME NEW pc \in Steps \ {"patch"}, Goto(t, pc) PROVE Moves
    BY <1>1, <1>4, PlainGoes DEF Moves, TypeOK
<1> QED BY <1>2, <1>3, <1>4 DEF Steps

\* The steps of a clean-up, a warm-up, a repair and a change of the count.
LEMMA UpkeepMoves ==
    ASSUME SlotInv, NEW t \in tasks, CleanupStep(t) \/ WarmStep(t) \/ ScaleStep(t) PROVE Moves
<1>1. t \in TaskRecords /\ leases' = leases /\ up' = up /\ up \subseteq Servers
    BY DEF SlotInv, TypeOK, CleanupStep, WarmStep, ScaleStep, AwaitActivation, CleanupEnds,
           Teardown, WarmMark, ClaimRepair, Prepared, Prepare, ScaleWarm, Deprovision
<1>2. t.op # "acquire"
    BY DEF CleanupStep, WarmStep, ScaleStep, AwaitActivation, CleanupEnds, Teardown,
           WarmMark, ClaimRepair, Prepared, Prepare, ScaleWarm, Deprovision, At,
           SlotInv, AcquireOK, Acquisitions
<1>3. \/ Done(t) \/ Goto(t, "teardown") \/ Goto(t, "failed") \/ Goto(t, "list")
      \/ Goto(t, "cancelled") \/ Goto(t, "prepare") \/ Goto(t, "prepared")
      \/ Goto(t, "unprepared") \/ Goto(t, "warm")
      \/ Become(t, Warmups(t.srv, {s \in Slots : Cold(s)}))
  <2>1. CASE AwaitActivation(t) \/ CleanupEnds(t)
      BY <2>1, Zenon DEF AwaitActivation, CleanupEnds
  <2>2. CASE \E ok \in BOOLEAN : Teardown(t, ok)
      BY <2>2 DEF Teardown
  <2>3. CASE WarmMark(t)
      BY <2>3 DEF WarmMark
  <2>4. CASE ClaimRepair(t)
      BY <2>4 DEF ClaimRepair
  <2>5. CASE Prepared(t)
      BY <2>5, Zenon DEF Prepared
  <2>6. CASE \E ok \in BOOLEAN : Prepare(t, ok)
      BY <2>6 DEF Prepare
  <2>7. CASE \E ok \in BOOLEAN : Deprovision(t, ok)
      BY <2>7 DEF Deprovision
  <2>8. CASE ScaleWarm(t)
      BY <2>8, Zenon DEF ScaleWarm
  <2> QED
      BY <2>1, <2>2, <2>3, <2>4, <2>5, <2>6, <2>7, <2>8, Zenon
      DEF CleanupStep, WarmStep, ScaleStep
<1>4. CASE Done(t)
    BY <1>1, <1>4 DEF Moves, Done
<1>5. ASSUME NEW pc \in Steps \ {"patch"}, Goto(t, pc) PROVE Moves
    BY <1>1, <1>2, <1>5, PlainGoes DEF Moves, SlotInv
<1>6. CASE Become(t, Warmups(t.srv, {s \in Slots : Cold(s)}))
  <2>1. ASSUME NEW s \in Slots PROVE Plain(Task(t.srv, "warm", s, NoLease, "mark"))
    <3>1. t.srv \in Servers
        BY <1>1 DEF TaskRecords
    <3>2. "warm" \in Ops \ {"acquire"} /\ "mark" \in Steps \ {"patch"}
        BY DEF Ops, Steps
    <3> QED BY <3>1, <3>2, NewTask
  <2>2. \A u \in Warmups(t.srv, {s \in Slots : Cold(s)}) : Plain(u)
      BY <2>1 DEF Warmups
  <2> QED BY <1>1, <1>6, <2>2 DEF Become, Moves
<1> QED BY <1>3, <1>4, <1>5, <1>6 DEF Steps

\* Looking for the lease to cancel, and after it is released.
LEMMA CancelMoves ==
    ASSUME SlotInv, NEW t \in tasks, CancelList(t) \/ CancelPatch(t) PROVE Moves
<1>1. t \in TaskRecords /\ up' = up /\ up \subseteq Servers
    BY DEF SlotInv, TypeOK, CancelList, CancelPatch
<1>2. t.op # "acquire"
    BY DEF CancelList, CancelPatch, SlotInv, AcquireOK, Acquisitions
<1>3. ASSUME NEW pc \in Steps \ {"patch"}, Goto(t, pc) PROVE Moves
    BY <1>1, <1>2, <1>3, PlainGoes DEF Moves, SlotInv
<1>4. CASE Done(t)
    BY <1>1, <1>4 DEF Moves, Done
<1>5. CASE CancelPatch(t)
  <2>1. Done(t) \/ Goto(t, "free") \/ Goto(t, "cancelled")
      BY <1>5 DEF CancelPatch
  <2> QED BY <2>1, <1>3, <1>4 DEF Steps
<1>6. CASE CancelList(t) /\ ByRef(t.slot) = NoLease
  <2>1. Done(t) \/ Goto(t, "cancelled")
      BY <1>6 DEF CancelList
  <2> QED BY <2>1, <1>3, <1>4 DEF Steps
<1>7. CASE CancelList(t) /\ ByRef(t.slot) # NoLease
  <2> DEFINE aims == [t EXCEPT !.pc = "patch", !.victim = ByRef(t.slot)]
  <2>1. ByRef(t.slot) \in Leases /\ Given(ByRef(t.slot))
      BY <1>7, ByRefIsClaimed DEF Claimed, Given
  <2>2. Plain(aims)
      BY <1>1, <1>2, <2>1, ZenonT(40) DEF Plain, TaskRecords, Steps
  <2>3. tasks' = (tasks \ {t}) \cup {aims}
      BY <1>7 DEF CancelList
  <2> HIDE DEF aims
  <2> QED BY <1>1, <2>2, <2>3 DEF Moves
<1> QED BY <1>5, <1>6, <1>7

\* A clean-up is claimed, and a lease is given a new deadline.
LEMMA ClaimMoves ==
    ASSUME SlotInv, NEW t \in tasks, ClaimCleanup(t) \/ WriteTTL(t) PROVE Moves
<1>1. t \in TaskRecords /\ up' = up /\ up \subseteq Servers
    BY DEF SlotInv, TypeOK, ClaimCleanup, WriteTTL
<1>2. CASE Done(t)
    BY <1>1, <1>2 DEF Moves, Done
<1>3. CASE Become(t, Started(t.srv, "cleanup", t.slot, t.lease, "await"))
  <2>1. "cleanup" \in Ops \ {"acquire"} /\ "await" \in Steps \ {"patch"}
      BY DEF Ops, Steps
  <2>2. /\ t.srv \in Servers /\ t.slot \in Slots \cup {0} /\ t.lease \in Leases \cup {NoLease}
      BY <1>1 DEF TaskRecords
  <2>3. Plain(Task(t.srv, "cleanup", t.slot, t.lease, "await"))
      BY <2>1, <2>2, NewTask
  <2> QED BY <1>1, <1>3, <2>3 DEF Moves, Become, Started
<1>4. Done(t) \/ Become(t, Started(t.srv, "cleanup", t.slot, t.lease, "await"))
  <2>1. CASE ClaimCleanup(t)
      BY <2>1 DEF ClaimCleanup
  <2>2. CASE WriteTTL(t)
      BY <2>2, Zenon DEF WriteTTL
  <2> QED BY <2>1, <2>2
<1> QED BY <1>2, <1>3, <1>4

\* A process sweeps the leases and takes up what was in flight.
LEMMA BootMoves == ASSUME SlotInv, NEW t \in tasks, BootStep(t) PROVE Moves
<1>1. t \in TaskRecords /\ t.op = "boot" /\ up' = up /\ up \subseteq Servers
    BY DEF SlotInv, TypeOK, BootStep, Expired, Recover, ExpireOne, At
<1>2. CASE \E l \in Leases : ExpireOne(t, l)
    BY <1>1, <1>2 DEF ExpireOne, Moves
<1>3. CASE Expired(t)
  <2>1. Goto(t, "recover")
      BY <1>3 DEF Expired
  <2>2. "recover" \in Steps \ {"patch"}
      BY DEF Steps
  <2> QED BY <1>1, <2>1, <2>2, PlainGoes DEF Moves, SlotInv
<1>4. CASE Recover(t)
  <2> DEFINE held == {l \in Leases : Checkout(l)}
             orphans == {s \in Slots : Orphaned(s)}
             cold == {s \in Slots : Cold(s) /\ ~\E l \in held : leases[l].slot = s}
             R == UNION {Resumed(t.srv, l) : l \in held}
             O == UNION {Started(t.srv, "cleanup", s, NoLease, "await") : s \in orphans}
             W == Warmups(t.srv, cold)
  <2>1. Become(t, R \cup O \cup W)
      BY <1>4, Zenon DEF Recover
  <2>2. t.srv \in Servers
      BY <1>1 DEF TaskRecords
  <2>3. /\ {"activate", "cleanup", "warm"} \subseteq Ops \ {"acquire"}
        /\ {"install", "await", "mark"} \subseteq Steps \ {"patch"}
      BY DEF Ops, Steps
  <2>4. ASSUME NEW l \in held, NEW u \in Resumed(t.srv, l) PROVE Plain(u)
    <3>1. l \in Leases /\ leases[l].slot \in Slots
        BY DEF SlotInv, LeasesOK, Checkout, Claimed, Given
    <3>2. Plain(Task(t.srv, "activate", leases[l].slot, l, "install"))
        BY <2>2, <2>3, <3>1, NewTask
    <3>3. Plain(Task(t.srv, "cleanup", leases[l].slot, l, "await"))
        BY <2>2, <2>3, <3>1, NewTask
    <3>4. \/ u = Task(t.srv, "activate", leases[l].slot, l, "install")
          \/ u = Task(t.srv, "cleanup", leases[l].slot, l, "await")
        BY DEF Resumed, Started
    <3> QED BY <3>2, <3>3, <3>4
  <2>5. ASSUME NEW s \in orphans, NEW u \in Started(t.srv, "cleanup", s, NoLease, "await")
        PROVE  Plain(u)
    <3>1. Plain(Task(t.srv, "cleanup", s, NoLease, "await"))
        BY <2>2, <2>3, NewTask
    <3> QED BY <3>1 DEF Started
  <2>6. ASSUME NEW u \in Warmups(t.srv, cold) PROVE Plain(u)
    <3>1. \A s \in cold : Plain(Task(t.srv, "warm", s, NoLease, "mark"))
        BY <2>2, <2>3, NewTask
    <3> QED BY <3>1 DEF Warmups
  <2>7. /\ \A u \in R : \E l \in held : u \in Resumed(t.srv, l)
        /\ \A u \in O : \E s \in orphans : u \in Started(t.srv, "cleanup", s, NoLease, "await")
      BY Zenon
  <2> HIDE DEF R, O, W
  <2>8. \A u \in tasks' : u \in tasks \/ Plain(u)
      BY <2>1, <2>4, <2>5, <2>6, <2>7 DEF W, Become
  <2> QED BY <1>1, <2>8 DEF Moves
<1> QED BY <1>2, <1>3, <1>4 DEF BootStep


\* A request that adds a task, or none.
LEMMA TaskAdded ==
    ASSUME SlotInv, up' = up, NEW op \in Ops \ {"acquire"}, NEW pc \in Steps \ {"patch"},
           NEW srv \in Servers, NEW s \in Slots \cup {0}, NEW l \in Leases \cup {NoLease},
           tasks' = tasks \cup {Task(srv, op, s, l, pc)}
    PROVE  Moves
<1>1. Plain(Task(srv, op, s, l, pc))
    BY NewTask
<1> QED BY <1>1 DEF Moves, SlotInv, TypeOK

\* The requests that do not acquire.
LEMMA RequestMoves ==
    ASSUME SlotInv, NEW srv \in up, Request(srv),
           ~\E l \in Leases, checkout \in BOOLEAN : Pick(srv, l, checkout)
    PROVE  Moves
<1>1. srv \in Servers /\ up \subseteq Servers
    BY DEF SlotInv, TypeOK
<1>2. ASSUME tasks' = tasks, up' = up PROVE Moves
    BY <1>1, <1>2 DEF Moves
<1>3. /\ {"claim", "cancel", "extend", "repair", "scale"} \subseteq Ops \ {"acquire"}
      /\ {"cas", "list", "ttl", "claim", "deprovision", "free"} \subseteq Steps \ {"patch"}
    BY DEF Ops, Steps
<1>4. \A l \in Leases : Claimed(l) => leases[l].slot \in Slots
    BY DEF SlotInv, LeasesOK, Given, Claimed
<1>5. ASSUME NEW l \in Leases, ReleaseByToken(srv, l) PROVE Moves
  <2>1. CASE ReleaseRunLease(srv, l)
    <3> DEFINE pc == IF Claimed(l) THEN "patch" ELSE "free"
               new == [Task(srv, "cancel", leases[l].slot, l, pc) EXCEPT !.victim = l]
    <3>1. Given(l) /\ leases[l].slot \in Slots
        BY <2>1 DEF ReleaseRunLease, Given, SlotInv, LeasesOK
    <3>2. pc \in Steps
        BY DEF Steps
    <3>3. Task(srv, "cancel", leases[l].slot, l, pc) \in TaskRecords
        BY <1>1, <1>3, <3>1, <3>2 DEF Task, TaskRecords
    <3>4. Plain(new)
        BY <3>1, <3>3, <1>3 DEF Plain, TaskRecords, Task
    <3>5. tasks' = tasks \cup {new} /\ up' = up
        BY <2>1, Zenon DEF ReleaseRunLease
    <3> HIDE DEF new
    <3> QED BY <1>1, <3>4, <3>5 DEF Moves
  <2>2. CASE Checkout(l) /\ tasks' = tasks \cup {Task(srv, "claim", leases[l].slot, l, "cas")}
             /\ up' = up
      BY <1>1, <1>3, <1>4, <2>2, TaskAdded DEF Checkout
  <2> QED BY <1>5, <2>1, <2>2, Zenon DEF ReleaseByToken
<1>6. ASSUME NEW l \in Leases, Return(srv, l) PROVE Moves
    BY <1>1, <1>3, <1>4, <1>6, TaskAdded DEF Return, Checkout
<1>7. ASSUME NEW l \in Leases, Extend(srv, l) PROVE Moves
    BY <1>2, <1>7 DEF Extend
<1>8. ASSUME NEW l \in Leases, AskExtension(srv, l) PROVE Moves
    BY <1>1, <1>3, <1>4, <1>8, TaskAdded DEF AskExtension, Extensible, Checkout
<1>9. ASSUME NEW s \in Slots, Cancel(srv, s) PROVE Moves
    BY <1>1, <1>3, <1>9, TaskAdded DEF Cancel
<1>10. ASSUME NEW s \in Slots, ReturnOrphan(srv, s) PROVE Moves
    BY <1>1, <1>3, <1>10, TaskAdded DEF ReturnOrphan
<1>11. ASSUME NEW s \in Slots, Repair(srv, s) PROVE Moves
    BY <1>1, <1>3, <1>11, TaskAdded DEF Repair
<1>12. ASSUME NEW s \in Slots, TimerFires(srv, s) PROVE Moves
  <2>1. CASE Claimed(timers[srv][s])
    <3>1. timers[srv][s] \in Leases
        BY <2>1 DEF Claimed
    <3>2. tasks' = tasks \cup {Task(srv, "claim", s, timers[srv][s], "cas")} /\ up' = up
        BY <1>12, <2>1 DEF TimerFires
    <3> QED BY <1>1, <1>3, <3>1, <3>2, TaskAdded
  <2>2. CASE ~Claimed(timers[srv][s])
      BY <1>2, <1>12, <2>2 DEF TimerFires
  <2> QED BY <2>1, <2>2
<1>13. ASSUME NEW n \in 0..Cardinality(Slots), Scale(srv, n) PROVE Moves
    BY <1>1, <1>3, <1>13, TaskAdded DEF Scale
<1> QED
    BY <1>5, <1>6, <1>7, <1>8, <1>9, <1>10, <1>11, <1>12, <1>13, Zenon DEF Request

\* Time, crashes and starts.
LEMMA EnvironmentMoves == ASSUME SlotInv, Environment PROVE Moves
<1>1. up \subseteq Servers
    BY DEF SlotInv, TypeOK
<1>2. CASE \E l \in Leases : DeadlinePasses(l)
    BY <1>1, <1>2 DEF DeadlinePasses, Moves
<1>3. CASE \E s \in Slots : RowAges(s)
    BY <1>1, <1>3 DEF RowAges, Moves
<1>4. ASSUME NEW srv \in Servers, Crash(srv) PROVE Moves
    BY <1>1, <1>4 DEF Crash, Moves
<1>5. ASSUME NEW srv \in Servers, Boot(srv) PROVE Moves
  <2>1. "boot" \in Ops \ {"acquire"} /\ "expire" \in Steps \ {"patch"}
      BY DEF Ops, Steps
  <2>2. Plain(Task(srv, "boot", 0, NoLease, "expire"))
      BY <2>1, NewTask
  <2> QED BY <1>1, <1>5, <2>2 DEF Boot, Moves
<1> QED BY <1>2, <1>3, <1>4, <1>5 DEF Environment

-----------------------------------------------------------------------------
\* The writes of leases.

\* A lease that was inserted ends, or its deadline is written.
Ends == \E l \in Leases, state \in {"released", "expired"} : Given(l) /\ End(l, state)
Dates == \E l \in Leases, due \in BOOLEAN : Claimed(l) /\ Due(l, due)

\* Neither inserts one.
LEMMA WritesKeep == ASSUME SlotInv, leases' = leases \/ Ends \/ Dates PROVE Keeps
<1>1. leases \in [Leases -> LeaseRows]
    BY DEF SlotInv, TypeOK
<1>2. CASE leases' = leases
    BY <1>1, <1>2 DEF Keeps, Given, Claimed
<1>3. CASE Ends
  <2>1. PICK l \in Leases, state \in {"released", "expired"} : Given(l) /\ End(l, state)
      BY <1>3 DEF Ends
  <2>2. leases' = [leases EXCEPT ![l] = [leases[l] EXCEPT !.state = state]]
      BY <2>1 DEF End, Patch
  <2>3. /\ [leases[l] EXCEPT !.state = state] \in LeaseRows
        /\ [leases[l] EXCEPT !.state = state].slot = leases[l].slot
        /\ [leases[l] EXCEPT !.state = state].state = state
      BY <1>1 DEF LeaseRows
  <2> QED BY <1>1, <2>1, <2>2, <2>3 DEF Keeps, Given, Claimed
<1>4. CASE Dates
  <2>1. PICK l \in Leases, due \in BOOLEAN : Claimed(l) /\ Due(l, due)
      BY <1>4 DEF Dates
  <2>2. leases' = [leases EXCEPT ![l] = [leases[l] EXCEPT !.due = due]]
      BY <2>1 DEF Due, Patch
  <2>3. /\ [leases[l] EXCEPT !.due = due] \in LeaseRows
        /\ [leases[l] EXCEPT !.due = due].slot = leases[l].slot
        /\ [leases[l] EXCEPT !.due = due].state = leases[l].state
      BY <1>1 DEF LeaseRows
  <2> QED BY <1>1, <2>1, <2>2, <2>3 DEF Keeps, Given, Claimed
<1> QED BY <1>2, <1>3, <1>4

\* A task writes leases by its cancellation, its sweep or its extension.
LEMMA TaskWrites ==
    ASSUME SlotInv, NEW t \in tasks, TaskStep(t) \/ ClaimCleanup(t), ~Insert(t)
    PROVE  leases' = leases \/ Ends \/ Dates
<1>1. CASE ActivationStep(t) \/ ClaimCleanup(t) \/ Reserve(t) \/ StartActivation(t)
           \/ CancelList(t) \/ CancelFree(t) \/ Expired(t) \/ Recover(t)
    BY <1>1 DEF ActivationStep, Install, UndoActivation, Interrupted, StillActivating,
           Activated, ActivationFailed, ActivationUndone, ActivationEnds, ClaimCleanup, Reserve,
           StartActivation, CancelList, CancelFree, Expired, Recover
<1>2. CASE CleanupStep(t) \/ WarmStep(t) \/ ScaleStep(t)
    BY <1>2 DEF CleanupStep, WarmStep, ScaleStep, AwaitActivation, CleanupEnds, Teardown,
           WarmMark, ClaimRepair, Prepared, Prepare, ScaleWarm, Deprovision
<1>3. CASE CancelPatch(t)
    BY <1>3 DEF CancelPatch, Ends, SlotInv, VictimOK
<1>4. CASE \E l \in Leases : ExpireOne(t, l)
    BY <1>4 DEF ExpireOne, StaleLeases, Ends, Claimed, Given
<1>5. CASE WriteTTL(t)
    BY <1>5, ByRefIsClaimed DEF WriteTTL, Dates
<1> QED
    BY <1>1, <1>2, <1>3, <1>4, <1>5 DEF TaskStep, AcquireStep, CancelStep, BootStep

\* A request and the environment write deadlines only.
LEMMA RequestWrites ==
    ASSUME SlotInv, Environment \/ \E srv \in up : Request(srv)
    PROVE  leases' = leases \/ Dates
<1>1. CASE Environment
    BY <1>1 DEF Environment, DeadlinePasses, RowAges, Crash, Boot, Dates
<1>2. ASSUME NEW srv \in up, Request(srv) PROVE leases' = leases \/ Dates
  <2>1. CASE \E l \in Leases : Extend(srv, l)
      BY <2>1 DEF Extend, Dates
  <2>2. CASE ~\E l \in Leases : Extend(srv, l)
      BY <1>2, <2>2 DEF Request, Pick, ReleaseByToken, ReleaseRunLease, Return, AskExtension,
             Cancel, ReturnOrphan, Repair, TimerFires, Scale
  <2> QED BY <2>1, <2>2
<1> QED BY <1>1, <1>2
-----------------------------------------------------------------------------
\* The steps of an acquisition.

\* A slot is picked and a number taken.
LEMMA PickKeeps ==
    ASSUME SlotInv, NEW srv \in Servers, NEW l \in Leases, NEW checkout \in BOOLEAN,
           Pick(srv, l, checkout)
    PROVE  SlotInv'
<1> DEFINE s == Min(Unused)
           new == Task(srv, "acquire", s, l, IF checkout THEN "checkout" ELSE "run")
<1>1. tasks' = tasks \cup {new} /\ leases' = leases /\ up' = up
    BY DEF Pick
<1>2. s \in Slots /\ ClaimedOn(s) = {}
  <2>1. Unused \subseteq Nat /\ Unused # {}
      BY SlotsAssumption DEF Pick, Unused, ReadySlots
  <2>2. s \in Unused
      BY <2>1, MinIsLeast
  <2> QED BY <2>2 DEF Unused, ReadySlots
<1>3. ~Given(l) /\ \A t \in Acquisitions : t.lease # l
    BY DEF Pick, NextNumber, Taken, Given, Acquisitions
<1>4. Serial => Acquisitions = {}
    BY DEF Pick, Acquisitions
<1> HIDE DEF s
<1>5. /\ new \in TaskRecords /\ new.op = "acquire" /\ new.lease = l /\ new.slot = s
      /\ new.pc \in {"checkout", "run"}
    BY <1>2 DEF Task, TaskRecords, Ops, Steps
<1> HIDE DEF new
<1>6. Acquisitions' = Acquisitions \cup {new}
    BY <1>1, <1>5 DEF Acquisitions
<1> USE DEF SlotInv
<1>7. TypeOK' /\ LeasesOK'
    BY <1>1, <1>5 DEF TypeOK, LeasesOK, Given
<1>8. AcquireOK'
    BY <1>1, <1>2, <1>3, <1>5, <1>6 DEF AcquireOK, Given, Inserting
<1>9. VictimOK'
    BY <1>1, <1>5 DEF VictimOK, Given
<1>10. Serial => SerialOK'
    BY <1>1, <1>2, <1>4, <1>5, <1>6 DEF SerialOK, Claimed, ClaimedOn, Inserting
<1> QED BY <1>7, <1>8, <1>9, <1>10

\* The task of an acquisition that has inserted its lease, or is about to.
LEMMA AcquisitionGoes ==
    ASSUME SlotInv, NEW t \in Acquisitions, NEW pc \in {"reserve", "activate"}, Goto(t, pc)
    PROVE  LET next == [t EXCEPT !.pc = pc]
           IN  /\ next \in TaskRecords /\ next.op = "acquire" /\ next.pc = pc
               /\ next.lease = t.lease /\ next.slot = t.slot
               /\ Acquisitions' = (Acquisitions \ {t}) \cup {next}
               /\ tasks' = (tasks \ {t}) \cup {next}
<1>1. t \in TaskRecords /\ t.op = "acquire"
    BY DEF SlotInv, TypeOK, Acquisitions
<1> DEFINE next == [t EXCEPT !.pc = pc]
<1>2. /\ next \in TaskRecords /\ next.op = "acquire" /\ next.pc = pc
      /\ next.lease = t.lease /\ next.slot = t.slot
    BY <1>1 DEF TaskRecords, Steps
<1>3. tasks' = (tasks \ {t}) \cup {next}
    BY DEF Goto
<1> HIDE DEF next
<1>4. Acquisitions' = (Acquisitions \ {t}) \cup {next}
    BY <1>1, <1>2, <1>3 DEF Acquisitions
<1> QED BY <1>2, <1>3, <1>4 DEF next

\* The row of the slot is reserved, or the lease is to be cancelled.
LEMMA ReserveKeeps == ASSUME SlotInv, NEW t \in tasks, Reserve(t) PROVE SlotInv'
<1>1. t \in Acquisitions /\ t \in TaskRecords /\ t.pc = "reserve" /\ leases' = leases /\ up' = up
    BY DEF Reserve, At, Acquisitions, SlotInv, TypeOK
<1>2. Keeps
    BY <1>1, WritesKeep
<1>3. CASE Done(t)
    BY <1>1, <1>2, <1>3, MovesKeep DEF Moves, Done, SlotInv, TypeOK
<1>4. CASE Become(t, {Task(t.srv, "cancel", t.slot, t.lease, "list")})
  <2>1. "cancel" \in Ops \ {"acquire"} /\ "list" \in Steps \ {"patch"}
      BY DEF Ops, Steps
  <2>2. Plain(Task(t.srv, "cancel", t.slot, t.lease, "list"))
      BY <1>1, <2>1, NewTask DEF TaskRecords
  <2> QED BY <1>1, <1>2, <1>4, <2>2, MovesKeep DEF Moves, Become, SlotInv, TypeOK
<1>5. CASE Goto(t, "activate")
  <2> DEFINE next == [t EXCEPT !.pc = "activate"]
  <2>1. /\ next \in TaskRecords /\ next.op = "acquire" /\ next.pc = "activate"
        /\ next.lease = t.lease /\ next.slot = t.slot
        /\ Acquisitions' = (Acquisitions \ {t}) \cup {next}
        /\ tasks' = (tasks \ {t}) \cup {next}
      BY <1>1, <1>5, AcquisitionGoes
  <2> HIDE DEF next
  <2> USE DEF SlotInv
  <2>2. TypeOK' /\ LeasesOK' /\ VictimOK'
      BY <1>1, <2>1 DEF TypeOK, LeasesOK, VictimOK, Given
  <2>3. AcquireOK'
      BY <1>1, <2>1 DEF AcquireOK, Given, Inserting
  <2>4. Serial => SerialOK'
      BY <1>1, <2>1 DEF SerialOK, Claimed, ClaimedOn, Inserting
  <2> QED BY <2>2, <2>3, <2>4
<1> QED BY <1>3, <1>4, <1>5 DEF Reserve

\* The lease is inserted.
LEMMA InsertKeeps == ASSUME SlotInv, NEW t \in tasks, Insert(t) PROVE SlotInv'
<1> DEFINE row == [state |-> "claimed", checkout |-> t.pc = "checkout", slot |-> t.slot,
                   due |-> FALSE]
           next == [t EXCEPT !.pc = "reserve"]
<1>1. t \in Acquisitions /\ Inserting(t) /\ up' = up /\ Goto(t, "reserve")
    BY DEF Insert, Acquisitions, Inserting
<1>2. /\ t.lease \in Leases /\ t.slot \in Slots /\ ~Given(t.lease)
      /\ \A u \in Acquisitions : u.lease = t.lease => u = t
    BY <1>1 DEF SlotInv, AcquireOK
<1>3. /\ next \in TaskRecords /\ next.op = "acquire" /\ next.pc = "reserve"
      /\ next.lease = t.lease /\ next.slot = t.slot
      /\ Acquisitions' = (Acquisitions \ {t}) \cup {next}
      /\ tasks' = (tasks \ {t}) \cup {next}
    BY <1>1, AcquisitionGoes
<1>4. row \in LeaseRows /\ row.state = "claimed" /\ row.slot = t.slot
    BY <1>2 DEF LeaseRows
<1>5. leases' = [leases EXCEPT ![t.lease] = row]
    BY DEF Insert, Patch
<1> HIDE DEF next, row
<1> USE DEF SlotInv
<1>6. TypeOK'
    BY <1>1, <1>2, <1>3, <1>4, <1>5 DEF TypeOK
<1>7. \A l \in Leases : leases'[l] = IF l = t.lease THEN row ELSE leases[l]
    BY <1>5 DEF TypeOK
<1>8. LeasesOK' /\ VictimOK'
    BY <1>2, <1>3, <1>4, <1>7 DEF LeasesOK, VictimOK, Given
<1>9. AcquireOK'
    BY <1>1, <1>2, <1>3, <1>7 DEF AcquireOK, Given, Inserting
<1>10. Serial => SerialOK'
    BY <1>1, <1>2, <1>3, <1>4, <1>7 DEF SerialOK, Claimed, ClaimedOn, Inserting
<1> QED BY <1>6, <1>8, <1>9, <1>10
-----------------------------------------------------------------------------
\* The invariant holds throughout, however the acquisitions overlap.

\* It holds at the start ...
LEMMA InitInv == Init => SlotInv
BY DEF Init, SlotInv, TypeOK, LeaseRows, NoLeaseRow, LeasesOK, Given, AcquireOK, Acquisitions,
       VictimOK, SerialOK, Claimed

\* ... and every step of a task ...
LEMMA TaskKeeps ==
    ASSUME SlotInv, NEW t \in tasks, TaskStep(t) \/ ClaimCleanup(t) PROVE SlotInv'
<1>1. CASE Insert(t)
    BY <1>1, InsertKeeps
<1>2. CASE Reserve(t)
    BY <1>2, ReserveKeeps
<1>3. CASE ~Insert(t) /\ ~Reserve(t)
  <2>1. Keeps
      BY <1>3, TaskWrites, WritesKeep
  <2>2. CASE StartActivation(t)
    <3>1. t \in TaskRecords /\ up' = up
        BY <2>2 DEF SlotInv, TypeOK, StartActivation
    <3>2. /\ {"activate", "cancel"} \subseteq Ops \ {"acquire"}
          /\ {"install", "list"} \subseteq Steps \ {"patch"}
        BY DEF Ops, Steps
    <3>3. /\ Plain(Task(t.srv, "activate", t.slot, t.lease, "install"))
          /\ Plain(Task(t.srv, "cancel", t.slot, t.lease, "list"))
        BY <3>1, <3>2, NewTask DEF TaskRecords
    <3>4. Moves
        BY <2>2, <3>1, <3>3 DEF StartActivation, Become, Started, Moves, SlotInv, TypeOK
    <3> QED BY <2>1, <3>4, MovesKeep
  <2>3. CASE ~StartActivation(t)
    <3>1. Moves
        BY <1>3, <2>3, CancelFreeMoves, CancelMoves, ActivationMoves, UpkeepMoves, ClaimMoves,
           BootMoves
        DEF TaskStep, AcquireStep, CancelStep
    <3> QED BY <2>1, <3>1, MovesKeep
  <2> QED BY <2>2, <2>3
<1> QED BY <1>1, <1>2, <1>3

\* ... of a request and of the environment keeps it.
LEMMA NextKeeps == ASSUME SlotInv, Next PROVE SlotInv'
<1>1. CASE \E t \in tasks : TaskStep(t) \/ ClaimCleanup(t)
    BY <1>1, TaskKeeps
<1>2. CASE Environment
    BY <1>2, EnvironmentMoves, RequestWrites, WritesKeep, MovesKeep
<1>3. ASSUME NEW srv \in up, Request(srv) PROVE SlotInv'
  <2>1. ASSUME NEW l \in Leases, NEW checkout \in BOOLEAN, Pick(srv, l, checkout) PROVE SlotInv'
      BY <2>1, PickKeeps DEF SlotInv, TypeOK
  <2>2. CASE ~\E l \in Leases, checkout \in BOOLEAN : Pick(srv, l, checkout)
      BY <1>3, <2>2, RequestMoves, RequestWrites, WritesKeep, MovesKeep
  <2> QED BY <2>1, <2>2
<1> QED BY <1>1, <1>2, <1>3 DEF Next


\* The invariant of Spec.
LEMMA Invariant == Spec => []SlotInv
<1>1. SlotInv /\ UNCHANGED vars => SlotInv'
  <2> SUFFICES ASSUME SlotInv, UNCHANGED vars PROVE SlotInv'
      OBVIOUS
  <2>1. Moves /\ leases' = leases
      BY DEF vars, Moves, SlotInv, TypeOK
  <2> QED BY <2>1, WritesKeep, MovesKeep
<1> QED BY <1>1, InitInv, NextKeeps, PTL DEF Spec

\* What a step writes into the leases.
LEMMA NextWrites ==
    ASSUME SlotInv, Next PROVE leases' = leases \/ Ends \/ Dates \/ \E t \in tasks : Insert(t)
<1>1. CASE \E t \in tasks : TaskStep(t) \/ ClaimCleanup(t)
    BY <1>1, TaskWrites
<1>2. CASE Environment \/ \E srv \in up : Request(srv)
    BY <1>2, RequestWrites
<1> QED BY <1>1, <1>2 DEF Next

\* A lease that is over stays over, and stays a lease of its slot.
Over(l) == leases[l].state \in {"released", "expired"}
OverIsOver == \A l \in Leases : Over(l) => Over(l)' /\ leases'[l].slot = leases[l].slot

\* A lease that has ended does not come back, even when acquisitions overlap: no insert
\* takes its number, and the calls that find a lease by the name of its slot
\* (CancelLeaseByRef, UpdateLeaseTTLByRef) write no state that is live.
THEOREM EndedStaysEnded == Spec => [][OverIsOver]_vars
<1>1. ASSUME SlotInv, Next PROVE OverIsOver
  <2>1. leases \in [Leases -> LeaseRows]
      BY <1>1 DEF SlotInv, TypeOK
  <2>2. CASE leases' = leases
      BY <2>2 DEF OverIsOver, Over
  <2>3. CASE Ends
    <3>1. PICK l \in Leases, state \in {"released", "expired"} :
            leases' = [leases EXCEPT ![l] = [leases[l] EXCEPT !.state = state]]
        BY <2>3 DEF Ends, End, Patch
    <3> QED BY <2>1, <3>1 DEF OverIsOver, Over, LeaseRows
  <2>4. CASE Dates
    <3>1. PICK l \in Leases, due \in BOOLEAN :
            leases' = [leases EXCEPT ![l] = [leases[l] EXCEPT !.due = due]]
        BY <2>4 DEF Dates, Due, Patch
    <3> QED BY <2>1, <3>1 DEF OverIsOver, Over, LeaseRows
  <2>5. ASSUME NEW t \in tasks, Insert(t) PROVE OverIsOver
    <3>1. t.lease \in Leases /\ ~Given(t.lease)
        BY <1>1, <2>5 DEF Insert, SlotInv, AcquireOK, Acquisitions, Inserting
    <3>2. \A l \in Leases : l # t.lease => leases'[l] = leases[l]
        BY <2>1, <2>5, <3>1 DEF Insert, Patch
    <3> QED BY <3>1, <3>2 DEF OverIsOver, Over, Given
  <2> QED BY <1>1, <2>2, <2>3, <2>4, <2>5, NextWrites
<1> QED BY <1>1, Invariant, PTL DEF Spec
-----------------------------------------------------------------------------
\* The allocator's view of the leases.

Holders == [s \in Slots |-> ClaimedOn(s)]
Past == {l \in Leases : Over(l)}
AllocatorStep == Owners!Next \/ (Holders' = Holders /\ Past' = Past)

\* The end of a lease is the allocator's, or nothing when it had ended.
LEMMA EndIsEnd == ASSUME SlotInv, Ends PROVE AllocatorStep
<1>1. PICK l \in Leases, state \in {"released", "expired"} : Given(l) /\ End(l, state)
    BY DEF Ends
<1>2. leases \in [Leases -> LeaseRows] /\ leases[l] \in LeaseRows /\ leases[l].slot \in Slots
    BY <1>1 DEF SlotInv, TypeOK, LeasesOK
<1>3. \A k \in Leases :
        /\ k # l => leases'[k] = leases[k]
        /\ k = l => leases'[k].state = state /\ leases'[k].slot = leases[k].slot
    BY <1>1, <1>2 DEF End, Patch, LeaseRows
<1>4. Past' = Past \cup {l}
    BY <1>2, <1>3 DEF Past, Over
<1>5. \A s \in Slots : ClaimedOn(s)' = ClaimedOn(s) \ {l}
    BY <1>3 DEF ClaimedOn, Claimed
<1>6. CASE Claimed(l)
  <2> DEFINE s == leases[l].slot
  <2>1. l \in ClaimedOn(s) /\ \A r \in Slots : r # s => l \notin ClaimedOn(r)
      BY <1>6 DEF ClaimedOn
  <2>2. Holders' = [Holders EXCEPT ![s] = @ \ {l}]
    <3>1. \A r \in Slots : ClaimedOn(r)' = IF r = s THEN ClaimedOn(s) \ {l} ELSE ClaimedOn(r)
        BY <1>5, <2>1
    <3> QED BY ONLY <3>1 DEF Holders
  <2>3. Owners!End(s, l)
      BY <1>2, <1>4, <2>1, <2>2 DEF Owners!End, Holders, Past, Over
  <2> QED BY <1>2, <2>3 DEF AllocatorStep, Owners!Next
<1>7. CASE ~Claimed(l)
  <2>1. l \in Past /\ \A s \in Slots : l \notin ClaimedOn(s)
      BY <1>1, <1>2, <1>7 DEF Past, Over, Claimed, ClaimedOn, Given, LeaseRows
  <2> QED BY <1>4, <1>5, <2>1 DEF AllocatorStep, Holders
<1> QED BY <1>6, <1>7

\* A new deadline is nothing to it.
LEMMA DateIsNothing == ASSUME SlotInv, Dates PROVE AllocatorStep
<1>1. PICK l \in Leases, due \in BOOLEAN : Due(l, due)
    BY DEF Dates
<1>2. leases \in [Leases -> LeaseRows]
    BY DEF SlotInv, TypeOK
<1>3. \A k \in Leases : leases'[k].state = leases[k].state /\ leases'[k].slot = leases[k].slot
    BY <1>1, <1>2 DEF Due, Patch, LeaseRows
<1>4. Past' = Past /\ \A s \in Slots : ClaimedOn(s)' = ClaimedOn(s)
    BY <1>3 DEF Past, Over, ClaimedOn, Claimed
<1> QED BY <1>4 DEF AllocatorStep, Holders

\* The insert of a lease is a grant, as long as acquisitions do not overlap.
LEMMA InsertIsGrant ==
    ASSUME SlotInv, Serial, NEW t \in tasks, Insert(t) PROVE AllocatorStep
<1> DEFINE s == t.slot
           l == t.lease
<1>1. /\ t \in Acquisitions /\ Inserting(t)
      /\ leases' = [leases EXCEPT ![l] = [state |-> "claimed", checkout |-> t.pc = "checkout",
                                          slot |-> s, due |-> FALSE]]
    BY DEF Insert, Acquisitions, Inserting, Patch
<1>2. l \in Leases /\ s \in Slots /\ ~Given(l) /\ ClaimedOn(s) = {}
    BY <1>1 DEF SlotInv, AcquireOK, SerialOK
<1>3. \A k \in Leases :
        /\ k # l => leases'[k] = leases[k]
        /\ k = l => leases'[k].state = "claimed" /\ leases'[k].slot = s
    BY <1>1, <1>2 DEF SlotInv, TypeOK
<1>4. Past' = Past /\ l \notin Past
    BY <1>2, <1>3 DEF Past, Over, Given
<1>5. \A r \in Slots : /\ ClaimedOn(r)' = (IF r = s THEN {l} ELSE ClaimedOn(r))
                      /\ l \notin ClaimedOn(r)
  <2>1. \A r \in Slots : l \notin ClaimedOn(r)
      BY <1>2 DEF ClaimedOn, Claimed, Given
  <2>2. ClaimedOn(s)' = {l}
      BY <1>2, <1>3 DEF ClaimedOn, Claimed
  <2>3. \A r \in Slots : r # s => ClaimedOn(r)' = ClaimedOn(r)
      BY <1>2, <1>3, <2>1 DEF ClaimedOn, Claimed
  <2> QED BY <2>1, <2>2, <2>3
<1> HIDE DEF s, l
<1>6. Holders' = [Holders EXCEPT ![s] = {l}]
    BY <1>2, <1>5 DEF Holders
<1>7. Owners!Grant(s, l)
    BY <1>2, <1>4, <1>5, <1>6 DEF Owners!Grant, Holders, Past, Over
<1> QED BY <1>2, <1>7 DEF AllocatorStep, Owners!Next

\* As long as acquisitions do not overlap, the store's leases and slots implement the
\* abstract allocator: a slot goes to one lease and an ended lease never comes back, for
\* any number of servers, slots, leases, crashes, sweeps and cancellations.
THEOREM SlotsAreOwned == ASSUME Serial PROVE Spec => ImplementsOwners
<1>1. Init => Owners!Init
  <2>1. Init => Holders = [s \in Slots |-> {}] /\ Past = {}
      BY DEF Init, NoLeaseRow, Holders, Past, Over, ClaimedOn, Claimed
  <2> QED BY <2>1 DEF Owners!Init, Holders, Past, Over
<1>2. ASSUME SlotInv, [Next]_vars PROVE [Owners!Next]_(Owners!vars)
  <2>1. CASE leases' = leases
      BY <2>1 DEF Owners!vars, ClaimedOn, Claimed
  <2>2. CASE leases' # leases
    <3>1. AllocatorStep
        BY <1>2, <2>2, NextWrites, EndIsEnd, DateIsNothing, InsertIsGrant DEF vars
    <3> QED BY <3>1 DEF AllocatorStep, Owners!vars, Holders, Past, Over
  <2> QED BY <2>1, <2>2
<1> QED BY <1>1, <1>2, Invariant, PTL DEF Spec, ImplementsOwners, Owners!Spec

=============================================================================
