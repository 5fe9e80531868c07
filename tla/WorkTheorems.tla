---------------------------- MODULE WorkTheorems ----------------------------
(***************************************************************************)
(* An issue has one active run, for any number of issues, handlers,        *)
(* signals, slots and disturbances: the proof of OneActiveRun.             *)
(***************************************************************************)
EXTENDS IssueWork, FiniteSetTheorems, SequenceTheorems, WellFoundedInduction, TLAPS

States == Active \cup Terminal
Rows ==
    [issue : Issues, state : States, holder : Nat \ {0}, slot : Slots \cup {0},
     origin : {"dispatch", "synthetic", "recycle"}, stamp : Kinds \cup {"none"},
     gate : Kinds \cup {"none"}, live : BOOLEAN, owes : BOOLEAN, reason : BOOLEAN,
     next : {"none", "recycle", "child"}]
TaskStates ==
    [op : {"idle", "dispatch", "synthetic", "signals", "queue", "abort"},
     pc : {"idle", "next", "claim", "create", "acquire", "start", "launch", "abort", "patch",
           "read", "mark", "decide", "stamp", "gate", "effect"},
     issue : Issues \cup {NoIssue}, run : Nat, holder : Nat, slot : Slots \cup {0},
     todo : SUBSET Nat, signal : Signals \cup {0}]

TypeOK ==
    /\ runs \in Seq(Rows)
    /\ newest \in [Issues -> Nat] /\ \A i \in Issues : newest[i] <= Len(runs)
    /\ locks \in [Issues -> Nat] /\ holders \in Nat
    /\ spent \in [Disturbances -> Nat]
    /\ tasks \in [Tasks -> TaskStates]

\* What a task works with.
AtWork == {"acquire", "start", "launch", "abort", "patch", "stamp", "gate", "effect"}
OfSignal == {"mark", "decide", "stamp", "gate", "effect"}
HoldsAll(p, t) ==
    /\ t.op \in {"idle"} \/ (t.op = "queue" <=> p = Queue)
    /\ t.pc = "next" => t.op \in {"signals", "queue"}
    /\ t.pc \notin {"idle", "next"} => t.issue \in Issues
    /\ t.pc \in AtWork => t.run \in 1..Len(runs)
    /\ t.pc = "next" => t.todo # {}
    /\ t.pc \in OfSignal => t.op = "signals" /\ t.signal \in Signals
    /\ t.pc \in {"read"} => t.op = "signals"
    /\ t.op = "signals" => t.todo \subseteq Signals
    /\ t.op = "queue" => t.todo \subseteq 1..Len(runs)

-----------------------------------------------------------------------------
\* The lock of its issue is this run's to keep: it is active, or about to hand on.
Keeps(row) == row.state \in Active \/ (row.next # "none" /\ ~row.reason)
\* A cycle that handed its lock on.
HandedOn(row) == row.next = "none" /\ (row.state = "recycled" \/ row.reason)
\* Started, and its first Job not launched yet.
Unlaunched(row) ==
    row.state \in {"in_progress", "aborted"} /\ ~row.live /\ row.gate = "none" /\ row.next = "none"

RowOK(row) ==
    /\ row.reason => row.state \in {"aborted", "recycled"}
    /\ row.live => row.state = "in_progress" /\ row.next = "none"
    /\ row.gate # "none" => row.next = "none"
    /\ row.state \in {"queued", "review_required", "passed"} => row.next = "none"
    /\ row.state = "queued" => row.gate = "none" /\ ~row.live
    /\ row.owes => row.reason \/ row.state = "passed"
    /\ row.next = "child" => row.state = "recycled" \/ row.reason

RowsOK == \A r \in 1..Len(runs) : RowOK(runs[r]) /\ runs[r].holder <= holders

\* Of the cycles that had one lock, all but the last handed it on.
ChainOK ==
    \A r, q \in 1..Len(runs) :
        r < q /\ runs[r].holder = runs[q].holder =>
            runs[r].issue = runs[q].issue /\ HandedOn(runs[r])

\* The active run is the last one.
ActiveIsLast(i) ==
    \A r, q \in RunsOf(i) : runs[r].state \in Active => q <= r
\* Until a lock lapses, it is with the run that keeps it.
LockIsKept(i) ==
    spent.lapse = 0 => \A r \in RunsOf(i) : Keeps(runs[r]) => locks[i] = runs[r].holder
IssueOK(i) == MayOverlap(i) \/ (ActiveIsLast(i) /\ LockIsKept(i))

\* Who creates a run has the lock under a holder of its own.
CreateOK(p) ==
    At(p, "create") =>
        /\ tasks[p].holder \in 1..holders /\ locks[tasks[p].issue] = tasks[p].holder
        /\ \A r \in 1..Len(runs) : runs[r].holder # tasks[p].holder
        /\ \A q \in Tasks : q # p /\ At(q, "create") => tasks[q].holder # tasks[p].holder

\* Who has looked at the last run finds only runs that began after it, with the lock.
Dispatching(p, i) ==
    tasks[p].pc \in {"claim", "create"} /\ tasks[p].op # "synthetic" /\ tasks[p].issue = i
ClaimOK(i) ==
    (\E p \in Tasks : Dispatching(p, i)) =>
        MayOverlap(i) \/
        \A r \in RunsOf(i) : runs[r].state \in Active => locks[i] = runs[r].holder

LaunchOK(p) ==
    At(p, "launch") =>
        /\ Unlaunched(runs[tasks[p].run])
        /\ \A q \in Tasks : q # p /\ At(q, "launch") => tasks[q].run # tasks[p].run
EffectOK(p) == At(p, "effect") => runs[tasks[p].run].gate # "none"

TasksOK ==
    \A p \in Tasks :
        HoldsAll(p, tasks[p]) /\ CreateOK(p) /\ LaunchOK(p) /\ EffectOK(p)

WorkInv ==
    /\ TypeOK /\ RowsOK /\ ChainOK /\ TasksOK
    /\ \A i \in Issues : IssueOK(i) /\ ClaimOK(i)

-----------------------------------------------------------------------------
\* Numbers: every set of them has a least one.

\* The least-number principle, from the well-foundedness of the natural numbers.
LEMMA HasMin ==
    ASSUME NEW S, S \subseteq Nat, S # {} PROVE \E x \in S : \A y \in S : x <= y
<1>1. OpToRel(<, Nat) = {ss \in Nat \X Nat : ss[1] < ss[2]}
    BY Zenon DEF OpToRel
<1>2. IsWellFoundedOn(OpToRel(<, Nat), Nat)
    BY NatLessThanWellFounded
<1>3. IsWellFoundedOn({ss \in Nat \X Nat : ss[1] < ss[2]}, Nat)
    BY <1>1, <1>2, Zenon
<1>4. PICK x \in S : \A y \in S : ~(<<y, x>> \in {ss \in Nat \X Nat : ss[1] < ss[2]})
    BY <1>3, WFMin
<1>5. ASSUME NEW y \in S PROVE x <= y
  <2>1. <<y, x>> \in Nat \X Nat /\ <<y, x>>[1] = y /\ <<y, x>>[2] = x
      OBVIOUS
  <2>2. ~(y < x)
      BY <1>4, <2>1
  <2>3. x \in Nat /\ y \in Nat
      OBVIOUS
  <2> QED BY <2>2, <2>3
<1> QED BY <1>5

\* Min of the community modules picks it.
LEMMA MinIsLeast ==
    ASSUME NEW S, S \subseteq Nat, S # {} PROVE Min(S) \in S
BY HasMin DEF Min

-----------------------------------------------------------------------------
\* The table of runs.

\* A row is replaced.
LEMMA RowReplaced ==
    ASSUME runs \in Seq(Rows), NEW r \in 1..Len(runs), NEW row \in Rows,
           runs' = [runs EXCEPT ![r] = row]
    PROVE  /\ runs' \in Seq(Rows) /\ Len(runs') = Len(runs)
           /\ \A k \in 1..Len(runs) : runs'[k] = IF k = r THEN row ELSE runs[k]
BY ExceptSeq, LenProperties

\* A row is added.
LEMMA RowAdded ==
    ASSUME runs \in Seq(Rows), NEW row \in Rows, runs' = Append(runs, row)
    PROVE  /\ runs' \in Seq(Rows) /\ Len(runs') = Len(runs) + 1
           /\ runs'[Len(runs) + 1] = row
           /\ \A k \in 1..Len(runs) : runs'[k] = runs[k]
BY AppendProperties, LenProperties

\* What an update of a row keeps.
Follows(old, new) ==
    /\ new \in Rows /\ RowOK(new)
    /\ new.issue = old.issue /\ new.holder = old.holder /\ new.origin = old.origin
    /\ old.reason => new.reason
    /\ new.state \in Active => old.state \in Active
    /\ Keeps(new) => Keeps(old)
    /\ HandedOn(old) => HandedOn(new)
    /\ old.gate # "none" => new.gate # "none"

\* Every row is the same or follows the one before it.
RunsFollow ==
    /\ runs' \in Seq(Rows) /\ Len(runs') = Len(runs)
    /\ \A k \in 1..Len(runs) : Follows(runs[k], runs'[k])

\* A row follows itself.
LEMMA FollowsItself ==
    ASSUME NEW row \in Rows, RowOK(row) PROVE Follows(row, row)
BY DEF Follows

\* No row changes.
LEMMA SameRunsFollow ==
    ASSUME TypeOK, RowsOK, UNCHANGED runs PROVE RunsFollow
<1>1. \A k \in 1..Len(runs) : runs[k] \in Rows
    BY ElementOfSeq DEF TypeOK
<1> QED BY <1>1, FollowsItself DEF RunsFollow, TypeOK, RowsOK

\* One row changes.
LEMMA OneRunFollows ==
    ASSUME TypeOK, RowsOK, NEW r \in 1..Len(runs), NEW row, Follows(runs[r], row),
           runs' = [runs EXCEPT ![r] = row]
    PROVE  RunsFollow /\ \A k \in 1..Len(runs) : k # r => runs'[k] = runs[k]
<1>1. row \in Rows
    BY DEF Follows
<1>2. /\ runs' \in Seq(Rows) /\ Len(runs') = Len(runs)
      /\ \A k \in 1..Len(runs) : runs'[k] = IF k = r THEN row ELSE runs[k]
    BY <1>1, RowReplaced DEF TypeOK
<1>3. \A k \in 1..Len(runs) : runs[k] \in Rows
    BY ElementOfSeq DEF TypeOK
<1>4. \A k \in 1..Len(runs) : Follows(runs[k], runs'[k])
    BY <1>2, <1>3, FollowsItself DEF RowsOK
<1> QED BY <1>2, <1>4 DEF RunsFollow

-----------------------------------------------------------------------------
\* A step that updates rows, and takes no lock from a run that keeps it.

LocksStay ==
    \A i \in Issues : locks'[i] = locks[i] \/ MayOverlap(i) \/
        \A r \in RunsOf(i) : runs[r].holder = locks[i] => ~Keeps(runs'[r])

\* An issue overlapped once stays so.
LEMMA OverlapStays ==
    ASSUME TypeOK, RunsFollow, spent'.lapse >= spent.lapse, spent' \in [Disturbances -> Nat],
           NEW i, MayOverlap(i)
    PROVE  MayOverlap(i)'
<1>1. RunsOf(i)' = RunsOf(i)
    BY DEF RunsOf, RunsFollow, Follows
<1>2. \A r \in RunsOf(i) : /\ runs'[r].holder = runs[r].holder
                           /\ runs'[r].origin = runs[r].origin
                           /\ runs[r].reason => runs'[r].reason
    BY DEF RunsOf, RunsFollow, Follows
<1>3. spent.lapse > 0 => spent'.lapse > 0
    BY DEF TypeOK, Disturbances
<1> QED BY <1>1, <1>2, <1>3 DEF MayOverlap

\* The rows and what they say of locks survive such a step.
LEMMA RowsFollowed ==
    ASSUME TypeOK, RowsOK, ChainOK, RunsFollow, holders' \in Nat, holders <= holders'
    PROVE  RowsOK' /\ ChainOK'
<1>1. \A k \in 1..Len(runs) : runs[k] \in Rows
    BY ElementOfSeq DEF TypeOK
<1>2. \A k \in 1..Len(runs) : RowOK(runs'[k]) /\ runs'[k].holder = runs[k].holder
    BY DEF RunsFollow, Follows
<1>3. RowsOK'
  <2>1. \A k \in 1..Len(runs) : runs[k].holder \in Nat
      BY <1>1 DEF Rows
  <2>2. holders \in Nat /\ \A k \in 1..Len(runs) : runs[k].holder <= holders
      BY DEF RowsOK, TypeOK
  <2>3. \A k \in 1..Len(runs) : runs'[k].holder <= holders'
      BY <1>2, <2>1, <2>2
  <2> QED BY <1>2, <2>3 DEF RowsOK, RunsFollow, RowOK
<1>4. ChainOK'
  <2>1. \A k \in 1..Len(runs) : /\ runs'[k].issue = runs[k].issue
                                /\ HandedOn(runs[k]) => HandedOn(runs'[k])
      BY DEF RunsFollow, Follows
  <2> QED BY <1>2, <2>1 DEF ChainOK, RunsFollow, HandedOn
<1> QED BY <1>3, <1>4

\* What is known of an issue survives such a step.
LEMMA IssueFollowed ==
    ASSUME TypeOK, RunsFollow, LocksStay, spent'.lapse = spent.lapse,
           spent' \in [Disturbances -> Nat],
           NEW i \in Issues, IssueOK(i)
    PROVE  IssueOK(i)'
<1>1. RunsOf(i)' = RunsOf(i)
    BY DEF RunsOf, RunsFollow, Follows
<1>2. \A r \in RunsOf(i) : Follows(runs[r], runs'[r])
    BY DEF RunsOf, RunsFollow
<1>3. CASE MayOverlap(i)
    BY <1>3, OverlapStays DEF IssueOK, TypeOK, Disturbances
<1>4. ASSUME ~MayOverlap(i), ActiveIsLast(i), LockIsKept(i) PROVE IssueOK(i)'
  <2>1. ActiveIsLast(i)'
      BY <1>1, <1>2, <1>4 DEF ActiveIsLast, Follows
  <2>2. LockIsKept(i)'
      BY <1>1, <1>2, <1>4 DEF LockIsKept, Follows, LocksStay
  <2> QED BY <2>1, <2>2 DEF IssueOK
<1> QED BY <1>3, <1>4 DEF IssueOK

-----------------------------------------------------------------------------
\* The tasks.

\* What TypeOK says of the parts.
LEMMA Types ==
    ASSUME TypeOK
    PROVE  /\ \A p \in Tasks : tasks[p] \in TaskStates
           /\ \A k \in 1..Len(runs) : runs[k] \in Rows
           /\ \A i \in Issues : locks[i] \in Nat
           /\ Len(runs) \in Nat /\ holders \in Nat /\ spent.lapse \in Nat
BY ElementOfSeq, LenProperties DEF TypeOK, Disturbances

\* A task that does not move, while rows follow, its lock stays and no other task
\* takes its holder or its run.
LEMMA OtherTask ==
    ASSUME TypeOK, TasksOK, RunsFollow, holders' \in Nat, holders <= holders',
           NEW q \in Tasks, tasks'[q] = tasks[q],
           At(q, "create") =>
               /\ locks'[tasks[q].issue] = locks[tasks[q].issue]
               /\ \A p \in Tasks : p # q /\ At(p, "create")' => tasks'[p].holder # tasks[q].holder,
           At(q, "launch") =>
               /\ Unlaunched(runs'[tasks[q].run])
               /\ \A p \in Tasks : p # q /\ At(p, "launch")' => tasks'[p].run # tasks[q].run
    PROVE  (HoldsAll(q, tasks[q]) /\ CreateOK(q) /\ LaunchOK(q) /\ EffectOK(q))'
<1>1. HoldsAll(q, tasks[q])'
    BY DEF TasksOK, HoldsAll, RunsFollow
<1>2. CreateOK(q)'
  <2>1. \A r \in 1..Len(runs) : runs'[r].holder = runs[r].holder
      BY DEF RunsFollow, Follows
  <2>2. holders \in Nat
      BY Types
  <2> QED BY <2>1, <2>2 DEF TasksOK, CreateOK, RunsFollow, At
<1>3. LaunchOK(q)'
    BY DEF TasksOK, LaunchOK, At, Unlaunched
<1>4. EffectOK(q)'
  <2>1. At(q, "effect") => tasks[q].run \in 1..Len(runs)
      BY DEF TasksOK, HoldsAll, At, AtWork
  <2> QED BY <2>1 DEF TasksOK, EffectOK, At, RunsFollow, Follows
<1> QED BY <1>1, <1>2, <1>3, <1>4

\* Who dispatches finds what it found, while rows follow and locks stay with the active.
LEMMA ClaimFollowed ==
    ASSUME TypeOK, RunsFollow, LocksStay, spent'.lapse = spent.lapse,
           spent' \in [Disturbances -> Nat], NEW i \in Issues, ClaimOK(i),
           \A p \in Tasks : Dispatching(p, i)' =>
               \/ \E q \in Tasks : Dispatching(q, i)
               \/ \A r \in RunsOf(i) : runs[r].state \notin Active
               \/ MayOverlap(i)
    PROVE  ClaimOK(i)'
<1>1. RunsOf(i)' = RunsOf(i)
    BY DEF RunsOf, RunsFollow, Follows
<1>2. \A r \in RunsOf(i) : Follows(runs[r], runs'[r])
    BY DEF RunsOf, RunsFollow
<1>3. SUFFICES ASSUME \E p \in Tasks : Dispatching(p, i)', ~MayOverlap(i)',
                      NEW r \in RunsOf(i), runs'[r].state \in Active
               PROVE  locks'[i] = runs'[r].holder
    BY <1>1 DEF ClaimOK
<1>4. ~MayOverlap(i)
    BY <1>3, OverlapStays, SMTT(30) DEF TypeOK, Disturbances
<1>5. runs[r].state \in Active /\ runs[r].holder = runs'[r].holder /\ Keeps(runs'[r])
    BY <1>2, <1>3 DEF Follows, Keeps
<1>6. \E p \in Tasks : Dispatching(p, i)
    BY <1>3, <1>4, <1>5
<1>7. locks[i] = runs[r].holder
    BY <1>4, <1>5, <1>6 DEF ClaimOK
<1> QED BY <1>4, <1>5, <1>7 DEF LocksStay

\* A step of one task that updates rows at most.
Others(p, t) ==
    /\ tasks' = [tasks EXCEPT ![p] = t] /\ t \in TaskStates /\ HoldsAll(p, t)
    /\ \A q \in Tasks : q # p /\ At(q, "create") =>
          /\ locks'[tasks[q].issue] = locks[tasks[q].issue]
          /\ t.pc = "create" => t.holder # tasks[q].holder
    /\ \A q \in Tasks : q # p /\ At(q, "launch") =>
          /\ Unlaunched(runs'[tasks[q].run])
          /\ t.pc = "launch" => t.run # tasks[q].run

Undisrupted ==
    /\ newest' \in [Issues -> Nat] /\ \A i \in Issues : newest'[i] <= Len(runs)
    /\ spent' \in [Disturbances -> Nat] /\ spent'.lapse = spent.lapse

\* A step of a task at most updates rows and takes or releases locks that are its own.
LEMMA TaskStep ==
    ASSUME WorkInv, RunsFollow, Undisrupted, locks' \in [Issues -> Nat], LocksStay,
           holders' \in Nat, holders <= holders',
           NEW p \in Tasks, NEW t, Others(p, t),
           CreateOK(p)', LaunchOK(p)', EffectOK(p)',
           \A i \in Issues :
               t.pc \in {"claim", "create"} /\ t.op # "synthetic" /\ t.issue = i =>
                   \/ \E q \in Tasks : Dispatching(q, i)
                   \/ \A r \in RunsOf(i) : runs[r].state \notin Active
                   \/ MayOverlap(i)
    PROVE  WorkInv'
<1> USE DEF WorkInv
<1>1. tasks' \in [Tasks -> TaskStates] /\ tasks'[p] = t
    BY DEF Others, TypeOK
<1>2. \A q \in Tasks : q # p => tasks'[q] = tasks[q]
    BY DEF Others, TypeOK
<1>3. TypeOK'
    BY <1>1 DEF TypeOK, RunsFollow, Undisrupted
<1>4. RowsOK' /\ ChainOK'
    BY RowsFollowed
<1>5. TasksOK'
  <2>1. ASSUME NEW q \in Tasks, q # p
        PROVE  (HoldsAll(q, tasks[q]) /\ CreateOK(q) /\ LaunchOK(q) /\ EffectOK(q))'
    <3>1. tasks'[q] = tasks[q]
        BY <1>2, <2>1
    <3>2. At(q, "create") =>
              /\ locks'[tasks[q].issue] = locks[tasks[q].issue]
              /\ \A r \in Tasks : r # q /\ At(r, "create")' => tasks'[r].holder # tasks[q].holder
        BY <1>1, <1>2, <2>1 DEF Others, At, TasksOK, CreateOK
    <3>3. At(q, "launch") =>
              /\ Unlaunched(runs'[tasks[q].run])
              /\ \A r \in Tasks : r # q /\ At(r, "launch")' => tasks'[r].run # tasks[q].run
        BY <1>1, <1>2, <2>1 DEF Others, At, TasksOK, LaunchOK
    <3> QED BY <3>1, <3>2, <3>3, OtherTask
  <2>2. HoldsAll(p, tasks[p])'
      BY <1>1 DEF Others, HoldsAll, RunsFollow
  <2> QED BY <2>1, <2>2 DEF TasksOK
<1>6. ASSUME NEW i \in Issues PROVE IssueOK(i)'
    BY IssueFollowed DEF Undisrupted
<1>7. ASSUME NEW i \in Issues PROVE ClaimOK(i)'
  <2>1. ASSUME NEW q \in Tasks, Dispatching(q, i)'
        PROVE  \/ \E r \in Tasks : Dispatching(r, i)
               \/ \A r \in RunsOf(i) : runs[r].state \notin Active
               \/ MayOverlap(i)
      BY <1>1, <1>2, <2>1 DEF Dispatching
  <2> QED BY <2>1, ClaimFollowed DEF Undisrupted
<1> QED BY <1>3, <1>4, <1>5, <1>6, <1>7

-----------------------------------------------------------------------------
\* Kinds of steps.

\* Rows follow, and the tasks outside P keep their locks and their launches.
QuietBut(P) ==
    /\ RunsFollow /\ Undisrupted
    /\ locks' \in [Issues -> Nat] /\ LocksStay /\ holders' = holders
    /\ \A q \in Tasks \ P : At(q, "create") => locks'[tasks[q].issue] = locks[tasks[q].issue]
    /\ \A q \in Tasks \ P : At(q, "launch") => Unlaunched(runs'[tasks[q].run])

\* A disturbance other than a lapse is counted.
LEMMA SpendKeeps ==
    ASSUME TypeOK, NEW kind \in Disturbances \ {"lapse"}, Spend(kind)
    PROVE  spent' \in [Disturbances -> Nat] /\ spent'.lapse = spent.lapse
BY DEF TypeOK, Spend, Disturbances

\* So is a call that fails.
LEMMA FailsKeeps ==
    ASSUME TypeOK, NEW bad \in BOOLEAN, Fails(bad)
    PROVE  spent' \in [Disturbances -> Nat] /\ spent'.lapse = spent.lapse
BY SpendKeeps DEF TypeOK, Fails, Disturbances

\* Only tasks and what they look at change.
LEMMA NothingMoves ==
    ASSUME WorkInv, UNCHANGED <<runs, newest, locks, holders>>,
           spent' \in [Disturbances -> Nat], spent'.lapse = spent.lapse, NEW P
    PROVE  QuietBut(P)
<1>1. RunsFollow
    BY SameRunsFollow DEF WorkInv
<1>2. \A q \in Tasks : At(q, "launch") => Unlaunched(runs[tasks[q].run])
    BY DEF WorkInv, TasksOK, LaunchOK
<1> QED BY <1>1, <1>2 DEF QuietBut, Undisrupted, LocksStay, WorkInv, TypeOK

\* One row is written.
LEMMA RowMoves ==
    ASSUME WorkInv, NEW r \in 1..Len(runs), NEW row, Follows(runs[r], row),
           runs' = [runs EXCEPT ![r] = row],
           newest' \in [Issues -> 0..Len(runs)],
           UNCHANGED <<locks, holders>>,
           spent' \in [Disturbances -> Nat], spent'.lapse = spent.lapse, NEW P,
           \A q \in Tasks \ P : At(q, "launch") /\ tasks[q].run = r => Unlaunched(row)
    PROVE  QuietBut(P)
<1>1. RunsFollow /\ \A k \in 1..Len(runs) : k # r => runs'[k] = runs[k]
    BY OneRunFollows DEF WorkInv
<1>2. runs'[r] = row
    BY RowReplaced DEF WorkInv, TypeOK, Follows
<1>3. ASSUME NEW q \in Tasks \ P, At(q, "launch") PROVE Unlaunched(runs'[tasks[q].run])
  <2>1. tasks[q].run \in 1..Len(runs) /\ Unlaunched(runs[tasks[q].run])
      BY <1>3 DEF WorkInv, TasksOK, HoldsAll, LaunchOK, At, AtWork
  <2> QED BY <1>1, <1>2, <1>3, <2>1
<1>4. Undisrupted
    BY Types DEF Undisrupted, WorkInv
<1> QED BY <1>1, <1>3, <1>4 DEF QuietBut, LocksStay, WorkInv, TypeOK

\* A task goes to a step that needs nothing of the rows.
LEMMA TurnStep ==
    ASSUME WorkInv, NEW p \in Tasks, QuietBut({p}), NEW t \in TaskStates,
           tasks' = [tasks EXCEPT ![p] = t], HoldsAll(p, t),
           t.pc \notin {"claim", "create", "launch", "effect"}
    PROVE  WorkInv'
<1>1. tasks'[p] = t
    BY DEF WorkInv, TypeOK
<1>2. CreateOK(p)' /\ LaunchOK(p)' /\ EffectOK(p)'
    BY <1>1 DEF CreateOK, LaunchOK, EffectOK, At
<1>3. Others(p, t)
    BY DEF Others, QuietBut
<1>4. holders' \in Nat /\ holders <= holders'
    BY Types DEF QuietBut, WorkInv
<1> QED BY <1>2, <1>3, <1>4, TaskStep DEF QuietBut

\* No task moves.
LEMMA LifeStep ==
    ASSUME WorkInv, QuietBut({}), UNCHANGED tasks PROVE WorkInv'
<1>1. TypeOK'
    BY DEF WorkInv, TypeOK, QuietBut, RunsFollow, Undisrupted
<1>2. holders' \in Nat /\ holders <= holders'
    BY Types DEF QuietBut, WorkInv
<1>3. RowsOK' /\ ChainOK'
    BY <1>2, RowsFollowed DEF WorkInv, QuietBut
<1>4. TasksOK'
  <2>1. ASSUME NEW q \in Tasks
        PROVE  (HoldsAll(q, tasks[q]) /\ CreateOK(q) /\ LaunchOK(q) /\ EffectOK(q))'
    <3>1. At(q, "create") =>
              /\ locks'[tasks[q].issue] = locks[tasks[q].issue]
              /\ \A p \in Tasks : p # q /\ At(p, "create")' => tasks'[p].holder # tasks[q].holder
        BY DEF QuietBut, WorkInv, TasksOK, CreateOK, At
    <3>2. At(q, "launch") =>
              /\ Unlaunched(runs'[tasks[q].run])
              /\ \A p \in Tasks : p # q /\ At(p, "launch")' => tasks'[p].run # tasks[q].run
        BY DEF QuietBut, WorkInv, TasksOK, LaunchOK, At
    <3> QED BY <1>2, <3>1, <3>2, OtherTask DEF WorkInv, QuietBut
  <2> QED BY <2>1 DEF TasksOK
<1>5. ASSUME NEW i \in Issues PROVE IssueOK(i)' /\ ClaimOK(i)'
  <2>1. \A q \in Tasks : Dispatching(q, i)' => Dispatching(q, i)
      BY DEF Dispatching
  <2> QED BY <2>1, IssueFollowed, ClaimFollowed DEF QuietBut, Undisrupted, WorkInv
<1> QED BY <1>1, <1>3, <1>4, <1>5 DEF WorkInv

\* How a task rests.
Rests(p) ==
    \E t \in TaskStates :
        tasks' = [tasks EXCEPT ![p] = t] /\ t.pc \in {"idle", "next"} /\ HoldsAll(p, t)

\* A task that comes to rest leaves nothing open.
LEMMA RestStep ==
    ASSUME WorkInv, NEW p \in Tasks, QuietBut({p}), Rests(p) PROVE WorkInv'
BY TurnStep DEF Rests

\* An idle task holds nothing.
LEMMA IdleRests ==
    ASSUME NEW p
    PROVE  Idle \in TaskStates /\ Idle.pc = "idle" /\ HoldsAll(p, Idle)
BY DEF Idle, TaskStates, HoldsAll, AtWork, OfSignal

\* A loop with rows before it holds no more than those.
LEMMA FacingRests ==
    ASSUME NEW p, NEW op \in {"signals", "queue"}, op = "queue" <=> p = Queue,
           NEW rows \in SUBSET Nat,
           op = "signals" => rows \subseteq Signals,
           op = "queue" => rows \subseteq 1..Len(runs)
    PROVE  /\ Facing(op, rows) \in TaskStates
           /\ Facing(op, rows).pc \in {"idle", "next"} /\ HoldsAll(p, Facing(op, rows))
<1>1. CASE rows = {}
    BY <1>1, IdleRests DEF Facing
<1>2. CASE rows # {}
  <2> DEFINE t == [Idle EXCEPT !.op = op, !.pc = "next", !.todo = rows]
  <2>1. t \in TaskStates /\ t.pc = "next" /\ t.op = op /\ t.todo = rows
      BY DEF Idle, TaskStates
  <2>2. Facing(op, rows) = t
      BY <1>2 DEF Facing
  <2> HIDE DEF t
  <2>3. HoldsAll(p, t)
      BY <1>2, <2>1 DEF HoldsAll, AtWork, OfSignal
  <2> QED BY <2>1, <2>2, <2>3
<1> QED BY <1>1, <1>2

\* The drain of a signal ends in rest ...
LEMMA AnsweredRests ==
    ASSUME WorkInv, NEW p \in Tasks, tasks[p].op = "signals", NEW state, Answered(p, state)
    PROVE  Rests(p)
<1>1. p # Queue /\ tasks[p].todo \subseteq Signals /\ tasks[p].todo \in SUBSET Nat
    BY Types DEF WorkInv, TasksOK, HoldsAll, TaskStates
<1> QED BY <1>1, FacingRests DEF Answered, Rests

\* ... and so does a dispatch, an admission and an abort.
LEMMA ReturnsRests ==
    ASSUME WorkInv, NEW p \in Tasks, NEW result, Returns(p, result) PROVE Rests(p)
<1>1. CASE tasks[p].op = "signals"
    BY <1>1, AnsweredRests DEF Returns
<1>2. CASE tasks[p].op = "queue"
  <2>1. p = Queue /\ tasks[p].todo \subseteq 1..Len(runs) /\ tasks[p].todo \in SUBSET Nat
      BY <1>2, Types DEF WorkInv, TasksOK, HoldsAll, TaskStates
  <2>2. \/ tasks' = [tasks EXCEPT ![p] = Facing("queue", tasks[p].todo)]
        \/ tasks' = [tasks EXCEPT ![p] = Idle]
      BY <1>2 DEF Returns
  <2> QED BY <2>1, <2>2, FacingRests, IdleRests DEF Rests
<1>3. CASE tasks[p].op \notin {"signals", "queue"}
  <2>1. tasks' = [tasks EXCEPT ![p] = Idle]
      BY <1>3 DEF Returns
  <2> QED BY <2>1, IdleRests DEF Rests
<1> QED BY <1>1, <1>2, <1>3

-----------------------------------------------------------------------------
\* Steps that only look.

\* The last run is not active, so no run of the issue is.
LEMMA NoneIsActive ==
    ASSUME WorkInv, NEW i \in Issues, LastState(i) \notin Active
    PROVE  MayOverlap(i) \/ \A r \in RunsOf(i) : runs[r].state \notin Active
<1> SUFFICES ASSUME ActiveIsLast(i), NEW r \in RunsOf(i), runs[r].state \in Active
             PROVE  FALSE
    BY DEF WorkInv, IssueOK
<1>1. RunsOf(i) \subseteq Nat /\ \A q \in RunsOf(i) : q <= r
    BY DEF ActiveIsLast, RunsOf
<1>2. Max(RunsOf(i)) = r
    BY <1>1 DEF Max
<1> QED BY <1>2 DEF LastState

\* A dispatch begins.
LEMMA RequestStep ==
    ASSUME WorkInv, NEW p \in Dispatchers, NEW i \in Issues, NEW op \in {"dispatch", "synthetic"},
           Request(p, i, op)
    PROVE  WorkInv'
<1> DEFINE t == [Idle EXCEPT !.op = op, !.pc = "claim", !.issue = i]
<1>1. p \in Tasks /\ p # Queue
    BY WorkAssumption DEF Tasks
<1>2. tasks' = [tasks EXCEPT ![p] = t] /\ UNCHANGED <<runs, newest, locks, holders, spent>>
    BY DEF Request
<1>3. t \in TaskStates /\ t.pc = "claim" /\ t.op = op /\ t.issue = i
    BY DEF Idle, TaskStates
<1>4. op # "synthetic" => LastState(i) \notin Active
    BY DEF Request, IsActiveIssueRunState
<1> HIDE DEF t
<1>5. QuietBut({p})
    BY <1>2, NothingMoves DEF WorkInv, TypeOK
<1>6. HoldsAll(p, t)
    BY <1>1, <1>3 DEF HoldsAll, AtWork, OfSignal
<1>7. Others(p, t)
    BY <1>2, <1>3, <1>5, <1>6 DEF Others, QuietBut
<1>8. CreateOK(p)' /\ LaunchOK(p)' /\ EffectOK(p)'
    BY <1>1, <1>2, <1>3 DEF WorkInv, TypeOK, CreateOK, LaunchOK, EffectOK, At
<1>9. holders' \in Nat /\ holders <= holders'
    BY <1>2, Types DEF WorkInv
<1>10. op # "synthetic" => MayOverlap(i) \/ \A r \in RunsOf(i) : runs[r].state \notin Active
    BY <1>4, NoneIsActive
<1> QED BY <1>1, <1>3, <1>5, <1>7, <1>8, <1>9, <1>10, TaskStep DEF QuietBut

\* The dispatch of a reject begins, or is refused.
LEMMA RedispatchStep ==
    ASSUME WorkInv, NEW p \in Tasks, Redispatch(p) PROVE WorkInv'
<1> DEFINE i == tasks[p].issue
           t == [tasks[p] EXCEPT !.pc = "claim"]
<1>1. tasks[p] \in TaskStates /\ tasks[p].pc = "read" /\ i \in Issues
    BY Types DEF WorkInv, TasksOK, HoldsAll, Redispatch, At
<1>2. UNCHANGED <<runs, newest, locks, holders, spent>>
    BY DEF Redispatch
<1>3. QuietBut({p})
    BY <1>2, NothingMoves DEF WorkInv, TypeOK
<1>4. CASE Returns(p, "already_running")
    BY <1>3, <1>4, ReturnsRests, RestStep
<1>5. CASE LastState(i) \notin Active /\ tasks' = [tasks EXCEPT ![p] = t]
  <2>1. t \in TaskStates /\ t.pc = "claim" /\ t.issue = i
      BY <1>1 DEF TaskStates
  <2>2. HoldsAll(p, t)
    <3>1. HoldsAll(p, tasks[p]) /\ t.op = tasks[p].op /\ t.todo = tasks[p].todo
        BY <1>1 DEF WorkInv, TasksOK, TaskStates
    <3> QED BY <1>1, <2>1, <3>1 DEF HoldsAll, AtWork, OfSignal
  <2> HIDE DEF t
  <2>3. Others(p, t)
      BY <1>3, <1>5, <2>1, <2>2 DEF Others, QuietBut
  <2>4. CreateOK(p)' /\ LaunchOK(p)' /\ EffectOK(p)'
      BY <1>5, <2>1 DEF WorkInv, TypeOK, CreateOK, LaunchOK, EffectOK, At
  <2>5. holders' \in Nat /\ holders <= holders'
      BY <1>2, Types DEF WorkInv
  <2>6. MayOverlap(i) \/ \A r \in RunsOf(i) : runs[r].state \notin Active
      BY <1>1, <1>5, NoneIsActive
  <2> HIDE DEF i
  <2> QED BY <1>3, <2>1, <2>3, <2>4, <2>5, <2>6, TaskStep DEF QuietBut
<1> QED BY <1>4, <1>5 DEF Redispatch, Continues, Goto, IsActiveIssueRunState

\* A task goes on within what it works with.
LEMMA GotoStep ==
    ASSUME WorkInv, NEW p \in Tasks, QuietBut({p}), NEW pc,
           tasks' = [tasks EXCEPT ![p].pc = pc],
           \/ pc \in {"start", "abort", "patch"} /\ tasks[p].pc \in AtWork
           \/ pc \in {"read", "gate"} /\ tasks[p].pc = "stamp"
           \/ pc = "decide" /\ tasks[p].pc = "mark"
    PROVE  WorkInv'
<1> DEFINE t == [tasks[p] EXCEPT !.pc = pc]
<1>1. tasks[p] \in TaskStates /\ HoldsAll(p, tasks[p])
    BY Types DEF WorkInv, TasksOK
<1>2. t \in TaskStates /\ t.pc = pc /\ t.issue = tasks[p].issue /\ t.run = tasks[p].run
      /\ t.op = tasks[p].op /\ t.todo = tasks[p].todo /\ t.signal = tasks[p].signal
    BY <1>1 DEF TaskStates
<1>3. tasks' = [tasks EXCEPT ![p] = t]
    OBVIOUS
<1> HIDE DEF t
<1>4. HoldsAll(p, t)
    BY <1>1, <1>2 DEF HoldsAll, AtWork, OfSignal
<1> QED BY <1>2, <1>3, <1>4, TurnStep

\* admitRunCycle looks for a lease.
LEMMA AcquireStep ==
    ASSUME WorkInv, NEW p \in Tasks, Acquire(p) PROVE WorkInv'
<1>1. tasks[p].pc = "acquire" /\ tasks[p] \in TaskStates /\ HoldsAll(p, tasks[p])
    BY Types DEF WorkInv, TasksOK, Acquire, At
<1>2. spent' \in [Disturbances -> Nat] /\ spent'.lapse = spent.lapse
    BY SpendKeeps DEF WorkInv, TypeOK, Acquire, Disturbances
<1>3. QuietBut({p})
    BY <1>2, NothingMoves DEF Acquire
<1>4. CASE \E result : Returns(p, result)
    BY <1>3, <1>4, ReturnsRests, RestStep
<1>5. CASE Continues(p, "start")
    BY <1>1, <1>3, <1>5, GotoStep DEF Continues, Goto, AtWork
<1>6. CASE Free # {} /\ tasks' = [tasks EXCEPT ![p].slot = Min(Free), ![p].pc = "start"]
  <2> DEFINE t == [tasks[p] EXCEPT !.slot = Min(Free), !.pc = "start"]
  <2>1. Min(Free) \in Slots
      BY <1>6, MinIsLeast, WorkAssumption DEF Free
  <2>2. t \in TaskStates /\ t.pc = "start" /\ t.issue = tasks[p].issue /\ t.run = tasks[p].run
        /\ t.op = tasks[p].op /\ t.todo = tasks[p].todo
      BY <1>1, <2>1 DEF TaskStates
  <2>3. tasks' = [tasks EXCEPT ![p] = t]
      BY <1>6
  <2> HIDE DEF t
  <2>4. HoldsAll(p, t)
      BY <1>1, <2>2 DEF HoldsAll, AtWork, OfSignal
  <2> QED BY <1>3, <2>2, <2>3, <2>4, TurnStep
<1> QED BY <1>4, <1>5, <1>6 DEF Acquire

\* An operator's abort begins, and reads the run.
LEMMA RequestAbortStep ==
    ASSUME WorkInv, NEW p \in Dispatchers, NEW r, RequestAbort(p, r) PROVE WorkInv'
<1> DEFINE t == [Idle EXCEPT !.op = "abort", !.pc = "abort", !.issue = runs[r].issue, !.run = r]
<1>1. /\ p \in Tasks /\ p # Queue /\ r \in 1..Len(runs) /\ r \in Nat
      /\ runs[r].issue \in Issues
    BY Types, WorkAssumption DEF Tasks, RequestAbort, WorkInv, Rows
<1>2. spent' \in [Disturbances -> Nat] /\ spent'.lapse = spent.lapse
    BY SpendKeeps DEF WorkInv, RequestAbort, Disturbances
<1>3. QuietBut({p})
    BY <1>2, NothingMoves DEF RequestAbort
<1>4. t \in TaskStates /\ t.pc = "abort" /\ t.op = "abort" /\ t.issue \in Issues /\ t.run = r
  <2> DEFINE i == runs[r].issue
  <2> HIDE DEF i
  <2>1. i \in Issues
      BY <1>1 DEF i
  <2>2. t = [Idle EXCEPT !.op = "abort", !.pc = "abort", !.issue = i, !.run = r]
      BY DEF i
  <2> HIDE DEF t
  <2> QED BY <1>1, <2>1, <2>2 DEF Idle, TaskStates
<1>5. tasks' = [tasks EXCEPT ![p] = t]
    BY DEF RequestAbort
<1> HIDE DEF t
<1>6. HoldsAll(p, t)
    BY <1>1, <1>4 DEF HoldsAll, AtWork, OfSignal
<1> QED BY <1>1, <1>3, <1>4, <1>5, <1>6, TurnStep

\* An abort reads its run, and gives up on one that is terminal.
LEMMA ReadForAbortStep ==
    ASSUME WorkInv, NEW p \in Tasks, ReadForAbort(p) PROVE WorkInv'
<1>1. tasks[p].pc = "abort"
    BY DEF ReadForAbort, At
<1>2. QuietBut({p})
    BY NothingMoves DEF ReadForAbort, WorkInv, TypeOK
<1>3. CASE Returns(p, "error")
    BY <1>2, <1>3, ReturnsRests, RestStep
<1>4. CASE Continues(p, "patch")
    BY <1>1, <1>2, <1>4, GotoStep DEF Continues, Goto, AtWork
<1> QED BY <1>3, <1>4 DEF ReadForAbort

\* The queue wakes and takes up the next run.
LEMMA DrainStep == ASSUME WorkInv, Drain PROVE WorkInv'
<1>1. Queue \in Tasks
    BY DEF Tasks
<1>2. QuietBut({Queue})
    BY NothingMoves DEF Drain, WorkInv, TypeOK
<1>3. Queued \in SUBSET Nat /\ Queued \subseteq 1..Len(runs)
    BY DEF Queued
<1>4. Rests(Queue)
    BY <1>3, FacingRests DEF Drain, Rests
<1> QED BY <1>1, <1>2, <1>4, RestStep

\* Only the queue's loop has the queue's rows before it.
LEMMA NextQueuedStep == ASSUME WorkInv, NextQueued PROVE WorkInv'
<1> DEFINE b == tasks[Queue]
           r == Min(b.todo)
           t == [b EXCEPT !.pc = "acquire", !.run = r, !.issue = runs[r].issue, !.todo = @ \ {r}]
<1>1. Queue \in Tasks /\ b \in TaskStates /\ HoldsAll(Queue, b) /\ b.pc = "next"
    BY Types DEF Tasks, WorkInv, TasksOK, NextQueued, At
<1>2. spent' \in [Disturbances -> Nat] /\ spent'.lapse = spent.lapse
    BY SpendKeeps DEF WorkInv, TypeOK, NextQueued, Disturbances
<1>3. QuietBut({Queue})
    BY <1>2, NothingMoves DEF NextQueued
<1>4. CASE tasks' = [tasks EXCEPT ![Queue] = Idle]
    BY <1>1, <1>3, <1>4, IdleRests, RestStep DEF Rests
<1>5. CASE tasks' = [tasks EXCEPT ![Queue] = t]
  <2>1. b.op = "queue" /\ b.todo \subseteq 1..Len(runs) /\ r \in b.todo
      BY <1>1, MinIsLeast DEF HoldsAll, TaskStates
  <2>2. runs[r].issue \in Issues
      BY <2>1, Types DEF WorkInv, Rows
  <2>3. /\ t \in TaskStates /\ t.pc = "acquire" /\ t.op = "queue" /\ t.issue \in Issues
        /\ t.run = r /\ t.todo \subseteq 1..Len(runs)
    <3> HIDE DEF r
    <3>1. r \in Nat /\ b.todo \ {r} \in SUBSET Nat
        BY <1>1, <2>1 DEF TaskStates
    <3> QED BY <1>1, <2>1, <2>2, <3>1 DEF TaskStates
  <2> HIDE DEF t
  <2>4. HoldsAll(Queue, t)
      BY <2>1, <2>3 DEF HoldsAll, AtWork, OfSignal
  <2> QED BY <1>1, <1>3, <1>5, <2>3, <2>4, TurnStep
<1> QED BY <1>4, <1>5 DEF NextQueued

\* A reviewer's answer arrives.
LEMMA EnqueueStep == ASSUME WorkInv, NEW s \in Signals, Enqueue(s) PROVE WorkInv'
<1>1. QuietBut({}) /\ UNCHANGED tasks
    BY NothingMoves DEF Enqueue, WorkInv, TypeOK
<1> QED BY <1>1, LifeStep

\* A slot is free again.
LEMMA ReturnStep == ASSUME WorkInv, NEW s \in Slots, Return(s) PROVE WorkInv'
<1>1. QuietBut({}) /\ UNCHANGED tasks
    BY NothingMoves DEF Return, WorkInv, TypeOK
<1> QED BY <1>1, LifeStep

\* A drain lists the pending signals.
LEMMA ListPendingStep == ASSUME WorkInv, NEW p \in Drainers, ListPending(p) PROVE WorkInv'
<1> DEFINE pending == {s \in Signals : signals[s] = "pending"}
<1>1. p \in Tasks /\ p # Queue
    BY WorkAssumption DEF Tasks
<1>2. QuietBut({p})
    BY NothingMoves DEF ListPending, WorkInv, TypeOK
<1>3. pending \in SUBSET Nat /\ pending \subseteq Signals
    BY WorkAssumption
<1>4. tasks' = [tasks EXCEPT ![p] = Facing("signals", pending)]
    BY DEF ListPending
<1> HIDE DEF pending
<1>5. Rests(p)
    BY <1>1, <1>3, <1>4, FacingRests DEF Rests
<1> QED BY <1>1, <1>2, <1>5, RestStep

\* It takes up the next one, or skips it.
LEMMA NextSignalStep == ASSUME WorkInv, NEW p \in Drainers, NextSignal(p) PROVE WorkInv'
<1> DEFINE b == tasks[p]
           s == Min(b.todo)
           t == [b EXCEPT !.pc = "mark", !.signal = s, !.issue = Target[s], !.todo = @ \ {s}]
<1>1. p \in Tasks /\ p # Queue /\ b \in TaskStates /\ HoldsAll(p, b) /\ b.pc = "next"
    BY Types, WorkAssumption DEF Tasks, WorkInv, TasksOK, NextSignal, At
<1>2. QuietBut({p})
    BY NothingMoves DEF NextSignal, WorkInv, TypeOK
<1>3. b.op = "signals" /\ b.todo \subseteq Signals /\ s \in b.todo
    BY <1>1, MinIsLeast DEF HoldsAll, TaskStates
<1>4. CASE tasks' = [tasks EXCEPT ![p] = Facing("signals", b.todo \ {s})]
  <2> HIDE DEF s
  <2>1. b.todo \ {s} \in SUBSET Nat /\ b.todo \ {s} \subseteq Signals
      BY <1>1, <1>3 DEF TaskStates
  <2> QED BY <1>1, <1>2, <1>4, <2>1, FacingRests, RestStep DEF Rests
<1>5. CASE tasks' = [tasks EXCEPT ![p] = t]
  <2>1. Target[s] \in Issues /\ s \in Signals
      BY <1>3, WorkAssumption
  <2>2. /\ t \in TaskStates /\ t.pc = "mark" /\ t.op = "signals" /\ t.issue \in Issues
        /\ t.signal \in Signals /\ t.todo \subseteq Signals
    <3> HIDE DEF s
    <3>1. b.todo \ {s} \in SUBSET Nat
        BY <1>1 DEF TaskStates
    <3> QED BY <1>1, <1>3, <2>1, <3>1 DEF TaskStates
  <2> HIDE DEF t
  <2>3. HoldsAll(p, t)
      BY <1>1, <2>2 DEF HoldsAll, AtWork, OfSignal
  <2> QED BY <1>1, <1>2, <1>5, <2>2, <2>3, TurnStep
<1> QED BY <1>4, <1>5 DEF NextSignal

\* It marks the signal as its own, or finds that another did.
LEMMA MarkProcessingStep == ASSUME WorkInv, NEW p \in Tasks, MarkProcessing(p) PROVE WorkInv'
<1>1. tasks[p].pc = "mark" /\ tasks[p].op = "signals"
    BY DEF WorkInv, TasksOK, HoldsAll, OfSignal, MarkProcessing, At
<1>2. QuietBut({p})
    BY NothingMoves DEF MarkProcessing, WorkInv, TypeOK
<1>3. CASE Goto(p, "decide")
    BY <1>1, <1>2, <1>3, GotoStep DEF Goto
<1>4. CASE Answered(p, signals[tasks[p].signal])
    BY <1>1, <1>2, <1>4, AnsweredRests, RestStep
<1> QED BY <1>3, <1>4 DEF MarkProcessing

\* It decides on the newest run of the PR.
LEMMA DecideStep == ASSUME WorkInv, NEW p \in Tasks, Decide(p) PROVE WorkInv'
<1> DEFINE b == tasks[p]
           r == newest[b.issue]
           t == [b EXCEPT !.pc = "stamp", !.run = r]
<1>1. b.pc = "decide" /\ b.op = "signals" /\ b \in TaskStates /\ HoldsAll(p, b)
    BY Types DEF WorkInv, TasksOK, HoldsAll, OfSignal, Decide, At
<1>2. spent' \in [Disturbances -> Nat] /\ spent'.lapse = spent.lapse
    BY SpendKeeps DEF WorkInv, TypeOK, Decide, Disturbances
<1>3. QuietBut({p})
    BY <1>2, NothingMoves DEF Decide
<1>4. CASE \E state : Answered(p, state)
    BY <1>1, <1>3, <1>4, AnsweredRests, RestStep
<1>5. CASE r # 0 /\ tasks' = [tasks EXCEPT ![p].pc = "stamp", ![p].run = r]
  <2>1. b.issue \in Issues /\ r \in 1..Len(runs)
      BY <1>1, <1>5, Types DEF HoldsAll, WorkInv, TypeOK
  <2>2. tasks' = [tasks EXCEPT ![p] = t]
      BY <1>5
  <2>3. /\ t \in TaskStates /\ t.pc = "stamp" /\ t.op = "signals" /\ t.issue = b.issue
        /\ t.run = r /\ t.todo = b.todo /\ t.signal = b.signal
    <3> HIDE DEF r
    <3>1. r \in Nat
        BY <2>1
    <3> QED BY <1>1, <3>1 DEF TaskStates
  <2> HIDE DEF t, r
  <2>4. HoldsAll(p, t)
      BY <1>1, <2>1, <2>3 DEF HoldsAll, AtWork, OfSignal
  <2> QED BY <1>3, <2>2, <2>3, <2>4, TurnStep
<1> QED BY <1>4, <1>5 DEF Decide, Actionable

-----------------------------------------------------------------------------
\* Steps that write a run's row.

\* A write of a row that follows, in the table and as the newest of its PR.
LEMMA WriteMoves ==
    ASSUME WorkInv, NEW r \in 1..Len(runs), NEW row, Follows(runs[r], row), Write(r, row),
           UNCHANGED <<locks, holders>>,
           spent' \in [Disturbances -> Nat], spent'.lapse = spent.lapse, NEW P,
           \A q \in Tasks \ P : At(q, "launch") /\ tasks[q].run = r => Unlaunched(row)
    PROVE  QuietBut(P)
<1>1. newest' \in [Issues -> 0..Len(runs)]
  <2>1. newest \in [Issues -> 0..Len(runs)] /\ r \in 0..Len(runs)
      BY Types DEF WorkInv, TypeOK
  <2> QED BY <2>1 DEF Write
<1> QED BY <1>1, RowMoves DEF Write

\* What the rows satisfy, of one row.
LEMMA RowIs ==
    ASSUME WorkInv, NEW r \in 1..Len(runs)
    PROVE  runs[r] \in Rows /\ RowOK(runs[r])
BY Types DEF WorkInv, RowsOK

\* A started run waited before, and is not launched yet.
LEMMA StartedFollows ==
    ASSUME NEW old \in Rows, RowOK(old), old.state = "queued", NEW slot \in Slots \cup {0},
           NEW new, new = [old EXCEPT !.state = "in_progress", !.slot = slot]
    PROVE  Follows(old, new) /\ Unlaunched(new)
<1>1. new \in Rows
    BY DEF Rows, States, Active, Terminal, Kinds
<1> QED BY <1>1 DEF Follows, RowOK, Keeps, HandedOn, Unlaunched, Rows, Active, Kinds

\* A launched run works, unless it was aborted.
LEMMA LaunchedFollows ==
    ASSUME NEW old \in Rows, RowOK(old), 
           Unlaunched(old) \/ old.gate # "none",
           NEW new, new = [old EXCEPT !.live = @ \/ old.state = "in_progress"]
    PROVE  Follows(old, new)
<1>1. new \in Rows
    BY DEF Rows, States, Active, Terminal, Kinds
<1> QED BY <1>1 DEF Follows, RowOK, Keeps, HandedOn, Unlaunched, Rows, Active, Kinds

\* A stamp leaves the rest of the row.
LEMMA StampedFollows ==
    ASSUME NEW old \in Rows, RowOK(old), NEW kind \in Kinds,
           NEW new, new = [old EXCEPT !.stamp = kind]
    PROVE  Follows(old, new) /\ (Unlaunched(old) => Unlaunched(new))
<1>1. new \in Rows
    BY DEF Rows, States, Active, Terminal, Kinds
<1> QED BY <1>1 DEF Follows, RowOK, Keeps, HandedOn, Unlaunched, Rows, Active, Kinds

\* A gate that is decided was parked.
LEMMA DecidedFollows ==
    ASSUME NEW old \in Rows, RowOK(old), old.state = "review_required", NEW kind \in Kinds,
           NEW new, new = 
             [old EXCEPT !.state = "in_progress", !.gate = kind]
    PROVE  Follows(old, new) /\ new.gate # "none" /\ ~Unlaunched(old)
<1>1. new \in Rows
    BY DEF Rows, States, Active, Terminal, Kinds
<1> QED BY <1>1 DEF Follows, RowOK, Keeps, HandedOn, Unlaunched, Rows, Active, Kinds

\* A run that parks worked.
LEMMA ParkedFollows ==
    ASSUME NEW old \in Rows, RowOK(old), old.live,
           NEW new, new = [old EXCEPT !.state = "review_required", !.live = FALSE]
    PROVE  Follows(old, new) /\ ~Unlaunched(old)
<1>1. new \in Rows
    BY DEF Rows, States, Active, Terminal, Kinds
<1> QED BY <1>1 DEF Follows, RowOK, Keeps, HandedOn, Unlaunched, Rows, Active, Kinds

\* So did one that passes ...
LEMMA PassedFollows ==
    ASSUME NEW old \in Rows, RowOK(old), old.live,
           NEW new, new = 
             [old EXCEPT !.state = "passed", !.live = FALSE, !.owes = TRUE]
    PROVE  Follows(old, new) /\ ~Unlaunched(old)
<1>1. new \in Rows
    BY DEF Rows, States, Active, Terminal, Kinds
<1> QED BY <1>1 DEF Follows, RowOK, Keeps, HandedOn, Unlaunched, Rows, Active, Kinds

\* ... and one that is to be recycled.
LEMMA RetriedFollows ==
    ASSUME NEW old \in Rows, RowOK(old), old.live, old.gate = "none",
           NEW new, new = [old EXCEPT !.live = FALSE, !.next = "recycle"]
    PROVE  Follows(old, new) /\ ~Unlaunched(old)
<1>1. new \in Rows
    BY DEF Rows, States, Active, Terminal, Kinds
<1> QED BY <1>1 DEF Follows, RowOK, Keeps, HandedOn, Unlaunched, Rows, Active, Kinds

\* A recycled run was about to be.
LEMMA RecycledFollows ==
    ASSUME NEW old \in Rows, RowOK(old), old.next = "recycle",
           NEW new, new = [old EXCEPT !.state = "recycled", !.next = "child"]
    PROVE  Follows(old, new) /\ ~Unlaunched(old)
<1>1. new \in Rows
    BY DEF Rows, States, Active, Terminal, Kinds
<1> QED BY <1>1 DEF Follows, RowOK, Keeps, HandedOn, Unlaunched, Rows, Active, Kinds

\* What a settled run owed is done.
LEMMA SettledFollows ==
    ASSUME NEW old \in Rows, RowOK(old),
           NEW new, new = [old EXCEPT !.owes = FALSE]
    PROVE  Follows(old, new) /\ (Unlaunched(old) => Unlaunched(new))
<1>1. new \in Rows
    BY DEF Rows, States, Active, Terminal, Kinds
<1> QED BY <1>1 DEF Follows, RowOK, Keeps, HandedOn, Unlaunched, Rows, Active, Kinds

\* An abort overwrites any row.
LEMMA AbortedFollows ==
    ASSUME NEW old \in Rows, RowOK(old)
    PROVE  /\ Follows(old, AbortedRow(old))
           /\ Unlaunched(old) => Unlaunched(AbortedRow(old))
<1> DEFINE new == AbortedRow(old)
<1>1. new \in Rows
    BY DEF Rows, States, Terminal, AbortedRow
<1> QED BY <1>1 DEF Follows, RowOK, Keeps, HandedOn, Unlaunched, Rows, Active, AbortedRow

\* After a crash nothing is owed any more and no cycle follows.
LEMMA CrashedFollows ==
    ASSUME NEW old \in Rows, RowOK(old),
           NEW new, new = [old EXCEPT !.owes = FALSE, !.next = "none"]
    PROVE  Follows(old, new)
<1>1. new \in Rows
    BY DEF Rows
<1> QED BY <1>1 DEF Follows, RowOK, Keeps, HandedOn, Rows, Active

\* What an admission is at work with.
LEMMA AtRun ==
    ASSUME WorkInv, NEW p \in Tasks, tasks[p].pc \in AtWork
    PROVE  /\ tasks[p] \in TaskStates /\ HoldsAll(p, tasks[p]) /\ tasks[p].run \in 1..Len(runs)
           /\ runs[tasks[p].run] \in Rows /\ RowOK(runs[tasks[p].run])
BY Types, RowIs DEF WorkInv, TasksOK, HoldsAll

\* A run is started, or another was quicker.
LEMMA StartStep == ASSUME WorkInv, NEW p \in Tasks, Start(p) PROVE WorkInv'
<1> DEFINE b == tasks[p]
           row == runs[b.run]
           slot == IF b.slot = 0 THEN row.slot ELSE b.slot
           new == [row EXCEPT !.state = "in_progress", !.slot = slot]
           t == [b EXCEPT !.pc = "launch"]
<1>1. b.pc = "start"
    BY DEF Start, At
<1>2. b \in TaskStates /\ HoldsAll(p, b) /\ b.run \in 1..Len(runs) /\ row \in Rows /\ RowOK(row)
    BY <1>1, AtRun DEF AtWork
<1>3. PICK bad \in BOOLEAN :
        /\ Fails(bad)
        /\ IF CanStart(row) /\ ~bad
             THEN Write(b.run, new) /\ Continues(p, "launch")
             ELSE /\ UNCHANGED <<runs, newest>>
                  /\ Continues(p, "abort") \/ Returns(p, "skipped")
    BY DEF Start
<1>4. spent' \in [Disturbances -> Nat] /\ spent'.lapse = spent.lapse
    BY <1>3, FailsKeeps DEF WorkInv
<1>5. UNCHANGED <<locks, holders>>
    BY DEF Start
<1>6. CASE UNCHANGED <<runs, newest>> /\ (Continues(p, "abort") \/ Returns(p, "skipped"))
  <2>1. QuietBut({p})
      BY <1>4, <1>5, <1>6, NothingMoves
  <2>2. CASE Returns(p, "skipped")
      BY <2>1, <2>2, ReturnsRests, RestStep
  <2>3. CASE Continues(p, "abort")
      BY <1>1, <2>1, <2>3, GotoStep DEF Continues, Goto, AtWork
  <2> QED BY <1>6, <2>2, <2>3
<1>7. CASE CanStart(row) /\ Write(b.run, new) /\ Continues(p, "launch")
  <2>1. slot \in Slots \cup {0} /\ row.state = "queued"
      BY <1>2, <1>7 DEF Rows, TaskStates, CanStart
  <2>2. Follows(row, new) /\ Unlaunched(new)
    <3> HIDE DEF slot
    <3> QED BY <1>2, <2>1, StartedFollows
  <2>3. \A q \in Tasks : At(q, "launch") => tasks[q].run # b.run
      BY <2>1 DEF WorkInv, TasksOK, LaunchOK, Unlaunched
  <2>4. QuietBut({p})
    <3> HIDE DEF new, row
    <3> QED BY <1>2, <1>4, <1>5, <1>7, <2>2, <2>3, WriteMoves DEF row
  <2>5. runs'[b.run] = new
    <3>1. new \in Rows /\ runs' = [runs EXCEPT ![b.run] = new]
        BY <1>7, <2>2 DEF Write, Follows
    <3> HIDE DEF new
    <3> QED BY <1>2, <3>1, RowReplaced DEF WorkInv, TypeOK
  <2> HIDE DEF new, row, slot
  <2>6. tasks' = [tasks EXCEPT ![p] = t]
      BY <1>7 DEF Continues, Goto
  <2>7. /\ t \in TaskStates /\ t.pc = "launch" /\ t.run = b.run
        /\ t.op = b.op /\ t.issue = b.issue /\ t.todo = b.todo
      BY <1>2 DEF TaskStates
  <2> HIDE DEF t
  <2>8. HoldsAll(p, t)
      BY <1>1, <1>2, <2>7 DEF HoldsAll, AtWork, OfSignal
  <2>9. Others(p, t)
      BY <2>3, <2>4, <2>6, <2>7, <2>8 DEF Others, QuietBut
  <2>10. tasks'[p] = t /\ \A q \in Tasks : q # p => tasks'[q] = tasks[q]
      BY <2>6 DEF WorkInv, TypeOK
  <2>11. CreateOK(p)' /\ EffectOK(p)' /\ LaunchOK(p)'
      BY <2>2, <2>3, <2>5, <2>7, <2>10 DEF CreateOK, EffectOK, LaunchOK, At
  <2>12. holders' \in Nat /\ holders <= holders'
      BY <1>5, Types DEF WorkInv
  <2> QED BY <2>4, <2>7, <2>9, <2>11, <2>12, TaskStep DEF QuietBut
<1> QED BY <1>3, <1>6, <1>7

\* Its first phase is launched, or not.
LEMMA LaunchStep == ASSUME WorkInv, NEW p \in Tasks, Launch(p) PROVE WorkInv'
<1> DEFINE b == tasks[p]
           row == runs[b.run]
           new == [row EXCEPT !.live = @ \/ row.state = "in_progress"]
<1>1. b.pc = "launch"
    BY DEF Launch, At
<1>2. b.run \in 1..Len(runs) /\ row \in Rows /\ RowOK(row)
    BY <1>1, AtRun DEF AtWork
<1>3. Unlaunched(row) /\ \A q \in Tasks \ {p} : At(q, "launch") => tasks[q].run # b.run
    BY <1>1 DEF WorkInv, TasksOK, LaunchOK, At
<1>4. spent' \in [Disturbances -> Nat] /\ spent'.lapse = spent.lapse
    BY SpendKeeps DEF WorkInv, TypeOK, Launch, Disturbances
<1>5. UNCHANGED <<newest, locks, holders>>
    BY DEF Launch
<1>6. CASE UNCHANGED runs /\ Continues(p, "abort")
  <2>1. QuietBut({p})
      BY <1>4, <1>5, <1>6, NothingMoves
  <2> QED BY <1>1, <1>6, <2>1, GotoStep DEF Continues, Goto, AtWork
<1>7. CASE runs' = [runs EXCEPT ![b.run] = new] /\ Returns(p, "dispatched")
  <2>1. Follows(row, new)
      BY <1>2, <1>3, LaunchedFollows
  <2>2. newest' \in [Issues -> 0..Len(runs)]
      BY <1>5, Types DEF WorkInv, TypeOK
  <2> HIDE DEF new
  <2>3. QuietBut({p})
    <3> HIDE DEF row
    <3> QED BY <1>2, <1>3, <1>4, <1>5, <1>7, <2>1, <2>2, RowMoves, ZenonT(60) DEF row
  <2> QED BY <1>7, <2>3, ReturnsRests, RestStep
<1>8. \/ UNCHANGED runs /\ Continues(p, "abort")
      \/ runs' = [runs EXCEPT ![b.run] = new] /\ Returns(p, "dispatched")
    BY DEF Launch
<1> QED BY <1>6, <1>7, <1>8

\* The run is aborted, whatever it has become.
LEMMA AbortStep == ASSUME WorkInv, NEW p \in Tasks, Abort(p) PROVE WorkInv'
<1> DEFINE r == tasks[p].run
<1>1. r \in 1..Len(runs) /\ runs[r] \in Rows /\ RowOK(runs[r])
    BY AtRun DEF Abort, At, AtWork
<1>2. /\ Write(r, AbortedRow(runs[r])) /\ Returns(p, "dispatch_failed")
      /\ UNCHANGED <<locks, holders, spent>>
    BY DEF Abort
<1>3. \A q \in Tasks : At(q, "launch") /\ tasks[q].run = r => Unlaunched(AbortedRow(runs[r]))
    BY <1>1, AbortedFollows DEF WorkInv, TasksOK, LaunchOK
<1>4. QuietBut({p})
  <2> HIDE DEF r
  <2> QED BY <1>1, <1>2, <1>3, AbortedFollows, WriteMoves DEF WorkInv, TypeOK
<1> QED BY <1>2, <1>4, ReturnsRests, RestStep

\* The reviewer's name is on the run.
LEMMA StampStep == ASSUME WorkInv, NEW p \in Tasks, Stamp(p) PROVE WorkInv'
<1> DEFINE b == tasks[p]
           r == b.run
           kind == Kind[b.signal]
           new == [runs[r] EXCEPT !.stamp = kind]
<1>1. b.pc = "stamp"
    BY DEF Stamp, At
<1>2. /\ b.op = "signals" /\ kind \in Kinds /\ r \in 1..Len(runs)
      /\ runs[r] \in Rows /\ RowOK(runs[r])
    BY <1>1, AtRun, WorkAssumption DEF HoldsAll, OfSignal, AtWork
<1>3. spent' \in [Disturbances -> Nat] /\ spent'.lapse = spent.lapse /\ UNCHANGED <<locks, holders>>
    BY SpendKeeps DEF WorkInv, TypeOK, Stamp, Disturbances
<1>4. CASE UNCHANGED <<runs, newest>> /\ Answered(p, "failed")
  <2>1. QuietBut({p})
      BY <1>3, <1>4, NothingMoves
  <2> QED BY <1>2, <1>4, <2>1, AnsweredRests, RestStep
<1>5. CASE Write(r, new) /\ Continues(p, IF kind = "reject" THEN "read" ELSE "gate")
  <2>1. Follows(runs[r], new) /\ (Unlaunched(runs[r]) => Unlaunched(new))
    <3> HIDE DEF kind
    <3> QED BY <1>2, StampedFollows
  <2> HIDE DEF new
  <2>2. \A q \in Tasks : At(q, "launch") /\ tasks[q].run = r => Unlaunched(new)
      BY <2>1 DEF WorkInv, TasksOK, LaunchOK
  <2>3. QuietBut({p})
    <3> HIDE DEF r
    <3> QED BY <1>2, <1>3, <1>5, <2>1, <2>2, WriteMoves
  <2> QED BY <1>1, <1>5, <2>3, GotoStep DEF Continues, Goto
<1>6. \/ UNCHANGED <<runs, newest>> /\ Answered(p, "failed")
      \/ Write(r, new) /\ Continues(p, IF kind = "reject" THEN "read" ELSE "gate")
    BY DEF Stamp
<1> QED BY <1>4, <1>5, <1>6

\* The gate is decided, or was not parked.
LEMMA DecideGateStep == ASSUME WorkInv, NEW p \in Tasks, DecideGate(p) PROVE WorkInv'
<1> DEFINE b == tasks[p]
           r == b.run
           kind == Kind[b.signal]
           new == [runs[r] EXCEPT !.state = "in_progress", !.gate = kind]
           t == [b EXCEPT !.pc = "effect"]
<1>1. b.pc = "gate"
    BY DEF DecideGate, At
<1>2. /\ b \in TaskStates /\ HoldsAll(p, b) /\ b.op = "signals" /\ kind \in Kinds
      /\ r \in 1..Len(runs) /\ runs[r] \in Rows /\ RowOK(runs[r])
    BY <1>1, AtRun, WorkAssumption DEF HoldsAll, OfSignal, AtWork
<1>3. UNCHANGED <<locks, holders, spent>>
    BY DEF DecideGate
<1>4. CASE UNCHANGED <<runs, newest>> /\ Answered(p, "failed")
  <2>1. QuietBut({p})
      BY <1>3, <1>4, NothingMoves DEF WorkInv, TypeOK
  <2> QED BY <1>2, <1>4, <2>1, AnsweredRests, RestStep
<1>5. CASE CanDecideGate(runs[r]) /\ Write(r, new) /\ Continues(p, "effect")
  <2>1. Follows(runs[r], new) /\ new.gate # "none" /\ ~Unlaunched(runs[r])
    <3> HIDE DEF kind
    <3> QED BY <1>2, <1>5, DecidedFollows DEF CanDecideGate
  <2> HIDE DEF new
  <2>2. \A q \in Tasks : At(q, "launch") => tasks[q].run # r
      BY <2>1 DEF WorkInv, TasksOK, LaunchOK
  <2>3. QuietBut({p})
    <3> HIDE DEF r
    <3> QED BY <1>2, <1>3, <1>5, <2>1, <2>2, WriteMoves DEF WorkInv, TypeOK
  <2>4. runs'[r] = new
    <3>1. new \in Rows /\ runs' = [runs EXCEPT ![r] = new]
        BY <1>5, <2>1 DEF Write, Follows
    <3> QED BY <1>2, <3>1, RowReplaced DEF WorkInv, TypeOK
  <2>5. tasks' = [tasks EXCEPT ![p] = t]
      BY <1>5 DEF Continues, Goto
  <2>6. /\ t \in TaskStates /\ t.pc = "effect" /\ t.run = r /\ t.signal = b.signal
        /\ t.op = b.op /\ t.issue = b.issue /\ t.todo = b.todo
      BY <1>2 DEF TaskStates
  <2> HIDE DEF t
  <2>7. HoldsAll(p, t)
      BY <1>1, <1>2, <2>6 DEF HoldsAll, AtWork, OfSignal
  <2>8. Others(p, t)
      BY <2>3, <2>5, <2>6, <2>7 DEF Others, QuietBut
  <2>9. tasks'[p] = t
      BY <2>5 DEF WorkInv, TypeOK
  <2>10. CreateOK(p)' /\ EffectOK(p)' /\ LaunchOK(p)'
      BY <2>1, <2>4, <2>6, <2>9 DEF CreateOK, EffectOK, LaunchOK, At
  <2>11. holders' \in Nat /\ holders <= holders'
      BY <1>3, Types DEF WorkInv
  <2> QED BY <2>3, <2>6, <2>8, <2>10, <2>11, TaskStep DEF QuietBut
<1>6. \/ UNCHANGED <<runs, newest>> /\ Answered(p, "failed")
      \/ CanDecideGate(runs[r]) /\ Write(r, new) /\ Continues(p, "effect")
    BY DEF DecideGate
<1> QED BY <1>4, <1>5, <1>6

\* The merge or the teardown is launched, or not.
LEMMA EffectStep == ASSUME WorkInv, NEW p \in Tasks, Effect(p) PROVE WorkInv'
<1> DEFINE b == tasks[p]
           r == b.run
           new == [runs[r] EXCEPT !.live = @ \/ runs[r].state = "in_progress"]
<1>1. b.pc = "effect"
    BY DEF Effect, At
<1>2. b.op = "signals" /\ r \in 1..Len(runs) /\ runs[r] \in Rows /\ RowOK(runs[r])
    BY <1>1, AtRun DEF HoldsAll, OfSignal, AtWork
<1>3. runs[r].gate # "none"
    BY <1>1 DEF WorkInv, TasksOK, EffectOK, At
<1>4. /\ spent' \in [Disturbances -> Nat] /\ spent'.lapse = spent.lapse
      /\ UNCHANGED <<newest, locks, holders>>
    BY SpendKeeps DEF WorkInv, TypeOK, Effect, Disturbances
<1>5. \E state : Answered(p, state)
    BY DEF Effect
<1>6. Rests(p)
    BY <1>2, <1>5, AnsweredRests
<1>7. CASE UNCHANGED runs
    BY <1>4, <1>6, <1>7, NothingMoves, RestStep
<1>8. CASE runs' = [runs EXCEPT ![r] = new]
  <2>1. Follows(runs[r], new)
      BY <1>2, <1>3, LaunchedFollows
  <2>2. newest' \in [Issues -> 0..Len(runs)]
      BY <1>4, Types DEF WorkInv, TypeOK
  <2>3. \A q \in Tasks : At(q, "launch") => tasks[q].run # r
      BY <1>3 DEF WorkInv, TasksOK, LaunchOK, Unlaunched
  <2> HIDE DEF new
  <2>4. QuietBut({p})
    <3> HIDE DEF r
    <3> QED BY <1>2, <1>4, <1>8, <2>1, <2>2, <2>3, RowMoves
  <2> QED BY <1>6, <2>4, RestStep
<1>9. UNCHANGED runs \/ runs' = [runs EXCEPT ![r] = new]
    BY DEF Effect
<1> QED BY <1>7, <1>8, <1>9

-----------------------------------------------------------------------------
\* The life of a run.

\* A run's own step writes a row that no admission is about to launch.
LEMMA OwnWrite ==
    ASSUME WorkInv, NEW r \in 1..Len(runs), NEW row, Follows(runs[r], row), ~Unlaunched(runs[r]),
           runs' = [runs EXCEPT ![r] = row], newest' \in [Issues -> 0..Len(runs)],
           UNCHANGED <<locks, tasks, holders, spent>>
    PROVE  WorkInv'
<1>1. \A q \in Tasks : At(q, "launch") => tasks[q].run # r
    BY DEF WorkInv, TasksOK, LaunchOK
<1>2. QuietBut({})
    BY <1>1, RowMoves DEF WorkInv, TypeOK
<1> QED BY <1>2, LifeStep

\* The newest row of a PR is one of the table.
LEMMA NewestIn ==
    ASSUME WorkInv, NEW r \in 1..Len(runs), NEW i
    PROVE  /\ newest \in [Issues -> 0..Len(runs)]
           /\ [newest EXCEPT ![i] = r] \in [Issues -> 0..Len(runs)]
           /\ [newest EXCEPT ![i] = IF @ = 0 THEN 0 ELSE r] \in [Issues -> 0..Len(runs)]
<1>1. newest \in [Issues -> 0..Len(runs)] /\ r \in 0..Len(runs)
    BY Types DEF WorkInv, TypeOK
<1> QED BY <1>1

\* It parks.
LEMMA ParkStep == ASSUME WorkInv, NEW r, Park(r) PROVE WorkInv'
<1> DEFINE new == [runs[r] EXCEPT !.state = "review_required", !.live = FALSE]
<1>1. r \in 1..Len(runs) /\ runs[r].live
    BY DEF Park, Works
<1>2. Follows(runs[r], new) /\ ~Unlaunched(runs[r])
    BY <1>1, RowIs, ParkedFollows
<1>3. /\ runs' = [runs EXCEPT ![r] = new] /\ newest' = [newest EXCEPT ![runs[r].issue] = r]
      /\ UNCHANGED <<locks, tasks, holders, spent>>
    BY DEF Park
<1> HIDE DEF new
<1> QED BY <1>1, <1>2, <1>3, NewestIn, OwnWrite

\* It ends, passed or aborted.
LEMMA EndStep == ASSUME WorkInv, NEW r, End(r) PROVE WorkInv'
<1> DEFINE new == [runs[r] EXCEPT !.state = "passed", !.live = FALSE, !.owes = TRUE]
<1>1. /\ r \in 1..Len(runs) /\ runs[r].live
      /\ Write(r, new) \/ Write(r, AbortedRow(runs[r]))
      /\ UNCHANGED <<locks, tasks, holders, spent>>
    BY DEF End, Ends, Works
<1>2. Follows(runs[r], new) /\ ~Unlaunched(runs[r]) /\ Follows(runs[r], AbortedRow(runs[r]))
    BY <1>1, RowIs, PassedFollows, AbortedFollows
<1> HIDE DEF new
<1> QED BY <1>1, <1>2, NewestIn, OwnWrite, SMTT(30) DEF Write

\* Its completion decides to retry ...
LEMMA RetryStep == ASSUME WorkInv, NEW r, Retry(r) PROVE WorkInv'
<1> DEFINE new == [runs[r] EXCEPT !.live = FALSE, !.next = "recycle"]
<1>1. r \in 1..Len(runs) /\ runs[r].live /\ runs[r].gate = "none"
    BY DEF Retry, Works
<1>2. Follows(runs[r], new) /\ ~Unlaunched(runs[r])
    BY <1>1, RowIs, RetriedFollows
<1>3. runs' = [runs EXCEPT ![r] = new] /\ UNCHANGED <<newest, locks, tasks, holders, spent>>
    BY DEF Retry
<1> HIDE DEF new
<1> QED BY <1>1, <1>2, <1>3, NewestIn, OwnWrite

\* ... and overwrites it as recycled.
LEMMA RecycleStep == ASSUME WorkInv, NEW r, Recycle(r) PROVE WorkInv'
<1> DEFINE new == [runs[r] EXCEPT !.state = "recycled", !.next = "child"]
<1>1. /\ r \in 1..Len(runs) /\ runs[r].next = "recycle" /\ Write(r, new)
      /\ UNCHANGED <<locks, tasks, holders, spent>>
    BY DEF Recycle
<1>2. Follows(runs[r], new) /\ ~Unlaunched(runs[r])
    BY <1>1, RowIs, RecycledFollows
<1> HIDE DEF new
<1> QED BY <1>1, <1>2, NewestIn, OwnWrite DEF Write

\* A settled run lets go of its lock: no run of its issue keeps it, unless an abort met
\* a recycle.
LEMMA LetGoStep == ASSUME WorkInv, NEW r, LetGo(r) PROVE WorkInv'
<1> DEFINE old == runs[r]
           new == [old EXCEPT !.owes = FALSE]
<1>1. r \in 1..Len(runs) /\ old.owes /\ old \in Rows /\ RowOK(old)
    BY RowIs DEF LetGo
<1>2. /\ runs' = [runs EXCEPT ![r] = new] /\ locks' = Unlocked(old.issue, old.holder)
      /\ UNCHANGED <<newest, tasks, holders, spent>>
    BY DEF LetGo
<1>3. Follows(old, new) /\ (Unlaunched(old) => Unlaunched(new))
    BY <1>1, SettledFollows
<1> HIDE DEF new
<1>4. RunsFollow /\ \A k \in 1..Len(runs) : k # r => runs'[k] = runs[k]
    BY <1>1, <1>2, <1>3, OneRunFollows DEF WorkInv
<1>5. runs'[r] = new
    BY <1>1, <1>2, <1>3, RowReplaced DEF WorkInv, TypeOK, Follows
<1>6. /\ old.issue \in Issues
      /\ \A i \in Issues : locks'[i] =
            IF i = old.issue /\ locks[i] = old.holder THEN 0 ELSE locks[i]
    BY <1>1, <1>2 DEF Unlocked, WorkInv, TypeOK, Rows
<1>7. locks' \in [Issues -> Nat]
    BY <1>2 DEF Unlocked, WorkInv, TypeOK
<1>8. LocksStay
  <2>1. SUFFICES ASSUME locks[old.issue] = old.holder, ~MayOverlap(old.issue),
                        NEW k \in RunsOf(old.issue), runs[k].holder = old.holder
                 PROVE  ~Keeps(runs'[k])
      BY <1>6 DEF LocksStay
  <2>2. k \in 1..Len(runs) /\ r \in RunsOf(old.issue) /\ runs[k] \in Rows /\ RowOK(runs[k])
      BY <1>1, RowIs DEF RunsOf
  <2>3. ~Keeps(old)
      BY <1>1 DEF RowOK, Keeps, Active
  <2>4. CASE k = r
      BY <1>3, <1>5, <2>3, <2>4 DEF Follows
  <2>5. CASE k < r
    <3>1. HandedOn(runs[k])
        BY <1>1, <2>1, <2>2, <2>5 DEF WorkInv, ChainOK
    <3>2. ~Keeps(runs[k])
        BY <2>2, <3>1 DEF HandedOn, Keeps, RowOK, Active
    <3> QED BY <1>4, <2>2, <2>5, <3>2
  <2>6. CASE r < k
    <3>1. HandedOn(old)
        BY <1>1, <2>1, <2>2, <2>6 DEF WorkInv, ChainOK
    <3>2. old.reason
        BY <1>1, <3>1 DEF HandedOn, RowOK
    <3>3. FALSE
        BY <2>1, <2>2, <2>6, <3>2 DEF MayOverlap
    <3> QED BY <3>3
  <2> QED BY <1>1, <2>2, <2>4, <2>5, <2>6
<1>9. Undisrupted
    BY <1>2 DEF WorkInv, TypeOK, Undisrupted
<1>10. ASSUME NEW q \in Tasks, At(q, "create") PROVE locks'[tasks[q].issue] = locks[tasks[q].issue]
  <2>1. tasks[q].issue \in Issues /\ locks[tasks[q].issue] # old.holder
      BY <1>1, <1>10 DEF WorkInv, TasksOK, HoldsAll, CreateOK, At
  <2> QED BY <1>6, <2>1
<1>11. ASSUME NEW q \in Tasks, At(q, "launch") PROVE Unlaunched(runs'[tasks[q].run])
  <2>1. tasks[q].run \in 1..Len(runs) /\ Unlaunched(runs[tasks[q].run])
      BY <1>11 DEF WorkInv, TasksOK, HoldsAll, LaunchOK, At, AtWork
  <2> QED BY <1>3, <1>4, <1>5, <2>1
<1>12. QuietBut({})
    BY <1>2, <1>4, <1>7, <1>8, <1>9, <1>10, <1>11 DEF QuietBut
<1> QED BY <1>2, <1>12, LifeStep

\* After a crash no task is at work.
LEMMA CrashStep == ASSUME WorkInv, Crash PROVE WorkInv'
<1>1. spent' \in [Disturbances -> Nat] /\ spent'.lapse = spent.lapse
    BY SpendKeeps DEF WorkInv, Crash, Disturbances
<1>2. UNCHANGED <<newest, locks, holders>> /\ tasks' = [p \in Tasks |-> Idle]
    BY DEF Crash
<1>3. RunsFollow
  <2> DEFINE new(k) == [runs[k] EXCEPT !.owes = FALSE, !.next = "none"]
  <2>1. \A k \in 1..Len(runs) : Follows(runs[k], new(k))
      BY RowIs, CrashedFollows
  <2>2. runs' = [k \in 1..Len(runs) |-> new(k)]
      BY DEF Crash
  <2>3. \A k \in 1..Len(runs) : new(k) \in Rows
      BY <2>1 DEF Follows
  <2> HIDE DEF new
  <2>4. Len(runs) \in Nat
      BY Types DEF WorkInv
  <2>5. runs' \in Seq(Rows) /\ Len(runs') = Len(runs)
    <3>1. runs' \in [1..Len(runs) -> Rows]
        BY <2>2, <2>3
    <3>2. DOMAIN runs' = 1..Len(runs)
        BY <3>1
    <3> QED BY <2>4, <3>1, <3>2
  <2> QED BY <2>1, <2>2, <2>5 DEF RunsFollow
<1>4. TypeOK'
  <2>1. tasks' \in [Tasks -> TaskStates]
      BY <1>2, IdleRests
  <2> QED BY <1>1, <1>2, <1>3, <2>1 DEF WorkInv, TypeOK, RunsFollow
<1>5. RowsOK' /\ ChainOK'
  <2>1. holders' \in Nat /\ holders <= holders'
      BY <1>2, Types DEF WorkInv
  <2> QED BY <1>3, <2>1, RowsFollowed DEF WorkInv
<1>6. \A p \in Tasks : tasks'[p] = Idle /\ Idle.pc = "idle"
    BY <1>2, IdleRests
<1>7. TasksOK'
  <2>1. ASSUME NEW p \in Tasks
        PROVE  HoldsAll(p, tasks[p])' /\ CreateOK(p)' /\ LaunchOK(p)' /\ EffectOK(p)'
    <3>1. HoldsAll(p, tasks[p])'
        BY <1>6 DEF HoldsAll, Idle, AtWork, OfSignal
    <3> QED BY <1>6, <3>1 DEF CreateOK, LaunchOK, EffectOK, At
  <2> QED BY <2>1 DEF TasksOK
<1>8. LocksStay
    BY <1>2 DEF LocksStay
<1>9. ASSUME NEW i \in Issues PROVE IssueOK(i)' /\ ClaimOK(i)'
  <2>1. \A p \in Tasks : ~Dispatching(p, i)'
      BY <1>6 DEF Dispatching
  <2> QED BY <1>1, <1>3, <1>8, <2>1, IssueFollowed DEF WorkInv, ClaimOK
<1> QED BY <1>4, <1>5, <1>7, <1>9 DEF WorkInv

\* The lock of the issue is claimed: by a holder that no run and no dispatch has.
LEMMA ClaimIssueStep == ASSUME WorkInv, NEW p \in Tasks, ClaimIssue(p) PROVE WorkInv'
<1> DEFINE b == tasks[p]
           i == b.issue
           t == [b EXCEPT !.pc = "create", !.holder = holders + 1]
<1>1. /\ b.pc = "claim" /\ b \in TaskStates /\ HoldsAll(p, b) /\ i \in Issues
      /\ holders \in Nat /\ holders' = holders + 1 /\ UNCHANGED <<runs, newest, spent>>
    BY Types DEF WorkInv, TasksOK, HoldsAll, ClaimIssue, At
<1>2. RunsFollow /\ Undisrupted
    BY <1>1, SameRunsFollow DEF WorkInv, TypeOK, Undisrupted
<1>3. \A r \in 1..Len(runs) : runs[r].holder # 0 /\ runs[r].holder <= holders
                                 /\ runs[r].holder \in Nat
    BY Types DEF WorkInv, RowsOK, Rows
<1>4. CASE UNCHANGED locks /\ Returns(p, "already_running")
  <2>1. PICK u \in TaskStates : /\ tasks' = [tasks EXCEPT ![p] = u] /\ u.pc \in {"idle", "next"}
                                 /\ HoldsAll(p, u)
      BY <1>4, ReturnsRests DEF Rests
  <2>2. locks' \in [Issues -> Nat] /\ LocksStay
      BY <1>4 DEF LocksStay, WorkInv, TypeOK
  <2>3. Others(p, u)
      BY <1>1, <1>4, <2>1 DEF Others, WorkInv, TasksOK, LaunchOK
  <2>4. tasks'[p] = u
      BY <2>1 DEF WorkInv, TypeOK
  <2>5. CreateOK(p)' /\ LaunchOK(p)' /\ EffectOK(p)'
      BY <2>1, <2>4 DEF CreateOK, LaunchOK, EffectOK, At
  <2>6. holders' \in Nat /\ holders <= holders'
      BY <1>1
  <2> QED BY <1>2, <2>1, <2>2, <2>3, <2>5, <2>6, TaskStep
<1>5. CASE /\ Claimable(i) /\ locks' = [locks EXCEPT ![i] = holders + 1]
           /\ tasks' = [tasks EXCEPT ![p].pc = "create", ![p].holder = holders + 1]
  <2>1. /\ t \in TaskStates /\ t.pc = "create" /\ t.holder = holders + 1 /\ t.issue = i
        /\ t.op = b.op /\ t.todo = b.todo /\ t.run = b.run
    <3> DEFINE h == holders + 1
    <3>1. h \in Nat /\ t = [b EXCEPT !.pc = "create", !.holder = h]
        BY <1>1
    <3> HIDE DEF h, t, i
    <3>2. /\ t \in TaskStates /\ t.pc = "create" /\ t.holder = h /\ t.issue = b.issue
          /\ t.op = b.op /\ t.todo = b.todo /\ t.run = b.run
        BY <1>1, <3>1 DEF TaskStates
    <3> QED BY <3>2 DEF h, i
  <2>2. tasks' = [tasks EXCEPT ![p] = t]
      BY <1>5
  <2> HIDE DEF t
  <2>3. HoldsAll(p, t)
      BY <1>1, <2>1 DEF HoldsAll, AtWork, OfSignal
  <2>4. locks' \in [Issues -> Nat] /\ locks'[i] = holders + 1 /\ locks[i] = 0
        /\ \A j \in Issues : j # i => locks'[j] = locks[j]
    <3> HIDE DEF i
    <3>1. locks \in [Issues -> Nat] /\ holders + 1 \in Nat
        BY <1>1 DEF WorkInv, TypeOK
    <3> QED BY <1>1, <1>5, <3>1 DEF Claimable
  <2>5. LocksStay
      BY <1>3, <2>4 DEF LocksStay, RunsOf
  <2>6. ASSUME NEW q \in Tasks, At(q, "create")
        PROVE  locks'[tasks[q].issue] = locks[tasks[q].issue] /\ holders + 1 # tasks[q].holder
    <3>1. /\ tasks[q].issue \in Issues /\ tasks[q].holder \in 1..holders
          /\ locks[tasks[q].issue] = tasks[q].holder
        BY <2>6 DEF WorkInv, TasksOK, HoldsAll, CreateOK, At
    <3> QED BY <1>1, <2>4, <3>1
  <2>7. Others(p, t)
      BY <1>1, <2>1, <2>2, <2>3, <2>6 DEF Others, WorkInv, TasksOK, LaunchOK
  <2>8. tasks'[p] = t /\ \A q \in Tasks : q # p => tasks'[q] = tasks[q]
      BY <2>2 DEF WorkInv, TypeOK
  <2>9. LaunchOK(p)' /\ EffectOK(p)'
      BY <2>1, <2>8 DEF LaunchOK, EffectOK, At
  <2>10. CreateOK(p)'
    <3>1. \A r \in 1..Len(runs) : runs[r].holder # holders + 1
        BY <1>1, <1>3
    <3>2. \A q \in Tasks : q # p /\ At(q, "create")' => tasks'[q].holder # holders + 1
        BY <2>6, <2>8 DEF At
    <3>3. holders + 1 \in 1..holders'
        BY <1>1
    <3> QED BY <1>1, <2>1, <2>4, <2>8, <3>1, <3>2, <3>3 DEF CreateOK
  <2>11. holders' \in Nat /\ holders <= holders'
      BY <1>1
  <2>12. b.op # "synthetic" => Dispatching(p, i)
      BY <1>1 DEF Dispatching
  <2> QED BY <1>2, <2>1, <2>4, <2>5, <2>7, <2>9, <2>10, <2>11, <2>12, TaskStep
<1> QED BY <1>4, <1>5 DEF ClaimIssue

-----------------------------------------------------------------------------
\* Steps that add a run.

\* A row is added, the others follow, and of the cycles with its lock it is the last.
Grows(row) ==
    /\ runs' \in Seq(Rows) /\ Len(runs') = Len(runs) + 1 /\ runs'[Len(runs) + 1] = row
    /\ \A k \in 1..Len(runs) : Follows(runs[k], runs'[k])
    /\ row \in Rows /\ RowOK(row) /\ row.holder <= holders
    /\ \A k \in 1..Len(runs) : runs[k].holder = row.holder =>
          runs[k].issue = row.issue /\ HandedOn(runs'[k])
    /\ UNCHANGED <<newest, locks, holders>>
    /\ spent' \in [Disturbances -> Nat] /\ spent'.lapse = spent.lapse

\* The rows of an issue, and what is known of the old ones.
LEMMA GrownRuns ==
    ASSUME WorkInv, NEW row, Grows(row), NEW i
    PROVE  /\ RunsOf(i)' = IF i = row.issue THEN RunsOf(i) \cup {Len(runs) + 1} ELSE RunsOf(i)
           /\ MayOverlap(i) => MayOverlap(i)'
<1>1. Len(runs) \in Nat
    BY Types DEF WorkInv
<1>2. RunsOf(i)' = IF i = row.issue THEN RunsOf(i) \cup {Len(runs) + 1} ELSE RunsOf(i)
    BY <1>1 DEF RunsOf, Grows, Follows
<1>3. RunsOf(i) \subseteq RunsOf(i)'
    BY <1>2
<1>4. \A k \in RunsOf(i) : /\ runs'[k].holder = runs[k].holder
                           /\ runs'[k].origin = runs[k].origin
                           /\ runs[k].reason => runs'[k].reason
    BY DEF RunsOf, Grows, Follows
<1>5. MayOverlap(i) => MayOverlap(i)'
    BY <1>3, <1>4 DEF MayOverlap, Grows
<1> QED BY <1>2, <1>5

\* The table is sound.
LEMMA GrownRows ==
    ASSUME WorkInv, NEW row, Grows(row) PROVE RowsOK' /\ ChainOK'
<1>1. Len(runs) \in Nat /\ holders \in Nat
    BY Types DEF WorkInv
<1>2. \A k \in 1..Len(runs)' : k \in 1..Len(runs) \/ k = Len(runs) + 1
    BY <1>1 DEF Grows
<1>3. \A k \in 1..Len(runs) :
          /\ RowOK(runs'[k]) /\ runs'[k].holder = runs[k].holder
          /\ runs'[k].issue = runs[k].issue
          /\ HandedOn(runs[k]) => HandedOn(runs'[k])
    BY DEF Grows, Follows
<1>4. RowsOK'
  <2>1. ASSUME NEW k \in 1..Len(runs)' PROVE RowOK(runs'[k]) /\ runs'[k].holder <= holders'
    <3>1. CASE k \in 1..Len(runs)
      <4>1. runs[k].holder <= holders /\ holders' = holders
          BY <3>1 DEF WorkInv, RowsOK, Grows
      <4> QED BY <1>3, <3>1, <4>1, Zenon
    <3>2. CASE k = Len(runs) + 1
        BY <3>2 DEF Grows
    <3> QED BY <1>2, <3>1, <3>2
  <2> QED BY <2>1 DEF RowsOK, RowOK
<1>5. ChainOK'
  <2>1. SUFFICES ASSUME NEW k \in 1..Len(runs)', NEW q \in 1..Len(runs)', k < q,
                        runs'[k].holder = runs'[q].holder
                 PROVE  runs'[k].issue = runs'[q].issue /\ HandedOn(runs'[k])
      BY DEF ChainOK, HandedOn
  <2>2. k \in 1..Len(runs)
      BY <1>1, <1>2, <2>1
  <2>3. CASE q \in 1..Len(runs)
    <3>1. runs[k].holder = runs[q].holder
        BY <1>3, <2>1, <2>2, <2>3
    <3>2. runs[k].issue = runs[q].issue /\ HandedOn(runs[k])
        BY <2>1, <2>2, <2>3, <3>1 DEF WorkInv, ChainOK
    <3> QED BY <1>3, <2>2, <2>3, <3>2, Zenon
  <2>4. CASE q = Len(runs) + 1
    <3>1. runs[k].holder = row.holder /\ runs'[q] = row
        BY <1>3, <2>1, <2>2, <2>4 DEF Grows
    <3>2. runs[k].issue = row.issue /\ HandedOn(runs'[k])
        BY <2>2, <3>1 DEF Grows
    <3> QED BY <1>3, <2>2, <3>1, <3>2, Zenon
  <2> QED BY <1>2, <2>3, <2>4
<1> QED BY <1>4, <1>5

\* Its issue has one active run: no other was active, and the lock is with the new one.
LEMMA GrownIssues ==
    ASSUME WorkInv, NEW row, Grows(row), NEW own, own = row.issue,
           \A i, p : Dispatching(p, i)' /\ p \in Tasks => Dispatching(p, i),
           \/ MayOverlap(own)'
           \/ /\ locks[own] = row.holder
              /\ \A k \in RunsOf(own) : runs[k].state \notin Active,
           NEW i \in Issues
    PROVE  IssueOK(i)' /\ ClaimOK(i)'
<1> DEFINE n == Len(runs) + 1
<1>1. SUFFICES ASSUME ~MayOverlap(i)' PROVE IssueOK(i)' /\ ClaimOK(i)'
    BY DEF IssueOK, ClaimOK
<1>2. ~MayOverlap(i)
    BY <1>1, GrownRuns
<1>3. ActiveIsLast(i) /\ LockIsKept(i)
    BY <1>2 DEF WorkInv, IssueOK
<1>4. \A k \in RunsOf(i) :
          /\ k \in 1..Len(runs)
          /\ runs'[k].state \in Active => runs[k].state \in Active
          /\ Keeps(runs'[k]) => Keeps(runs[k])
          /\ runs'[k].holder = runs[k].holder
    BY DEF RunsOf, Grows, Follows
<1>5. locks' = locks /\ spent'.lapse = spent.lapse /\ runs'[n] = row
    BY DEF Grows
<1>6. CASE i # row.issue
  <2>1. RunsOf(i)' = RunsOf(i)
      BY <1>6, GrownRuns
  <2>2. ActiveIsLast(i)'
      BY <1>3, <1>4, <2>1 DEF ActiveIsLast
  <2>3. LockIsKept(i)'
      BY <1>3, <1>4, <1>5, <2>1 DEF LockIsKept, Keeps
  <2>4. ClaimOK(i)'
      BY <1>2, <1>4, <1>5, <2>1 DEF WorkInv, ClaimOK
  <2> QED BY <2>2, <2>3, <2>4 DEF IssueOK
<1>7. CASE i = row.issue
  <2>1. RunsOf(i)' = RunsOf(i) \cup {n}
      BY <1>7, GrownRuns
  <2>2. locks[i] = row.holder /\ \A k \in RunsOf(i) : runs[k].state \notin Active
      BY <1>1, <1>7
  <2>3. Len(runs) \in Nat
      BY Types DEF WorkInv
  <2>4. ActiveIsLast(i)'
      BY <1>4, <2>1, <2>2, <2>3 DEF ActiveIsLast
  <2> HIDE DEF n
  <2>5. LockIsKept(i)'
      BY <1>3, <1>4, <1>5, <2>1, <2>2 DEF LockIsKept, Keeps
  <2>6. ClaimOK(i)'
      BY <1>4, <1>5, <2>1, <2>2 DEF ClaimOK
  <2> QED BY <2>4, <2>5, <2>6 DEF IssueOK
<1> QED BY <1>6, <1>7

\* A task that does not move holds what it held.
LEMMA GrownTask ==
    ASSUME WorkInv, NEW row, Grows(row), NEW q \in Tasks, tasks'[q] = tasks[q],
           At(q, "create") => row.holder # tasks[q].holder,
           At(q, "launch") => Unlaunched(runs'[tasks[q].run]),
           \A p \in Tasks : tasks'[p] = tasks[p] \/ tasks'[p].pc \notin {"create", "launch"}
    PROVE  (HoldsAll(q, tasks[q]) /\ CreateOK(q) /\ LaunchOK(q) /\ EffectOK(q))'
<1>1. Len(runs) \in Nat /\ \A k \in 1..Len(runs)' : k \in 1..Len(runs) \/ k = Len(runs) + 1
    BY Types DEF WorkInv, Grows
<1>2. 1..Len(runs) \subseteq 1..Len(runs)'
    BY <1>1 DEF Grows
<1>3. HoldsAll(q, tasks[q])'
    BY <1>2 DEF WorkInv, TasksOK, HoldsAll
<1>4. CreateOK(q)'
  <2>1. \A k \in 1..Len(runs) : runs'[k].holder = runs[k].holder
      BY DEF Grows, Follows
  <2> QED BY <1>1, <2>1 DEF WorkInv, TasksOK, CreateOK, At, Grows
<1>5. LaunchOK(q)'
    BY DEF WorkInv, TasksOK, LaunchOK, At, Unlaunched
<1>6. EffectOK(q)'
    BY DEF WorkInv, TasksOK, HoldsAll, EffectOK, At, AtWork, Grows, Follows
<1> QED BY <1>3, <1>4, <1>5, <1>6

\* The table is typed.
LEMMA GrownTypes ==
    ASSUME WorkInv, NEW row, Grows(row), tasks' \in [Tasks -> TaskStates] PROVE TypeOK'
<1>1. \A i \in Issues : newest[i] <= Len(runs) + 1
  <2>1. \A i \in Issues : newest[i] \in Nat /\ newest[i] <= Len(runs)
      BY DEF WorkInv, TypeOK
  <2>2. Len(runs) \in Nat
      BY Types DEF WorkInv
  <2> QED BY <2>1, <2>2
<1> QED BY <1>1 DEF WorkInv, TypeOK, Grows

\* A dispatch creates its run: nobody works on the issue but, after a lapse, next to a
\* synthetic run.
LEMMA CreateRunStep == ASSUME WorkInv, NEW p \in Tasks, CreateRun(p) PROVE WorkInv'
<1>0. PICK b, i, n, pc, o :
        /\ b = tasks[p] /\ i = b.issue /\ n = Len(runs) + 1
        /\ pc = IF b.op = "synthetic" THEN "start" ELSE "acquire"
        /\ o = IF b.op = "synthetic" THEN "synthetic" ELSE "dispatch"
    OBVIOUS
<1> DEFINE row == [issue |-> i, state |-> "queued", holder |-> b.holder, slot |-> 0, origin |-> o,
                   stamp |-> "none", gate |-> "none", live |-> FALSE, owes |-> FALSE,
                   reason |-> FALSE, next |-> "none"]
           t == [b EXCEPT !.run = n, !.pc = pc]
<1>1. /\ b.pc = "create" /\ b \in TaskStates /\ HoldsAll(p, b) /\ i \in Issues
      /\ UNCHANGED <<newest, holders>> /\ Len(runs) \in Nat /\ holders \in Nat
    BY <1>0, Types DEF WorkInv, TasksOK, HoldsAll, CreateRun, At
<1>2. /\ b.holder \in 1..holders /\ locks[i] = b.holder
      /\ \A r \in 1..Len(runs) : runs[r].holder # b.holder
      /\ \A q \in Tasks : q # p /\ At(q, "create") => tasks[q].holder # b.holder
    BY <1>0, <1>1 DEF WorkInv, TasksOK, CreateOK, At
<1>3. ASSUME Fails(Len(runs) < MaxRuns), Returns(p, "error"), locks' = Unlocked(i, b.holder),
             UNCHANGED runs
      PROVE  WorkInv'
  <2>1. spent' \in [Disturbances -> Nat] /\ spent'.lapse = spent.lapse
      BY <1>3, SpendKeeps DEF WorkInv, TypeOK, Fails, Disturbances
  <2>2. RunsFollow /\ Undisrupted
      BY <1>1, <1>3, <2>1, SameRunsFollow DEF WorkInv, TypeOK, Undisrupted
  <2>3. /\ locks' \in [Issues -> Nat] /\ \A j \in Issues : j # i => locks'[j] = locks[j]
      BY <1>1, <1>3 DEF Unlocked, WorkInv, TypeOK
  <2>4. LocksStay
      BY <1>2, <2>3 DEF LocksStay, RunsOf
  <2>5. ASSUME NEW q \in Tasks \ {p}, At(q, "create")
        PROVE  locks'[tasks[q].issue] = locks[tasks[q].issue]
    <3>1. tasks[q].issue \in Issues /\ tasks[q].issue # i
        BY <1>2, <2>5 DEF WorkInv, TasksOK, HoldsAll, CreateOK, At
    <3> QED BY <2>3, <3>1
  <2>6. QuietBut({p})
      BY <1>1, <1>3, <2>2, <2>3, <2>4, <2>5 DEF QuietBut, WorkInv, TasksOK, LaunchOK
  <2> QED BY <1>3, <2>6, ReturnsRests, RestStep
<1>4. ASSUME runs' = Append(runs, row), UNCHANGED <<locks, spent>>,
             tasks' = [tasks EXCEPT ![p].run = n, ![p].pc = pc]
      PROVE  WorkInv'
  <2>1. /\ row \in Rows /\ RowOK(row) /\ row.holder = b.holder /\ row.issue = i
        /\ row.origin = "synthetic" <=> b.op = "synthetic"
    <3>1. o \in {"dispatch", "synthetic"} /\ (o = "synthetic" <=> b.op = "synthetic")
        BY <1>0
    <3>2. b.holder \in Nat \ {0}
        BY <1>1, <1>2
    <3>3. row \in Rows
        BY <1>1, <3>1, <3>2 DEF Rows, States, Active
    <3>4. RowOK(row)
        BY DEF RowOK
    <3> QED BY <3>1, <3>3, <3>4
  <2>2. t \in TaskStates /\ t.pc = pc /\ t.run = n /\ t.issue = i /\ t.op = b.op /\ t.todo = b.todo
    <3>1. pc \in {"start", "acquire"} /\ n \in Nat
        BY <1>0, <1>1
    <3>2. t \in TaskStates /\ t.pc = pc /\ t.run = n
        BY <1>1, <3>1 DEF TaskStates
    <3>3. t.issue = b.issue /\ t.op = b.op /\ t.todo = b.todo
        BY <1>1 DEF TaskStates
    <3> QED BY <1>0, <3>2, <3>3
  <2>3. tasks' = [tasks EXCEPT ![p] = t]
      BY <1>0, <1>4
  <2> HIDE DEF row, t
  <2>4. Grows(row)
    <3>1. /\ runs' \in Seq(Rows) /\ Len(runs') = n /\ runs'[n] = row
          /\ \A k \in 1..Len(runs) : runs'[k] = runs[k]
        BY <1>0, <1>4, <2>1, RowAdded DEF WorkInv, TypeOK
    <3>2. \A k \in 1..Len(runs) : Follows(runs[k], runs'[k])
        BY <3>1, RowIs, FollowsItself
    <3>3. row.holder <= holders /\ UNCHANGED <<newest, locks, holders>>
          /\ spent' \in [Disturbances -> Nat] /\ spent'.lapse = spent.lapse
        BY <1>1, <1>2, <1>4, <2>1 DEF WorkInv, TypeOK
    <3> QED BY <1>0, <1>2, <2>1, <3>1, <3>2, <3>3 DEF Grows
  <2>5. /\ tasks' \in [Tasks -> TaskStates] /\ tasks'[p] = t
        /\ \A q \in Tasks : q # p => tasks'[q] = tasks[q]
      BY <2>2, <2>3 DEF WorkInv, TypeOK
  <2>6. pc \in {"start", "acquire"}
      BY <1>0
  <2>7. TasksOK'
    <3>1. ASSUME NEW q \in Tasks, q # p
          PROVE  (HoldsAll(q, tasks[q]) /\ CreateOK(q) /\ LaunchOK(q) /\ EffectOK(q))'
      <4>1. At(q, "launch") => Unlaunched(runs'[tasks[q].run])
        <5>1. At(q, "launch") => tasks[q].run \in 1..Len(runs) /\ Unlaunched(runs[tasks[q].run])
            BY DEF WorkInv, TasksOK, HoldsAll, LaunchOK, At, AtWork
        <5>2. \A k \in 1..Len(runs) : runs'[k] = runs[k]
            BY <1>4, <2>1, RowAdded DEF WorkInv, TypeOK
        <5> QED BY <5>1, <5>2
      <4>2. At(q, "create") => row.holder # tasks[q].holder
          BY <1>2, <2>1, <3>1
      <4>3. \A r \in Tasks : tasks'[r] = tasks[r] \/ tasks'[r].pc \notin {"create", "launch"}
          BY <2>2, <2>5, <2>6
      <4> QED BY <2>4, <2>5, <3>1, <4>1, <4>2, <4>3, GrownTask
    <3>2. HoldsAll(p, tasks[p])'
      <4>1. n \in 1..Len(runs)'
          BY <1>0, <1>1, <2>4 DEF Grows
      <4>2. 1..Len(runs) \subseteq 1..Len(runs)'
          BY <1>1, <2>4 DEF Grows
      <4> QED BY <1>1, <2>2, <2>5, <2>6, <4>1, <4>2 DEF HoldsAll, AtWork, OfSignal
    <3>3. CreateOK(p)' /\ LaunchOK(p)' /\ EffectOK(p)'
        BY <2>2, <2>5, <2>6 DEF CreateOK, LaunchOK, EffectOK, At
    <3> QED BY <3>1, <3>2, <3>3 DEF TasksOK
  <2>8. \/ MayOverlap(i)'
        \/ /\ locks[i] = row.holder
           /\ \A k \in RunsOf(i) : runs[k].state \notin Active
    <3>1. SUFFICES ASSUME ~MayOverlap(i)', NEW k \in RunsOf(i), runs[k].state \in Active
                   PROVE  FALSE
        BY <1>2, <2>1
    <3>2. ~MayOverlap(i)
        BY <2>4, <3>1, GrownRuns
    <3>3. locks[i] # runs[k].holder
        BY <1>2 DEF RunsOf
    <3>4. CASE b.op # "synthetic"
        BY <1>0, <1>1, <1>2, <3>1, <3>2, <3>3, <3>4 DEF WorkInv, ClaimOK, Dispatching
    <3>5. CASE b.op = "synthetic"
      <4>1. n \in RunsOf(i)' /\ runs'[n].origin = "synthetic"
          BY <1>0, <2>1, <2>4, <3>5, GrownRuns DEF Grows
      <4>2. ~(spent.lapse > 0)
          BY <1>4, <3>1, <4>1 DEF MayOverlap
      <4>3. spent.lapse = 0
          BY <4>2, Types DEF WorkInv
      <4> QED BY <1>1, <1>2, <3>1, <3>2, <3>3, <4>3 DEF WorkInv, IssueOK, LockIsKept, Keeps
    <3> QED BY <3>4, <3>5
  <2>9. \A j, q : Dispatching(q, j)' /\ q \in Tasks => Dispatching(q, j)
      BY <2>2, <2>5, <2>6 DEF Dispatching
  <2>10. TypeOK' /\ RowsOK' /\ ChainOK'
      BY <2>4, <2>5, GrownTypes, GrownRows
  <2>11. \A j \in Issues : IssueOK(j)' /\ ClaimOK(j)'
      BY <2>1, <2>4, <2>8, <2>9, GrownIssues
  <2> QED BY <2>7, <2>10, <2>11 DEF WorkInv
<1> QED BY <1>0, <1>3, <1>4 DEF CreateRun

\* The next cycle follows the one that was recycled, with its lock.
LEMMA HandOffStep == ASSUME WorkInv, NEW r, HandOff(r) PROVE WorkInv'
<1>0. PICK old, i, n :
        old = runs[r] /\ i = old.issue /\ n = Len(runs) + 1
    OBVIOUS
<1> DEFINE new == [old EXCEPT !.next = "none"]
           row == [issue |-> i, state |-> "in_progress", holder |-> old.holder,
                   slot |-> old.slot, origin |-> "recycle", stamp |-> "none", gate |-> "none",
                   live |-> TRUE, owes |-> FALSE, reason |-> FALSE, next |-> "none"]
           mid == [runs EXCEPT ![r] = new]
<1>1. /\ r \in 1..Len(runs) /\ old \in Rows /\ RowOK(old) /\ old.next = "child"
      /\ runs' = Append(mid, row)
      /\ UNCHANGED <<newest, locks, tasks, holders, spent>>
    BY <1>0, RowIs DEF HandOff
<1>2. Len(runs) \in Nat /\ i \in Issues
    BY <1>0, <1>1, Types DEF WorkInv, Rows
<1>3. /\ Follows(old, new) /\ HandedOn(new)
  <2>1. new \in Rows
      BY <1>1 DEF Rows
  <2> QED BY <1>1, <2>1 DEF Follows, RowOK, Keeps, HandedOn, Rows, Active
<1>4. row \in Rows /\ RowOK(row) /\ row.holder = old.holder /\ row.issue = i
      /\ row.origin = "recycle"
  <2>1. row \in Rows
      BY <1>1, <1>2 DEF Rows, States, Active
  <2>2. RowOK(row)
      BY DEF RowOK
  <2> QED BY <2>1, <2>2
<1> HIDE DEF new, row
<1>5. /\ mid \in Seq(Rows) /\ Len(mid) = Len(runs)
      /\ \A k \in 1..Len(runs) : mid[k] = IF k = r THEN new ELSE runs[k]
    BY <1>1, <1>3, ExceptSeq DEF WorkInv, TypeOK, Follows
<1> HIDE DEF mid
<1>6. /\ runs' \in Seq(Rows) /\ Len(runs') = n /\ runs'[n] = row
      /\ \A k \in 1..Len(runs) : runs'[k] = IF k = r THEN new ELSE runs[k]
  <2>1. /\ Append(mid, row) \in Seq(Rows) /\ Len(Append(mid, row)) = Len(mid) + 1
        /\ Append(mid, row)[Len(mid) + 1] = row
        /\ \A k \in 1..Len(mid) : Append(mid, row)[k] = mid[k]
      BY <1>4, <1>5, AppendProperties
  <2> QED BY <1>0, <1>1, <1>5, <2>1
\* Of the cycles with this lock, it is the last.
<1>7. ASSUME NEW k \in 1..Len(runs), k # r, runs[k].holder = old.holder
      PROVE  runs[k].issue = i /\ HandedOn(runs[k])
  <2>1. ~HandedOn(old)
      BY <1>1 DEF HandedOn
  <2>2. CASE r < k
      BY <1>0, <1>1, <1>7, <2>1, <2>2 DEF WorkInv, ChainOK
  <2>3. CASE k < r
      BY <1>0, <1>1, <1>7, <2>3 DEF WorkInv, ChainOK
  <2> QED BY <1>1, <1>2, <1>7, <2>2, <2>3
<1>8. Grows(row)
  <2>1. \A k \in 1..Len(runs) : Follows(runs[k], runs'[k])
      BY <1>0, <1>3, <1>6, RowIs, FollowsItself
  <2>2. \A k \in 1..Len(runs) : runs[k].holder = row.holder =>
            runs[k].issue = row.issue /\ HandedOn(runs'[k])
      BY <1>0, <1>3, <1>4, <1>6, <1>7, Zenon
  <2>3. row.holder <= holders /\ UNCHANGED <<newest, locks, holders>>
        /\ spent' \in [Disturbances -> Nat] /\ spent'.lapse = spent.lapse
      BY <1>0, <1>1, <1>4 DEF WorkInv, TypeOK, RowsOK
  <2> QED BY <1>0, <1>4, <1>6, <2>1, <2>2, <2>3 DEF Grows
<1>9. \/ MayOverlap(i)'
      \/ /\ locks[i] = row.holder
         /\ \A k \in RunsOf(i) : runs[k].state \notin Active
  <2>1. SUFFICES ASSUME ~MayOverlap(i)'
                 PROVE  /\ locks[i] = old.holder
                        /\ \A k \in RunsOf(i) : runs[k].state \notin Active
      BY <1>4
  <2>2. /\ r \in RunsOf(i) /\ RunsOf(i)' = RunsOf(i) \cup {n}
        /\ ~MayOverlap(i)
      BY <1>0, <1>1, <1>4, <1>8, <2>1, GrownRuns DEF RunsOf
  <2>3. ~old.reason
    <3>1. /\ runs'[r].reason = old.reason /\ runs'[r].holder = old.holder
          /\ runs'[n].holder = old.holder
        BY <1>1, <1>4, <1>6 DEF Rows, new
    <3>2. r < n /\ r \in RunsOf(i)' /\ n \in RunsOf(i)'
        BY <1>0, <1>1, <1>2, <2>2
    <3> QED BY <2>1, <3>1, <3>2 DEF MayOverlap
  <2>4. spent.lapse = 0
    <3>1. ~(spent'.lapse > 0)
        BY <1>4, <1>6, <2>1, <2>2 DEF MayOverlap
    <3> QED BY <1>1, <3>1, Types DEF WorkInv
  <2>5. IssueOK(i) /\ LockIsKept(i)
      BY <1>2, <2>2 DEF WorkInv, IssueOK
  <2>6. locks[i] = old.holder
      BY <1>0, <1>1, <2>2, <2>3, <2>4, <2>5 DEF LockIsKept, Keeps
  <2>7. ASSUME NEW k \in RunsOf(i), runs[k].state \in Active PROVE FALSE
    <3>1. k \in 1..Len(runs) /\ RowOK(runs[k]) /\ runs[k].holder = old.holder
        BY <2>2, <2>4, <2>5, <2>6, <2>7, RowIs DEF LockIsKept, Keeps, RunsOf
    <3>2. old.state \notin Active
        BY <1>1 DEF RowOK, Active
    <3>3. k # r
        BY <1>0, <2>7, <3>2
    <3> QED BY <1>7, <2>7, <3>1, <3>3 DEF HandedOn, RowOK, Active
  <2> QED BY <2>6, <2>7
<1>10. TasksOK'
  <2>1. ASSUME NEW q \in Tasks
        PROVE  (HoldsAll(q, tasks[q]) /\ CreateOK(q) /\ LaunchOK(q) /\ EffectOK(q))'
    <3>1. At(q, "launch") => Unlaunched(runs'[tasks[q].run])
      <4>1. At(q, "launch") => /\ tasks[q].run \in 1..Len(runs)
                               /\ Unlaunched(runs[tasks[q].run])
          BY DEF WorkInv, TasksOK, HoldsAll, LaunchOK, At, AtWork
      <4>2. ~Unlaunched(old)
          BY <1>1 DEF Unlaunched
      <4> QED BY <1>0, <1>6, <4>1, <4>2
    <3>2. At(q, "create") => row.holder # tasks[q].holder
        BY <1>0, <1>1, <1>4 DEF WorkInv, TasksOK, CreateOK
    <3> QED BY <1>1, <1>8, <3>1, <3>2, GrownTask
  <2> QED BY <2>1 DEF TasksOK
<1>11. \A j, q : Dispatching(q, j)' /\ q \in Tasks => Dispatching(q, j)
    BY <1>1 DEF Dispatching
<1>12. TypeOK' /\ RowsOK' /\ ChainOK'
    BY <1>1, <1>8, GrownTypes, GrownRows DEF WorkInv, TypeOK
<1>13. \A j \in Issues : IssueOK(j)' /\ ClaimOK(j)'
    BY <1>4, <1>8, <1>9, <1>11, GrownIssues
<1> QED BY <1>10, <1>12, <1>13 DEF WorkInv

-----------------------------------------------------------------------------
\* A lock expires: nobody is about to create a run on the issue.
LEMMA LapseStep == ASSUME WorkInv, NEW i \in Issues, Lapse(i) PROVE WorkInv'
<1>1. /\ UNCHANGED <<runs, newest, tasks, holders>> /\ \A p \in Tasks : tasks[p].issue # i
      /\ locks' \in [Issues -> Nat] /\ \A j \in Issues : j # i => locks'[j] = locks[j]
  <2>1. locks \in [Issues -> Nat]
      BY DEF WorkInv, TypeOK
  <2>2. locks' = locks \/ locks' = [locks EXCEPT ![i] = 0]
      BY DEF Lapse
  <2>3. locks' \in [Issues -> Nat] /\ \A j \in Issues : j # i => locks'[j] = locks[j]
      BY <2>1, <2>2
  <2> QED BY <2>3 DEF Lapse
<1>2. spent' \in [Disturbances -> Nat] /\ spent'.lapse > 0 /\ spent'.lapse >= spent.lapse
    BY DEF Lapse, Spend, WorkInv, TypeOK, Disturbances
<1>3. RunsFollow
    BY <1>1, SameRunsFollow DEF WorkInv
<1>4. TypeOK'
    BY <1>1, <1>2 DEF WorkInv, TypeOK
<1>5. RowsOK' /\ ChainOK'
    BY <1>1 DEF WorkInv, RowsOK, ChainOK, RowOK, HandedOn
<1>6. TasksOK'
  <2>1. ASSUME NEW p \in Tasks
        PROVE  (HoldsAll(p, tasks[p]) /\ CreateOK(p) /\ LaunchOK(p) /\ EffectOK(p))'
    <3>1. HoldsAll(p, tasks[p])' /\ LaunchOK(p)' /\ EffectOK(p)'
        BY <1>1 DEF WorkInv, TasksOK, HoldsAll, LaunchOK, EffectOK, At, Unlaunched
    <3>2. At(p, "create") => tasks[p].issue \in Issues /\ tasks[p].issue # i
        BY <1>1 DEF WorkInv, TasksOK, HoldsAll, At
    <3>3. CreateOK(p)'
        BY <1>1, <3>2 DEF WorkInv, TasksOK, CreateOK, At
    <3> QED BY <3>1, <3>3
  <2> QED BY <2>1 DEF TasksOK
<1>7. ASSUME NEW j \in Issues PROVE IssueOK(j)' /\ ClaimOK(j)'
  <2>1. RunsOf(j)' = RunsOf(j)
      BY <1>1 DEF RunsOf
  <2>2. MayOverlap(j) => MayOverlap(j)'
      BY <1>2, <1>3, OverlapStays DEF WorkInv
  <2>3. IssueOK(j)'
      BY <1>1, <1>2, <2>1, <2>2 DEF WorkInv, IssueOK, ActiveIsLast, LockIsKept, TypeOK
  <2>4. ClaimOK(j)'
    <3>1. CASE j = i
        BY <1>1, <3>1 DEF ClaimOK, Dispatching
    <3>2. CASE j # i
        BY <1>1, <2>1, <2>2, <3>2 DEF WorkInv, ClaimOK, Dispatching
    <3> QED BY <3>1, <3>2
  <2> QED BY <2>3, <2>4
<1> QED BY <1>4, <1>5, <1>6, <1>7 DEF WorkInv

-----------------------------------------------------------------------------
\* At first there is no run and no task is at work.
LEMMA WorkInvAtInit == ASSUME Init PROVE WorkInv
<1>1. Len(runs) = 0 /\ runs \in Seq(Rows)
    BY EmptySeq DEF Init
<1>2. /\ newest = [i \in Issues |-> 0] /\ locks = [i \in Issues |-> 0] /\ holders = 0
      /\ tasks = [p \in Tasks |-> Idle] /\ spent = [k \in Disturbances |-> 0]
    BY DEF Init
<1>3. \A p \in Tasks : tasks[p] = Idle /\ Idle \in TaskStates /\ Idle.pc = "idle"
                       /\ HoldsAll(p, Idle)
    BY <1>2, IdleRests
<1>4. TypeOK
    BY <1>1, <1>2, <1>3 DEF TypeOK
<1>5. RowsOK /\ ChainOK
    BY <1>1 DEF RowsOK, ChainOK
<1>6. TasksOK
    BY <1>3 DEF TasksOK, CreateOK, LaunchOK, EffectOK, At
<1>7. \A i : RunsOf(i) = {}
    BY <1>1 DEF RunsOf
<1>8. \A i \in Issues : IssueOK(i) /\ ClaimOK(i)
    BY <1>7 DEF IssueOK, ClaimOK, ActiveIsLast, LockIsKept
<1> QED BY <1>4, <1>5, <1>6, <1>8 DEF WorkInv

\* Every step of the server, of a reviewer and of a run keeps the invariant.
LEMMA WorkInvKept == ASSUME WorkInv, [Next]_vars PROVE WorkInv'
<1>1. ASSUME NEW p \in Tasks, DispatchStep(p) PROVE WorkInv'
    BY <1>1, RedispatchStep, ClaimIssueStep, CreateRunStep, AcquireStep, StartStep, LaunchStep,
       ReadForAbortStep, AbortStep DEF DispatchStep
<1>2. ASSUME NEW p \in Drainers, SignalStep(p) PROVE WorkInv'
  <2>1. p \in Tasks
      BY DEF Tasks
  <2> QED BY <1>2, <2>1, NextSignalStep, MarkProcessingStep, DecideStep, StampStep,
             DecideGateStep, EffectStep DEF SignalStep
<1>3. ASSUME NEW r, LifeOf(r) PROVE WorkInv'
    BY <1>3, ParkStep, EndStep, LetGoStep, RetryStep, RecycleStep, HandOffStep DEF LifeOf
<1>4. CASE UNCHANGED vars
  <2>1. QuietBut({}) /\ UNCHANGED tasks
      BY <1>4, NothingMoves DEF vars, WorkInv, TypeOK
  <2> QED BY <2>1, LifeStep
<1>5. CASE Next
    BY <1>1, <1>2, <1>3, <1>5, RequestStep, RequestAbortStep, ListPendingStep, DrainStep,
       NextQueuedStep, EnqueueStep, ReturnStep, CrashStep, LapseStep DEF Next
<1> QED BY <1>4, <1>5

\* The active runs of an issue are at most one: the last.
LEMMA ActiveAreOne == ASSUME WorkInv PROVE OneActiveRun
<1>1. SUFFICES ASSUME NEW i \in Issues, ~MayOverlap(i)
               PROVE  Cardinality({r \in RunsOf(i) : runs[r].state \in Active}) <= 1
    BY DEF OneActiveRun
<1> DEFINE A == {r \in RunsOf(i) : runs[r].state \in Active}
<1>2. ActiveIsLast(i)
    BY <1>1 DEF WorkInv, IssueOK
<1>3. \A r, q \in A : r = q
    BY <1>2 DEF ActiveIsLast, RunsOf
<1> HIDE DEF A
<1>4. CASE A = {}
    BY <1>4, FS_EmptySet DEF A
<1>5. CASE A # {}
  <2>1. PICK r : A = {r}
      BY <1>3, <1>5
  <2>2. Cardinality(A) = 1
      BY <2>1, FS_Singleton
  <2> QED BY <2>2 DEF A
<1> QED BY <1>4, <1>5

\* Dispatches, admissions, reviewers' answers, operators' aborts, recycles, crashes and
\* lapses of the lock, in any number: an issue has at most one run that is queued, works
\* or is parked, unless one of the two things happened that MayOverlap names.
THEOREM OneRunAtATime == Spec => []OneActiveRun
<1>1. Init => WorkInv
    BY WorkInvAtInit
<1>2. WorkInv /\ [Next]_vars => WorkInv'
    BY WorkInvKept
<1>3. WorkInv => OneActiveRun
    BY ActiveAreOne
<1> QED BY <1>1, <1>2, <1>3, PTL DEF Spec
=============================================================================
