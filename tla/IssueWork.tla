------------------------------ MODULE IssueWork ------------------------------
(* How work on an issue starts: the ordinary and the synthetic dispatch, the *)
(* run queue, and the drain of the reviewers' signals, over the issue and PR *)
(* locks, the run rows and the slots.                                        *)
(*                                                                           *)
(* One server: its handlers and its two loops share the database and die     *)
(* with it.  A task makes one store or Kubernetes call at a time.  The life  *)
(* of a run between its launch and its end is modelled in RunLifecycle; here *)
(* it is reduced to what the issue sees of it.                               *)
EXTENDS Integers, Sequences, FiniteSets, FiniteSetsExt

CONSTANTS Issues, Slots, Signals, \* Slots and Signals are sets of numbers
          Target, Kind,           \* of each signal: the issue of its PR; its kind
          Dispatchers,            \* handlers that dispatch
          Drainers,               \* the signal loop and, if more, drain handlers
          Loop,                   \* ... the loop is one of Drainers
          Queue,                  \* the run-queue loop
          Synthetic,              \* are there synthetic dispatches
          MaxRuns, MaxLoad        \* bounds: run rows; requests and disturbances

Disturbances == {"crash", "fault", "lapse", "abort"}
Kinds == {"approve", "cancel", "reject", "comment"}

ASSUME WorkAssumption ==
  /\ Slots \subseteq Nat \ {0} /\ Signals \subseteq Nat \ {0}
  /\ Target \in [Signals -> Issues] /\ Kind \in [Signals -> Kinds]
  /\ Loop \in Drainers /\ Queue \notin Dispatchers \cup Drainers
  /\ Synthetic \in BOOLEAN /\ MaxRuns \in Nat /\ MaxLoad \in Nat

Tasks == Dispatchers \cup Drainers \cup {Queue}

VARIABLES runs,     \* the runs table, in order of creation
          newest,   \* per issue: the row of its PR written last, 0 if none
          locks,    \* scope "issue": the holder, 0 if released or expired
          prLocks,  \* scope "pr": the holder, a signal, or 0
          busy,     \* the slots a claimed lease names
          signals,  \* the state of each signal
          tasks,    \* the handlers and loops between two calls
          wakes,    \* the loops that have been woken
          holders,  \* dispatches that went for a lock: the last newDispatchID
          spent     \* how often each kind of disturbance has happened

vars == <<runs, newest, locks, prLocks, busy, signals, tasks, wakes, holders, spent>>

NoIssue == "none"
\* Of a run, live: a Job of it works; gate: what became of its review gate; reason: it
\* has an abort reason; owes: its terminal write is done, its lock and slot are not
\* released yet; next: what its completion, which retries, does next, "recycle" or
\* "child". Of a task, run and holder: what the task works with; slot: the lease it
\* acquired; todo: the rows it has listed and not looked at.
Idle == [op |-> "idle", pc |-> "idle", issue |-> NoIssue, run |-> 0, holder |-> 0,
         slot |-> 0, todo |-> {}, signal |-> 0]

\* A loop with these rows before it.
Facing(op, rows) ==
  IF rows = {} THEN Idle ELSE [Idle EXCEPT !.op = op, !.pc = "next", !.todo = rows]

Active == {"queued", "in_progress", "review_required"}
Terminal == {"passed", "aborted", "recycled"}
RunsOf(i) == {r \in 1..Len(runs) : runs[r].issue = i}
\* latestRunForIssue: by creation.
LastState(i) == IF RunsOf(i) = {} THEN "none" ELSE runs[Max(RunsOf(i))].state
Queued == {r \in 1..Len(runs) : runs[r].state = "queued"}

\* Dispatches, signals and disturbances so far.
Load == holders + Cardinality({s \in Signals : signals[s] # "none"})
          + MapThenSumSet(LAMBDA k : spent[k], Disturbances)

At(p, pc) == tasks[p].pc = pc
Goto(p, pc) == tasks' = [tasks EXCEPT ![p].pc = pc]
Spend(kind) == Load < MaxLoad /\ spent' = [spent EXCEPT ![kind] = @ + 1]
Fails(bad) == IF bad THEN Spend("fault") ELSE UNCHANGED spent

\* Every write of a row makes it the newest of its PR, once there is one.
Write(r, row) ==
  /\ runs' = [runs EXCEPT ![r] = row]
  /\ newest' = [newest EXCEPT ![row.issue] = IF @ = 0 THEN 0 ELSE r]

\* ReleaseLock: by its holder only.
Unlocked(i, holder) == IF locks[i] = holder THEN [locks EXCEPT ![i] = 0] ELSE locks

\* Mutant: the drain keeps the lock of the PR.
StillLocked(i, s) == prLocks

PRUnlocked(i, s) == IF prLocks[i] = s THEN [prLocks EXCEPT ![i] = 0] ELSE prLocks
-----------------------------------------------------------------------------
(* How a dispatch or an admission ends: what its caller makes of the result. *)

\* drainProjectRunQueue goes on after these, and stops after any other.
GoOn(result) == result \in {"dispatched", "admission_failed", "skipped"}

\* dispatchTriage takes any other result for a failure.
Verdict(result) == IF result \in {"dispatched", "queued"} THEN "processed" ELSE "failed"

\* The drain of a signal ends: its lock is released, the next one follows.
Answered(p, state) ==
  LET t == tasks[p] IN
  /\ signals' = [signals EXCEPT ![t.signal] = state]
  /\ prLocks' = PRUnlocked(t.issue, t.signal)
  /\ tasks' = [tasks EXCEPT ![p] = Facing("signals", t.todo)]

Returns(p, result) ==
  LET t == tasks[p] IN
  CASE t.op = "queue" ->
         /\ tasks' = [tasks EXCEPT ![p] =
              IF GoOn(result) THEN Facing("queue", t.todo) ELSE Idle]
         /\ UNCHANGED <<signals, prLocks>>
    [] t.op = "signals" -> Answered(p, Verdict(result))
    [] OTHER -> tasks' = [tasks EXCEPT ![p] = Idle] /\ UNCHANGED <<signals, prLocks>>

Continues(p, pc) == Goto(p, pc) /\ UNCHANGED <<signals, prLocks>>
-----------------------------------------------------------------------------
(* Dispatch.                                                                 *)

\* Mutant: the last run is not looked at.
NeverActive(state) == FALSE

IsActiveIssueRunState(state) == state \in Active

\* The ordinary dispatch reads the last run's state, the synthetic does not;
\* any other answer than a claim of the lock changes nothing.
Request(p, i, op) ==
  /\ At(p, "idle") /\ p \in Dispatchers /\ Load < MaxLoad
  /\ IF op = "synthetic" THEN Synthetic ELSE ~IsActiveIssueRunState(LastState(i))
  /\ tasks' = [tasks EXCEPT ![p] = [Idle EXCEPT !.op = op, !.pc = "claim", !.issue = i]]
  /\ UNCHANGED <<runs, newest, locks, prLocks, busy, signals, wakes, holders, spent>>

\* The dispatch that a reject asks for.
Redispatch(p) ==
  /\ At(p, "read")
  /\ IF IsActiveIssueRunState(LastState(tasks[p].issue))
       THEN Returns(p, "already_running")
       ELSE Continues(p, "claim")
  /\ UNCHANGED <<runs, newest, locks, busy, wakes, holders, spent>>

\* ClaimLock is one statement that takes a released or expired lock.
Claimable(i) == locks[i] = 0

ClaimIssue(p) ==
  LET i == tasks[p].issue IN
  /\ At(p, "claim")
  /\ holders' = holders + 1
  /\ IF Claimable(i)
       THEN /\ locks' = [locks EXCEPT ![i] = holders + 1]
            /\ tasks' = [tasks EXCEPT ![p].pc = "create", ![p].holder = holders + 1]
            /\ UNCHANGED <<signals, prLocks>>
       ELSE Returns(p, "already_running") /\ UNCHANGED locks
  /\ UNCHANGED <<runs, newest, busy, wakes, spent>>

\* CreateRun inserts the row as queued; an error, the only outcome at the bound
\* MaxRuns, releases the lock.
CreateRun(p) ==
  LET t == tasks[p] IN
  /\ At(p, "create")
  /\ \/ /\ Len(runs) < MaxRuns
        /\ runs' = Append(runs,
            [issue |-> t.issue, state |-> "queued", holder |-> t.holder, slot |-> 0,
             origin |-> IF t.op = "synthetic" THEN "synthetic" ELSE "dispatch",
             stamp |-> "none", gate |-> "none", live |-> FALSE, owes |-> FALSE,
             reason |-> FALSE, next |-> "none"])
        /\ tasks' = [tasks EXCEPT ![p].run = Len(runs) + 1,
             ![p].pc = IF t.op = "synthetic" THEN "start" ELSE "acquire"]
        /\ UNCHANGED <<locks, prLocks, signals, spent>>
     \/ /\ Fails(Len(runs) < MaxRuns) /\ Returns(p, "error")
        /\ locks' = Unlocked(t.issue, t.holder) /\ UNCHANGED runs
  /\ UNCHANGED <<newest, busy, wakes, holders>>
-----------------------------------------------------------------------------
(* admitRunCycle, for a dispatch and for the queue.                          *)

\* Mutant: the last slot is taken to be beyond the count.
AllButLast == {s \in Slots \ busy : s < Max(Slots)}

\* The slots that acquireRunnerLease finds free.
Free == Slots \ busy

\* The run's own lease, or a new one on the first free slot, or none: the run
\* stays queued and a dispatch wakes the queue.
Acquire(p) ==
  LET t == tasks[p] IN
  LET own == runs[t.run].slot IN
  /\ At(p, "acquire")
  /\ \/ Spend("fault") /\ Returns(p, "error") /\ UNCHANGED <<busy, wakes>>
     \/ own # 0 /\ Continues(p, "start") /\ UNCHANGED <<busy, wakes, spent>>
     \/ /\ own = 0 /\ Free = {} /\ Returns(p, "queued")
        /\ wakes' = IF t.op = "queue" THEN wakes ELSE wakes \cup {Queue}
        /\ UNCHANGED <<busy, spent>>
     \/ /\ own = 0 /\ Free # {} /\ busy' = busy \cup {Min(Free)}
        /\ tasks' = [tasks EXCEPT ![p].slot = Min(Free), ![p].pc = "start"]
        /\ UNCHANGED <<signals, prLocks, wakes, spent>>
  /\ UNCHANGED <<runs, newest, locks, holders>>

\* StartRunCycle, under the row lock.  Who loses the race gives back the lease
\* it acquired; a synthetic dispatch takes the conflict for a failure.
CanStart(row) == row.state = "queued"
Start(p) ==
  LET t == tasks[p] IN
  LET row == runs[t.run] IN
  /\ At(p, "start")
  /\ \E bad \in BOOLEAN :
       /\ Fails(bad)
       /\ IF CanStart(row) /\ ~bad
            THEN /\ Write(t.run, [row EXCEPT !.state = "in_progress",
                                  !.slot = IF t.slot = 0 THEN @ ELSE t.slot])
                 /\ Continues(p, "launch") /\ UNCHANGED busy
            ELSE /\ busy' = busy \ {t.slot} /\ UNCHANGED <<runs, newest>>
                 /\ IF bad \/ t.op = "synthetic" THEN Continues(p, "abort")
                                                ELSE Returns(p, "skipped")
  /\ UNCHANGED <<locks, wakes, holders>>

\* The launch of the first phase; a failure gives back what was acquired.
Launch(p) ==
  LET t == tasks[p] IN
  /\ At(p, "launch")
  /\ \/ /\ runs' = [runs EXCEPT ![t.run].live = @ \/ runs[t.run].state = "in_progress"]
        /\ Returns(p, "dispatched") /\ UNCHANGED <<busy, spent>>
     \/ /\ Spend("fault") /\ busy' = busy \ {t.slot}
        /\ Continues(p, "abort") /\ UNCHANGED runs
  /\ UNCHANGED <<newest, locks, wakes, holders>>

\* An operator aborts a run.
RequestAbort(p, r) ==
  /\ At(p, "idle") /\ p \in Dispatchers /\ r \in 1..Len(runs)
  /\ Spend("abort")
  /\ tasks' = [tasks EXCEPT ![p] =
       [Idle EXCEPT !.op = "abort", !.pc = "abort", !.issue = runs[r].issue, !.run = r]]
  /\ UNCHANGED <<runs, newest, locks, prLocks, busy, signals, wakes, holders>>

\* The row as an abort leaves it; the completion of a job may still go on with the run.
AbortedRow(row) == [row EXCEPT !.state = "aborted", !.live = FALSE, !.owes = TRUE,
                               !.reason = TRUE]

\* AbortRunByID: a row that is terminal only loses its lease ...
ReadForAbort(p) ==
  LET row == runs[tasks[p].run] IN
  /\ At(p, "abort")
  /\ IF row.state \in Terminal
       THEN Returns(p, "error") /\ busy' = busy \ {row.slot}
       ELSE Continues(p, "patch") /\ UNCHANGED busy
  /\ UNCHANGED <<runs, newest, locks, wakes, holders, spent>>

\* ... any other is overwritten; its lock and lease are released afterwards.
Abort(p) ==
  LET t == tasks[p] IN
  /\ At(p, "patch")
  /\ Write(t.run, AbortedRow(runs[t.run]))
  /\ Returns(p, "dispatch_failed")
  /\ UNCHANGED <<locks, busy, wakes, holders, spent>>
-----------------------------------------------------------------------------
(* The run-queue loop: it only runs when woken.                              *)

Drain ==
  /\ At(Queue, "idle") /\ Queue \in wakes
  /\ wakes' = wakes \ {Queue}
  /\ tasks' = [tasks EXCEPT ![Queue] = Facing("queue", Queued)]
  /\ UNCHANGED <<runs, newest, locks, prLocks, busy, signals, holders, spent>>

\* AdmitQueuedRunCycle reads the workflow, the project and the issue; an error
\* ends the drain, a row it cannot find aborts the run.
NextQueued ==
  LET t == tasks[Queue] IN
  /\ At(Queue, "next")
  /\ LET r == Min(t.todo) IN
     \/ /\ tasks' = [tasks EXCEPT ![Queue] = [t EXCEPT !.pc = "acquire", !.run = r,
                       !.issue = runs[r].issue, !.todo = @ \ {r}]]
        /\ UNCHANGED spent
     \/ Spend("fault") /\ tasks' = [tasks EXCEPT ![Queue] = Idle]
  /\ UNCHANGED <<runs, newest, locks, prLocks, busy, signals, wakes, holders>>
-----------------------------------------------------------------------------
(* Signals: an answer of a reviewer is enqueued and drained.                 *)

\* Reviewers answer a PR that is there.
Enqueue(s) ==
  /\ signals[s] = "none" /\ Load < MaxLoad /\ newest[Target[s]] # 0
  /\ signals' = [signals EXCEPT ![s] = "pending"]
  /\ wakes' = wakes \cup {Loop}
  /\ UNCHANGED <<runs, newest, locks, prLocks, busy, tasks, holders, spent>>

\* The loop when woken, a drain request at any time.
ListPending(p) ==
  LET pending == {s \in Signals : signals[s] = "pending"} IN
  /\ At(p, "idle") /\ p \in Drainers
  /\ IF p = Loop THEN p \in wakes ELSE pending # {}
  /\ wakes' = wakes \ {p}
  /\ tasks' = [tasks EXCEPT ![p] = Facing("signals", pending)]
  /\ UNCHANGED <<runs, newest, locks, prLocks, busy, signals, holders, spent>>

PRClaimable(i) == prLocks[i] = 0

\* The next signal in order; one whose PR is locked is skipped.
NextSignal(p) ==
  LET t == tasks[p] IN
  /\ At(p, "next") /\ p \in Drainers
  /\ LET s == Min(t.todo) IN
     LET i == Target[s] IN
     IF PRClaimable(i)
       THEN /\ tasks' = [tasks EXCEPT ![p] = [t EXCEPT !.pc = "mark", !.signal = s,
                              !.issue = i, !.todo = @ \ {s}]]
            /\ prLocks' = [prLocks EXCEPT ![i] = s]
       ELSE /\ tasks' = [tasks EXCEPT ![p] = Facing("signals", t.todo \ {s})]
            /\ UNCHANGED prLocks
  /\ UNCHANGED <<runs, newest, locks, busy, signals, wakes, holders, spent>>

\* MarkSignalProcessing, under the row lock.
CanTake(s) == signals[s] = "pending"
MarkProcessing(p) ==
  LET t == tasks[p] IN
  /\ At(p, "mark")
  /\ IF CanTake(t.signal)
       THEN /\ signals' = [signals EXCEPT ![t.signal] = "processing"]
            /\ Goto(p, "decide") /\ UNCHANGED prLocks
       ELSE Answered(p, signals[t.signal])
  /\ UNCHANGED <<runs, newest, locks, busy, wakes, holders, spent>>

\* A verdict on a gate that is not parked is a benign no-op.
Actionable(s, r, state) ==
  /\ r # 0 /\ Kind[s] # "comment"
  /\ Kind[s] \in {"approve", "cancel"} => state = "review_required"

\* decideTriageSignal reads the run of the PR, and MarkSignalProcessed comes
\* before the effect; an error of the latter leaves the signal "processing".
Decide(p) ==
  LET t == tasks[p] IN
  LET r == newest[t.issue] IN
  LET state == IF r = 0 THEN "none" ELSE runs[r].state IN
  /\ At(p, "decide")
  /\ \/ Spend("fault") /\ (Answered(p, "failed") \/ Answered(p, "processing"))
     \/ /\ Actionable(t.signal, r, state)
        /\ signals' = [signals EXCEPT ![t.signal] = "processed"]
        /\ tasks' = [tasks EXCEPT ![p].pc = "stamp", ![p].run = r]
        /\ UNCHANGED <<prLocks, spent>>
     \/ ~Actionable(t.signal, r, state) /\ Answered(p, "processed") /\ UNCHANGED spent
  /\ UNCHANGED <<runs, newest, locks, busy, wakes, holders>>

\* RecordReviewDecision: the reviewer's name is on the run before anything else.
Stamp(p) ==
  LET t == tasks[p] IN
  LET kind == Kind[t.signal] IN
  /\ At(p, "stamp")
  /\ \/ Spend("fault") /\ Answered(p, "failed") /\ UNCHANGED <<runs, newest>>
     \/ /\ Write(t.run, [runs[t.run] EXCEPT !.stamp = kind])
        /\ Continues(p, IF kind = "reject" THEN "read" ELSE "gate")
        /\ UNCHANGED spent
  /\ UNCHANGED <<locks, busy, wakes, holders>>

\* ReleaseReviewGate and CancelReviewGate, under the row lock.
CanDecideGate(row) == row.state = "review_required"
DecideGate(p) ==
  LET t == tasks[p] IN
  /\ At(p, "gate")
  /\ IF CanDecideGate(runs[t.run])
       THEN /\ Write(t.run, [runs[t.run] EXCEPT !.state = "in_progress",
                                               !.gate = Kind[t.signal]])
            /\ Continues(p, "effect")
       ELSE Answered(p, "failed") /\ UNCHANGED <<runs, newest>>
  /\ UNCHANGED <<locks, busy, wakes, holders, spent>>

\* The merge Job, or the teardown of a cancelled run, is launched.
Effect(p) ==
  LET t == tasks[p] IN
  /\ At(p, "effect")
  /\ \/ Spend("fault") /\ Answered(p, "failed") /\ UNCHANGED runs
     \/ /\ runs' = [runs EXCEPT ![t.run].live = @ \/ runs[t.run].state = "in_progress"]
        /\ Answered(p, "processed") /\ UNCHANGED spent
  /\ UNCHANGED <<newest, locks, busy, wakes, holders>>
-----------------------------------------------------------------------------
(* What the issue sees of the life of a run (RunLifecycle): it parks at its  *)
(* gate with a PR, ends, or hands its lock and its slot to a next cycle.     *)

Works(r) == r \in 1..Len(runs) /\ runs[r].state = "in_progress" /\ runs[r].live

Park(r) ==
  /\ Works(r) /\ runs[r].gate = "none"
  /\ runs' = [runs EXCEPT ![r].state = "review_required", ![r].live = FALSE]
  /\ newest' = [newest EXCEPT ![runs[r].issue] = r]
  /\ UNCHANGED <<locks, prLocks, busy, signals, tasks, wakes, holders, spent>>

Ends(r) ==
  \/ Works(r) /\ runs[r].gate = "approve" /\ Write(r, [runs[r] EXCEPT !.state = "passed",
                                             !.live = FALSE, !.owes = TRUE])
  \/ Works(r) /\ Write(r, AbortedRow(runs[r]))
End(r) ==
  /\ Ends(r)
  /\ UNCHANGED <<locks, prLocks, busy, signals, tasks, wakes, holders, spent>>

\* The settled run releases the lock, if it still is its own, and the lease on
\* its slot.  Nobody wakes the queue.
LetGo(r) ==
  /\ r \in 1..Len(runs) /\ runs[r].owes
  /\ runs' = [runs EXCEPT ![r].owes = FALSE]
  /\ locks' = Unlocked(runs[r].issue, runs[r].holder)
  /\ busy' = busy \ {runs[r].slot}
  /\ UNCHANGED <<newest, prLocks, signals, tasks, wakes, holders, spent>>

\* dispatchRetry: a completion decides to retry and has read the run ...
Retry(r) ==
  /\ Works(r) /\ runs[r].gate = "none" /\ runs[r].slot # 0
  /\ Len(runs) < MaxRuns
  /\ runs' = [runs EXCEPT ![r].live = FALSE, ![r].next = "recycle"]
  /\ UNCHANGED <<newest, locks, prLocks, busy, signals, tasks, wakes, holders, spent>>

\* ... the run becomes recycled, whatever it has become meanwhile ...
Recycle(r) ==
  /\ r \in 1..Len(runs) /\ runs[r].next = "recycle"
  /\ Write(r, [runs[r] EXCEPT !.state = "recycled", !.next = "child"])
  /\ UNCHANGED <<locks, prLocks, busy, signals, tasks, wakes, holders, spent>>

\* ... and a queued cycle with its lock, its lease and its PR follows, which
\* it starts and launches itself.
HandOff(r) ==
  /\ r \in 1..Len(runs) /\ runs[r].next = "child"
  /\ Len(runs) < MaxRuns
  /\ runs' = Append([runs EXCEPT ![r].next = "none"],
       [issue |-> runs[r].issue, state |-> "in_progress", holder |-> runs[r].holder,
        slot |-> runs[r].slot, origin |-> "recycle", stamp |-> "none", gate |-> "none",
        live |-> TRUE, owes |-> FALSE, reason |-> FALSE, next |-> "none"])
  /\ UNCHANGED <<newest, locks, prLocks, busy, signals, tasks, wakes, holders, spent>>

\* A slot that a checkout held is free again: that wakes the queue.
Return(s) ==
  /\ s \in busy
  /\ \A r \in 1..Len(runs) : runs[r].slot = s => runs[r].state \in Terminal /\ ~runs[r].owes
  /\ \A p \in Tasks : tasks[p].slot # s
  /\ busy' = busy \ {s} /\ wakes' = wakes \cup {Queue}
  /\ UNCHANGED <<runs, newest, locks, prLocks, signals, tasks, holders, spent>>
-----------------------------------------------------------------------------
\* The server dies with what it still had to release, and the next one wakes
\* both of its loops.
Crash ==
  /\ Spend("crash") /\ \E p \in Tasks : ~At(p, "idle")
  /\ tasks' = [p \in Tasks |-> Idle]
  /\ runs' = [r \in 1..Len(runs) |-> [runs[r] EXCEPT !.owes = FALSE, !.next = "none"]]
  /\ wakes' = {Queue, Loop}
  /\ UNCHANGED <<newest, locks, prLocks, busy, signals, holders>>

\* A lock expires, at the earliest 4 hours after it was taken: no request lasts
\* that long.
Lapse(i) ==
  /\ Spend("lapse")
  /\ \A p \in Tasks : tasks[p].issue # i
  /\ \/ locks[i] # 0 /\ locks' = [locks EXCEPT ![i] = 0] /\ UNCHANGED prLocks
     \/ prLocks[i] # 0 /\ prLocks' = [prLocks EXCEPT ![i] = 0] /\ UNCHANGED locks
  /\ UNCHANGED <<runs, newest, busy, signals, tasks, wakes, holders>>

Init ==
  /\ runs = <<>> /\ newest = [i \in Issues |-> 0]
  /\ locks = [i \in Issues |-> 0] /\ prLocks = [i \in Issues |-> 0]
  /\ busy \in SUBSET Slots  \* what checkouts hold
  /\ signals = [s \in Signals |-> "none"]
  /\ tasks = [p \in Tasks |-> Idle] /\ wakes = {Queue, Loop}
  /\ holders = 0 /\ spent = [k \in Disturbances |-> 0]

DispatchStep(p) ==
  \/ Redispatch(p) \/ ClaimIssue(p) \/ CreateRun(p) \/ Acquire(p) \/ Start(p)
  \/ Launch(p) \/ ReadForAbort(p) \/ Abort(p)
SignalStep(p) ==
  \/ NextSignal(p) \/ MarkProcessing(p) \/ Decide(p) \/ Stamp(p)
  \/ DecideGate(p) \/ Effect(p)
LifeOf(r) == Park(r) \/ End(r) \/ LetGo(r) \/ Retry(r) \/ Recycle(r) \/ HandOff(r)

Next ==
  \/ \E p \in Tasks : DispatchStep(p)
  \/ \E p \in Dispatchers, i \in Issues : Request(p, i, "dispatch") \/ Request(p, i, "synthetic")
  \/ \E p \in Dispatchers, r \in 1..MaxRuns : RequestAbort(p, r)
  \/ \E p \in Drainers : ListPending(p) \/ SignalStep(p)
  \/ Drain \/ NextQueued
  \/ \E s \in Signals : Enqueue(s)
  \/ \E r \in 1..MaxRuns : LifeOf(r)
  \/ \E s \in Slots : Return(s)
  \/ Crash \/ \E i \in Issues : Lapse(i)

Spec == Init /\ [][Next]_vars
-----------------------------------------------------------------------------
\* The lock lapsed, and a synthetic dispatch, which does not look at the last run, or
\* the gap of a recycle, in which the last run is not active, let another run through;
\* or an abort met the recycle of its run: the one released the lock that the other
\* handed on.
MayOverlap(i) ==
  \/ spent.lapse > 0 /\ \E r \in RunsOf(i) : runs[r].origin \in {"synthetic", "recycle"}
  \/ \E r, q \in RunsOf(i) : r < q /\ runs[r].holder = runs[q].holder /\ runs[r].reason

\* An issue has at most one run that waits, works or is parked: the check of the
\* last run and the lock together keep dispatches, signals and recycles apart,
\* over crashes and the lock's expiry.
OneActiveRun ==
  \A i \in Issues : MayOverlap(i) \/
    Cardinality({r \in RunsOf(i) : runs[r].state \in Active}) <= 1
-----------------------------------------------------------------------------
\* Handlers go on, a loop that was woken runs, and so does the completion that settles a run.
Fairness ==
  /\ \A p \in Tasks : WF_vars(DispatchStep(p) \/ (p \in Drainers /\ SignalStep(p)))
  /\ WF_vars(Drain \/ NextQueued) /\ WF_vars(ListPending(Loop))
  /\ \A r \in 1..MaxRuns : WF_vars(LetGo(r))
FairSpec == Spec /\ Fairness

Undisturbed == spent.crash + spent.fault + spent.lapse = 0

\* When the signal loop is the only one that drains, every signal is answered.
SignalsAnswered ==
  \A s \in Signals :
    signals[s] = "pending" ~> signals[s] \in {"processed", "failed"} \/ ~Undisturbed

\* A woken queue does not go back to sleep over a run it could start: the run
\* is started or ends, unless no slot was free or a call failed.
WokenQueueAdmits ==
  \A r \in 1..MaxRuns :
    (Queue \in wakes /\ r \in Queued) ~> (r \notin Queued \/ Slots \subseteq busy \/ spent.fault > 0)
=============================================================================
