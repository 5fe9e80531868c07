---------------------------- MODULE RunLifecycle ----------------------------
(***************************************************************************)
(* The life of one run of an issue: the chain of its cycles in the store,  *)
(* the pods that execute the jobs of its phases, and the server goroutines *)
(* that complete, dispatch, recycle, park, abort and settle it. Every      *)
(* action is one store transaction or one Kubernetes call; a goroutine     *)
(* takes several, and any other goroutine may run between two of them.     *)
(***************************************************************************)
EXTENDS Handler

CONSTANTS
    Procs,      \* server goroutines
    Preserve,   \* the run's preserve_test_env
    Outcomes,   \* Outcomes[p]: what the jobs of phase p may report
    Limits      \* how often the environment does each of EventKinds

\* approve, cancel: a reviewer decides; abort: an operator aborts; poll: the queue
\* looks for queued cycles; kill: a pod dies before it reports; sweep: a reconciler
\* sweeps; fault: a store or Kubernetes call fails; crash: the server dies; echo: the
\* watcher has an event for a Job whose callback was sent.
EventKinds == {"approve", "cancel", "abort", "poll", "kill", "sweep", "fault", "crash", "echo"}

ASSUME LifecycleAssumption ==
    /\ MaxCycles \in Nat \ {0} /\ MaxLeases \in Nat
    /\ Preserve \in BOOLEAN
    /\ Outcomes \in [PhaseIds -> SUBSET Outcome]
    /\ Limits \in [EventKinds -> Nat]

VARIABLES
    runs,       \* the row of each cycle
    leases,     \* the state of each slot lease
    issue,      \* the issue: is it locked, closed, its PR merged, its review approved
    pods,       \* the Kubernetes jobs of the run
    handlers,   \* the server goroutines
    left,       \* how often each environment event may still happen
    grants,     \* <<cycle, attempt>>: each time a caller was told to process a completion
    settles     \* how often the terminal metric counted each cycle

vars == <<runs, leases, issue, pods, handlers, left, grants, settles>>

\* created: the kubelet has not started it. running: it has sent its first event.
\* ended: its Kubernetes Job is terminal, and the watcher has not had the event yet.
\* seen: no event of it is outstanding.
PodStates == {"created", "running", "ended", "seen"}
Pods == [run : Cycles, att : Nat, job : JobIds, st : PodStates]

PhaseOf(pod) == runs[pod.run].attempts[pod.att].phase

Init ==
    /\ runs = [c \in Cycles |-> IF c = 1 THEN QueuedRow(1, <<>>, FALSE, 0, 0) ELSE AbsentRow]
    /\ leases = [l \in LeaseIds |-> "free"]
    /\ issue = [locked |-> TRUE, closed |-> FALSE, merged |-> FALSE, approved |-> FALSE]
    /\ pods = {}
    /\ handlers = [q \in Procs |-> Idle]
    /\ left = Limits
    /\ grants = <<>>
    /\ settles = [c \in Cycles |-> 0]

-----------------------------------------------------------------------------
\* Building blocks.

Become(q, h) == handlers' = [handlers EXCEPT ![q] = h]
Write(c, row) == runs' = [runs EXCEPT ![c] = row]
PodBecomes(pod, st) == pods' = (pods \ {pod}) \union {[pod EXCEPT !.st = st]}
At(q, step) == handlers[q].pc = step

Spend(kind) == left[kind] > 0 /\ left' = [left EXCEPT ![kind] = @ - 1]

\* RecordRunnerJobCompletion for a goroutine that processes the completion itself.
\* A duplicate, a late or a misdirected report changes nothing.
Record(q, c, i, j, o) ==
    IF CanRecord(runs[c], i, j)
    THEN LET row == RecordedRow(runs[c], i, j, o)
         IN  /\ Write(c, row)
             /\ IF CompletionReady(row, i)
                THEN /\ grants' = Append(grants, <<c, i>>)
                     /\ Become(q, Stamping(c, Aggregate(row.attempts[i])))
                ELSE Become(q, Idle) /\ UNCHANGED grants
    ELSE Become(q, Idle) /\ UNCHANGED <<runs, grants>>

\* The outcome of a pod that ended without a word, and of one that never started.
LostOutcome == [concl |-> "failure", verif |-> "none", abort |-> FALSE, costly |-> FALSE]
TimedOutOutcome == [LostOutcome EXCEPT !.concl = "timed_out"]

-----------------------------------------------------------------------------
\* Pods.

\* The runner's first event makes the phase active.
PodStart(pod) ==
    /\ pod.st = "created"
    /\ PodBecomes(pod, "running")
    /\ Write(pod.run, ActiveRow(runs[pod.run], PhaseOf(pod)))
    /\ UNCHANGED <<leases, issue, handlers, left, grants, settles>>

\* prPrimitiveReadyForRun: every phase of the work has gone forward.
PrimaryAttempts(c) ==
    {i \in DOMAIN runs[c].attempts :
        Purpose(runs[c].attempts[i].phase) \notin {"teardown", "review", "review_gate"}}

ReviewReady(c) ==
    LET as == runs[c].attempts
    IN  /\ PrimaryAttempts(c) # {}
        /\ \A i \in PrimaryAttempts(c) : ~InFlight(as[i]) /\ as[i].decision \notin AbortDecisions
        /\ LET last == as[CHOOSE i \in PrimaryAttempts(c) : \A k \in PrimaryAttempts(c) : k <= i]
           IN  \/ last.decision = "advance"
               \/ last.decision = "none" /\ last.completed /\ AdvanceConclusion(last.concl)

\* The review pod has the server open or refresh the pull request.
LinkPullRequest(pod) ==
    /\ pod.st = "running" /\ Purpose(PhaseOf(pod)) = "review"
    /\ ReviewReady(pod.run) /\ ~runs[pod.run].pr
    /\ Write(pod.run, LinkedRow(runs[pod.run]))
    /\ UNCHANGED <<leases, issue, pods, handlers, left, grants, settles>>

\* The gate's pod has the server merge it; nobody looks at the state of the run.
MergePullRequest(pod) ==
    /\ pod.st = "running" /\ Purpose(PhaseOf(pod)) = "review_gate"
    /\ runs[pod.run].pr /\ ~issue.merged
    /\ issue' = [issue EXCEPT !.merged = TRUE]
    /\ UNCHANGED <<runs, leases, pods, handlers, left, grants, settles>>

\* The two primitives succeed only after their server call did.
MayReport(pod, o) ==
    AdvanceConclusion(o.concl) =>
        /\ Purpose(PhaseOf(pod)) = "review_gate" => issue.merged
        /\ Purpose(PhaseOf(pod)) = "review" => runs[pod.run].pr \/ ~ReviewReady(pod.run)

\* runnerCompletedByCallbackToken: the pod reports the end of its job, and exits. Its
\* watch event comes later, or is merged with others and never comes.
Callback(q, pod) ==
    /\ At(q, "idle") /\ pod.st = "running"
    /\ \E o \in Outcomes[PhaseOf(pod)] :
        /\ MayReport(pod, o)
        /\ Record(q, pod.run, pod.att, pod.job, o)
    /\ \/ PodBecomes(pod, "ended") /\ Spend("echo")
       \/ PodBecomes(pod, "seen") /\ UNCHANGED left
    /\ UNCHANGED <<leases, issue, settles>>

\* Deadline, eviction, out of memory: the Job fails and no callback is sent.
PodKilled(pod) ==
    /\ pod.st \in {"created", "running"} /\ Spend("kill")
    /\ PodBecomes(pod, "ended")
    /\ UNCHANGED <<runs, leases, issue, handlers, grants, settles>>

-----------------------------------------------------------------------------
\* Completions the server makes up.

\* dispatchOuterTerminal: a Job that ended is an event, also when its callback arrived.
\* It is dropped only when the cycle is not in progress.
Watch(q, pod) ==
    /\ At(q, "idle") /\ pod.st = "ended"
    /\ PodBecomes(pod, "seen")
    /\ Become(q, IF runs[pod.run].state = "in_progress"
                 THEN [Idle EXCEPT !.pc = "synth", !.run = pod.run, !.todo = {pod.job}]
                 ELSE Idle)
    /\ UNCHANGED <<runs, leases, issue, left, grants, settles>>

\* ExpireFailedActiveJobs: a job of an active phase has no report and its Job ended.
Reconcile(q, pod) ==
    /\ At(q, "idle") /\ pod.st \in {"ended", "seen"} /\ Spend("sweep")
    /\ runs[pod.run].state = "in_progress"
    /\ runs[pod.run].exec[PhaseOf(pod)] = "active"
    /\ runs[pod.run].attempts[pod.att].report[pod.job] = NoReport
    /\ Become(q, [Idle EXCEPT !.pc = "synth", !.run = pod.run, !.todo = {pod.job}])
    /\ UNCHANGED <<runs, leases, issue, pods, grants, settles>>

\* The attempt the completion is for is the latest one by now.
Synthesize(q) ==
    LET h == handlers[q]
    IN  /\ At(q, "synth")
        /\ \E j \in h.todo : Record(q, h.run, Latest(runs[h.run]), j, LostOutcome)
        /\ UNCHANGED <<leases, issue, pods, left, settles>>

\* ExpireRunDispatchTimeouts: the first phase that is still "dispatching", and its
\* jobs without a report, as the sweep's listing shows them.
UnreportedJobs(c, p) ==
    LET as == runs[c].attempts
    IN  {j \in ExpectedJobs(p) : as[LatestOf(as, p)].report[j] = NoReport}

DispatchTimeout(q, c) ==
    LET late == {p \in PhaseIds : runs[c].exec[p] = "dispatching"}
        p    == First(late)
    IN  /\ At(q, "idle") /\ runs[c].state = "in_progress" /\ late # {} /\ Spend("sweep")
        /\ Become(q, IF UnreportedJobs(c, p) = {} THEN Aborting(c)
                     ELSE [Idle EXCEPT !.pc = "timeout", !.run = c, !.target = p,
                                       !.todo = UnreportedJobs(c, p)])
        /\ UNCHANGED <<runs, leases, issue, pods, grants, settles>>

\* completeDispatchTimedOutPhase records one job at a time, on the latest attempt;
\* an error ends it, whatever an earlier job's record returned.
TimeoutJob(q) ==
    LET h    == handlers[q]
        c    == h.run
        i    == Latest(runs[c])
        j    == FirstJob(h.target, h.todo)
        more == [h EXCEPT !.todo = @ \ {j}]
        Done(n) == IF n.todo # {} THEN n ELSE IF n.ready THEN Stamping(c, n.payload) ELSE Idle
        row  == RecordedRow(runs[c], i, j, TimedOutOutcome)
        a    == runs[c].attempts[i]
    IN  /\ At(q, "timeout")
        /\ \/ /\ CanRecord(runs[c], i, j)
              /\ Write(c, row)
              /\ IF CompletionReady(row, i)
                 THEN /\ grants' = Append(grants, <<c, i>>)
                      /\ Become(q, Done([more EXCEPT !.ready = TRUE,
                                                     !.payload = Aggregate(row.attempts[i])]))
                 ELSE Become(q, Done(more)) /\ UNCHANGED grants
           \/ /\ ~CanRecord(runs[c], i, j)
              /\ Become(q, IF j \in ExpectedJobs(a.phase)
                                /\ (a.completed \/ a.report[j] = TimedOutOutcome)
                           THEN Done(more) ELSE Idle)
              /\ UNCHANGED <<runs, grants>>
        /\ UNCHANGED <<leases, issue, pods, left, settles>>

-----------------------------------------------------------------------------
\* processRunCompletion.

\* StampRunCompletion, which returns the run as it is now.
Stamp(q) ==
    LET h   == handlers[q]
        row == StampedRow(runs[h.run], h.payload)
    IN  /\ At(q, "stamp")
        /\ Write(h.run, row)
        /\ Become(q, [h EXCEPT !.pc = "decide", !.base = row])
        /\ UNCHANGED <<leases, issue, pods, left, grants, settles>>

\* Decide on the copy, StampRunDecision, and the routing.
MakeDecision(q) ==
    LET h == handlers[q]
    IN  /\ At(q, "decide")
        /\ Write(h.run, DecidedRow(runs[h.run], Verdict(h)))
        /\ Become(q, Decided(h))
        /\ UNCHANGED <<leases, issue, pods, left, grants, settles>>

-----------------------------------------------------------------------------
\* dispatchForwardPhase, and what the other dispatchers share with it.

Park(q) ==
    LET h == handlers[q]
    IN  /\ At(q, "dispatch") /\ Purpose(h.target) = "review_gate"
        /\ Write(h.on, ParkedRow(runs[h.on], h.target))
        /\ Become(q, Idle)
        /\ UNCHANGED <<leases, issue, pods, left, grants, settles>>

\* Mutant: the review gate is launched like any other phase.
LaunchGate(q) ==
    LET h   == handlers[q]
        row == AppendedRow(runs[h.on], h.target)
    IN  /\ At(q, "dispatch")
        /\ Write(h.on, row)
        /\ Become(q, IF PhaseRuns(h.target) THEN AfterAppend(h, h.target, Latest(row))
                                            ELSE [h EXCEPT !.pc = "skip"])
        /\ UNCHANGED <<leases, issue, pods, left, grants, settles>>

AppendAttempt(q) ==
    LET h   == handlers[q]
        row == AppendedRow(runs[h.on], h.target)
    IN  /\ At(q, "dispatch") /\ Purpose(h.target) # "review_gate"
        /\ Write(h.on, row)
        /\ Become(q, IF PhaseRuns(h.target) THEN AfterAppend(h, h.target, Latest(row))
                                            ELSE [h EXCEPT !.pc = "skip"])
        /\ UNCHANGED <<leases, issue, pods, left, grants, settles>>

SkipPhase(q) ==
    LET h   == handlers[q]
        row == PhaseSkippedRow(runs[h.on])
    IN  /\ At(q, "skip")
        /\ Write(h.on, row)
        /\ Become(q, AfterSkip(h, row.attempts))
        /\ UNCHANGED <<leases, issue, pods, left, grants, settles>>

SkipJobs(q) ==
    LET h   == handlers[q]
        row == runs[h.on]
    IN  /\ At(q, "skipjobs")
        /\ IF row.attempts[Latest(row)].phase = h.target
           THEN /\ Write(h.on, JobsSkippedRow(row, h.target))
                /\ Become(q, [h EXCEPT !.pc = IF h.mode = "admit" THEN "launch" ELSE "lease"])
           ELSE Become(q, AfterFailure(h)) /\ UNCHANGED runs
        /\ UNCHANGED <<leases, issue, pods, left, grants, settles>>

ReadLease(q) ==
    LET h == handlers[q]
        l == h.base.lease
    IN  /\ At(q, "lease")
        /\ Become(q, AfterLeaseRead(h, l \in LeaseIds /\ leases[l] = "claimed"))
        /\ UNCHANGED <<runs, leases, issue, pods, left, grants, settles>>

\* LaunchPhase creates one Kubernetes Job after the other.
NextPod(h) == [run |-> h.on, att |-> h.att, job |-> FirstJob(h.target, h.todo), st |-> "created"]

Launch(q) ==
    LET h    == handlers[q]
        rest == h.todo \ {FirstJob(h.target, h.todo)}
    IN  /\ At(q, "launch") /\ h.todo # {}
        /\ pods' = pods \union {NextPod(h)}
        /\ Become(q, IF rest = {} THEN Idle ELSE [h EXCEPT !.todo = rest])
        /\ UNCHANGED <<runs, leases, issue, left, grants, settles>>

\* A phase without a job to launch is an error of the launcher.
LaunchNothing(q) ==
    /\ At(q, "launch") /\ handlers[q].todo = {}
    /\ Become(q, AfterFailure(handlers[q]))
    /\ UNCHANGED <<runs, leases, issue, pods, left, grants, settles>>

-----------------------------------------------------------------------------
\* dispatchRetry.

\* CreateRecycleCycle marks the parent; the new cycle takes its lease, its cost and
\* its pull request from the parent's row, its attempts from the goroutine's copy.
Recycle(q) ==
    LET h      == handlers[q]
        target == RetryTarget(h.base.attempts[Len(h.base.attempts)].phase)
    IN  /\ At(q, "recycle")
        /\ IF target \in PhaseIds /\ runs[h.run].lease # 0
           THEN /\ Write(h.run, RecycledRow(runs[h.run]))
                /\ Become(q, [h EXCEPT !.pc = "create", !.target = target, !.on = h.run + 1,
                                       !.base = [runs[h.run] EXCEPT !.attempts = h.base.attempts]])
           ELSE Become(q, AfterFailure(h)) /\ UNCHANGED runs
        /\ UNCHANGED <<leases, issue, pods, left, grants, settles>>

CreateChild(q) ==
    LET h == handlers[q]
    IN  /\ At(q, "create") /\ h.on \in Cycles /\ ~Exists(runs[h.on])
        /\ Write(h.on, QueuedRow(h.target, CarriedForward(h.base.attempts, h.target),
                                 h.base.pr, h.base.cost, h.base.lease))
        /\ Become(q, [h EXCEPT !.pc = "start", !.lease = h.base.lease])
        /\ UNCHANGED <<leases, issue, pods, left, grants, settles>>

\* StartRunCycle; whoever comes second gets a conflict.
Start(q) ==
    LET h   == handlers[q]
        row == StartedRow(runs[h.on], h.target, h.lease)
    IN  /\ At(q, "start")
        /\ IF CanStart(runs[h.on])
           THEN Write(h.on, row) /\ Become(q, AfterAppend(h, h.target, Latest(row)))
           ELSE /\ Become(q, IF h.mode # "admit" THEN AfterFailure(h)
                             ELSE IF h.fresh THEN [h EXCEPT !.pc = "drop"] ELSE Idle)
                /\ UNCHANGED runs
        /\ UNCHANGED <<leases, issue, pods, left, grants, settles>>

-----------------------------------------------------------------------------
\* The run queue: admitRunCycle.

Admit(q, c) ==
    /\ At(q, "idle") /\ runs[c].state = "queued" /\ Spend("poll")
    /\ Become(q, [Idle EXCEPT !.pc = "acquire", !.mode = "admit", !.run = c, !.on = c,
                              !.base = runs[c], !.target = runs[c].entry])
    /\ UNCHANGED <<runs, leases, issue, pods, grants, settles>>

\* A cycle that has a lease reads it; another one acquires one, if there is one.
Acquire(q) ==
    LET h == handlers[q]
        l == h.base.lease
    IN  /\ At(q, "acquire")
        /\ \/ /\ l # 0
              /\ Become(q, IF leases[l] = "claimed" THEN [h EXCEPT !.pc = "start", !.lease = l]
                                                    ELSE Aborting(h.run))
              /\ UNCHANGED leases
           \/ /\ l = 0
              /\ \E new \in LeaseIds :
                    /\ leases[new] = "free"
                    /\ leases' = [leases EXCEPT ![new] = "claimed"]
                    /\ Become(q, [h EXCEPT !.pc = "start", !.lease = new, !.fresh = TRUE])
           \/ /\ l = 0 /\ \A k \in LeaseIds : leases[k] # "free"
              /\ Become(q, Idle)
              /\ UNCHANGED leases
        /\ UNCHANGED <<runs, issue, pods, left, grants, settles>>

\* CancelLeaseByRef of the lease this admission acquired.
DropLease(q) ==
    LET h == handlers[q]
    IN  /\ h.pc \in {"drop", "dropabort"}
        /\ leases' = [leases EXCEPT ![h.lease] = "released"]
        /\ Become(q, AfterDrop(h))
        /\ UNCHANGED <<runs, issue, pods, left, grants, settles>>

-----------------------------------------------------------------------------
\* The reviewer, through the signal drain.

ParkedGates(c) ==
    {i \in DOMAIN runs[c].attempts :
        Purpose(runs[c].attempts[i].phase) = "review_gate" /\ InFlight(runs[c].attempts[i])}

ReviewSignal(q, c, kind, step) ==
    /\ At(q, "idle") /\ runs[c].state = "review_required" /\ Spend(kind)
    /\ \E i \in ParkedGates(c) :
        /\ \A k \in ParkedGates(c) : k <= i
        /\ Become(q, [Idle EXCEPT !.pc = step, !.mode = kind, !.run = c, !.on = c, !.base = runs[c],
                                  !.att = i, !.target = runs[c].attempts[i].phase,
                                  !.todo = ExpectedJobs(runs[c].attempts[i].phase)])
    /\ UNCHANGED <<runs, leases, issue, pods, grants, settles>>

Approve(q, c) == ReviewSignal(q, c, "approve", "opengate")
CancelReview(q, c) == ReviewSignal(q, c, "cancel", "cancelgate")

\* ReleaseReviewGate refuses a gate that is no longer parked.
OpenGate(q) ==
    LET h == handlers[q]
    IN  /\ At(q, "opengate")
        /\ IF CanDecideGate(runs[h.on], h.att)
           THEN /\ Write(h.on, ReleasedRow(runs[h.on], h.att))
                /\ issue' = [issue EXCEPT !.approved = TRUE]
                /\ Become(q, [h EXCEPT !.pc = "lease"])
           ELSE Become(q, Idle) /\ UNCHANGED <<runs, issue>>
        /\ UNCHANGED <<leases, pods, left, grants, settles>>

\* CancelReviewGate, the re-read, and the teardown it asks for.
CancelGate(q) ==
    LET h      == handlers[q]
        row    == CancelledRow(runs[h.on], h.att)
        target == DispatchTarget(row.attempts, "abort_requested")
    IN  /\ At(q, "cancelgate")
        /\ IF CanDecideGate(runs[h.on], h.att)
           THEN /\ Write(h.on, row)
                /\ Become(q, IF target = NoPhase THEN Settling(h.run, "aborted")
                             ELSE Dispatching([h EXCEPT !.base = row], "cancel", target))
           ELSE Become(q, Idle) /\ UNCHANGED runs
        /\ UNCHANGED <<leases, issue, pods, left, grants, settles>>

-----------------------------------------------------------------------------
\* The end of a run: SetRunTerminalState and AbortRunByID.

SettleRead(q) ==
    LET h == handlers[q]
    IN  /\ At(q, "settle")
        /\ Become(q, [h EXCEPT !.pc = "patch", !.pre = runs[h.run].state, !.lease = runs[h.run].lease])
        /\ UNCHANGED <<runs, leases, issue, pods, left, grants, settles>>

\* A run that is already terminal only has its lease released.
AbortRead(q) ==
    LET h == handlers[q]
    IN  /\ At(q, "abort")
        /\ Become(q, IF ~Terminal(runs[h.run])
                     THEN [h EXCEPT !.pc = "patch", !.pre = runs[h.run].state,
                                    !.lease = runs[h.run].lease]
                     ELSE IF runs[h.run].lease = 0 THEN Idle
                     ELSE [h EXCEPT !.pc = "release", !.lease = runs[h.run].lease])
        /\ UNCHANGED <<runs, leases, issue, pods, left, grants, settles>>

\* The terminal write looks at nothing; recordTerminalSettle looks at the earlier read.
Patch(q) ==
    LET h == handlers[q]
    IN  /\ At(q, "patch")
        /\ Write(h.run, SettledRow(runs[h.run], h.end))
        /\ settles' = IF h.pre \in TerminalStates THEN settles
                      ELSE [settles EXCEPT ![h.run] = @ + 1]
        /\ Become(q, [h EXCEPT !.pc = "unlock"])
        /\ UNCHANGED <<leases, issue, pods, left, grants>>

Unlock(q) ==
    /\ At(q, "unlock")
    /\ issue' = [issue EXCEPT !.locked = FALSE]
    /\ Become(q, AfterUnlock(handlers[q], Preserve))
    /\ UNCHANGED <<runs, leases, pods, left, grants, settles>>

ReleaseLease(q) ==
    LET h == handlers[q]
    IN  /\ At(q, "release")
        /\ leases' = [leases EXCEPT ![h.lease] = "released"]
        /\ Become(q, AfterRelease(h))
        /\ UNCHANGED <<runs, issue, pods, left, grants, settles>>

\* closeIssueOnGatedTerminal
CloseIssue(q) ==
    /\ At(q, "close")
    /\ issue' = [issue EXCEPT !.closed = TRUE]
    /\ Become(q, Idle)
    /\ UNCHANGED <<runs, leases, pods, left, grants, settles>>

\* An operator aborts a cycle, whatever its state.
AdminAbort(q, c) ==
    /\ At(q, "idle") /\ Exists(runs[c]) /\ Spend("abort")
    /\ Become(q, Aborting(c))
    /\ UNCHANGED <<runs, leases, issue, pods, grants, settles>>

-----------------------------------------------------------------------------
\* Failures.

\* A call fails. A failed launch may or may not have created the Kubernetes Job; any
\* other failed call had no effect.
CallFails(q) ==
    LET h == handlers[q]
    IN  /\ h.pc # "idle" /\ Spend("fault")
        /\ Become(q, AfterError(h, Preserve))
        /\ \/ UNCHANGED pods
           \/ h.pc = "launch" /\ h.todo # {} /\ pods' = pods \union {NextPod(h)}
        /\ UNCHANGED <<runs, leases, issue, grants, settles>>

\* The server restarts, or a client hangs up and cancels the request's context.
Crash(q) ==
    /\ ~At(q, "idle") /\ Spend("crash")
    /\ Become(q, Idle)
    /\ UNCHANGED <<runs, leases, issue, pods, grants, settles>>

-----------------------------------------------------------------------------
HandlerStep(q) ==
    \/ Synthesize(q) \/ TimeoutJob(q)
    \/ Stamp(q) \/ MakeDecision(q)
    \/ Park(q) \/ AppendAttempt(q) \/ SkipPhase(q) \/ SkipJobs(q)
    \/ ReadLease(q) \/ Launch(q) \/ LaunchNothing(q)
    \/ Recycle(q) \/ CreateChild(q) \/ Start(q)
    \/ Acquire(q) \/ DropLease(q)
    \/ OpenGate(q) \/ CancelGate(q)
    \/ SettleRead(q) \/ AbortRead(q) \/ Patch(q) \/ Unlock(q) \/ ReleaseLease(q) \/ CloseIssue(q)

PodStep ==
    \E pod \in pods : PodStart(pod) \/ LinkPullRequest(pod) \/ MergePullRequest(pod)

Server(q) ==
    \/ HandlerStep(q)
    \/ \E pod \in pods : Callback(q, pod) \/ Watch(q, pod) \/ Reconcile(q, pod)
    \/ \E c \in Cycles : \/ DispatchTimeout(q, c) \/ Admit(q, c)
                         \/ Approve(q, c) \/ CancelReview(q, c) \/ AdminAbort(q, c)
    \/ CallFails(q) \/ Crash(q)

Next == PodStep \/ (\E pod \in pods : PodKilled(pod)) \/ \E q \in Procs : Server(q)

Spec == Init /\ [][Next]_vars
=============================================================================
