# Glimmung in TLA+

Glimmung (`src/`, a Go server with a Postgres store, a Kubernetes cluster and a runner
binary in its pods) runs *workflows* for *issues*: a run leases a test slot, executes
the phases of its workflow as Kubernetes Jobs, retries a failed verification in a new
*cycle*, parks for a reviewer, merges the pull request the reviewer approved, cleans up
and settles. Beside the runs, people check test slots out, deploy images into them, push
live previews, and group issues into playbooks. Nothing coordinates the goroutines that
do all this except the rows of the store: HTTP handlers, callbacks of pods, the
Kubernetes watcher, reconcilers, timers, queue and signal loops all read a row, decide,
and write it in a later transaction, and any of them may fail or die between two of its
steps. This directory models that, checks it with TLC, and proves with TLAPS what holds
whatever fails: in the life of a run, the jobs of a phase, the work on an issue, the slots
and their namespaces, the previews, the playbooks, the registry and the records.

Contents: 1 the system, 2 the modules, 3 the properties, 4 the runs, 5 the proofs, 6
what is only model-checked, 7 where the code and its documents disagree, 8 what is not
modelled.

## 1. The system

| Component | State it keeps | Operations | Modules |
|---|---|---|---|
| decision engine (`domain/decision`) | none | `Decide`, aggregation of job reports | `Decision` |
| phase routing (`completion_api.go`) | none | `allReadyDispatchTargets`, success and abort path, carry-forward | `Routing`, `PhaseFlow` |
| completion engine (`completion_api.go`) | a copy of the run in each goroutine | `processRunCompletion`, `dispatchForwardPhase`, `dispatchRetry`, abort and settling | `Handler`, `RunLifecycle` |
| run rows (`postgres.go`) | a row per cycle: state, attempts, reports, execution ledger, cost, lease | mutators, each under `SELECT ... FOR UPDATE` | `RunRow`, `PhaseRow`, `RunLedger` |
| workflow registration (`workflow_write_api.go`, `read_api.go`) | workflow row, schemas, pins, control ledger | register, patch, pin, unpin, delete | `Registration`, `WorkflowRegistry` |
| runner (`cmd/glimmung-runner`) | the plan of one pod | steps, groups of cases, callbacks, shutdown | `JobRunner` |
| watcher, reconcilers (`run_watcher.go`, `run_execution_reconciler.go`) | none | completions for lost pods and phases that never start; the ends of inner Jobs | `RunLifecycle`, `JobRunner`, `InnerJobs` |
| run queue, dispatch, issue locks (`run_queue.go`, `dispatch_api.go`) | queued rows, lock rows | ordinary and synthetic dispatch, admission, wake-ups | `IssueWork`, `RunLifecycle` |
| signal drain (`signal_drain.go`) | signals, PR locks | approve, cancel, reject | `IssueWork`, `RunLifecycle` |
| slots and leases (`slot*.go`, `lease_recovery.go`, `test_slot_api.go`) | slot rows, lease rows, timers | acquire, activate, extend, return, release, cancel, expire, clean up, warm, repair, scale, recover | `Slot`, `SlotLease` |
| test-slot runtime (`run_launcher.go`, `test_slot_deploy_image_ops.go`) | a namespace: Jobs, pods, releases | activation, image deployment, clean-up | `SlotUse` |
| live previews (`preview_*.go`, `internal/livepreview`) | preview row, edge releases, credential | provision, push, receipt, read-back, delete, sweep | `PreviewRow`, `Previews` |
| playbooks (`playbook_api.go`, `postgres.go`) | one JSON document | advance, gates, dispatch of entries | `Playbook` |
| projects (`postgres.go`, `pg/projects.go`) | configuration, its versions, statuses | write, back-fill, status | `ProjectRows` |
| issues, portfolio, reviews, inspections | rows, counter, blobs | create, archive, comment; elements and their dispatch; ensure; upload, sweep | `Issues`, `Reviews`, `Inspections` |
| dashboard (`graph_api.go`, `state_api.go`) | none | projection of a run; the snapshot of the slots | `RunView`, `SlotLease` |
| authentication, harness, token exchanges, frontend, deployment | | | none (section 8) |

`PROJECT.json` lists every component with its files and what is left out of each.

Components interact in four ways: through rows (every mutator is one transaction on one
row), through Kubernetes (a Job created, its pod's callbacks, its watch event), through
direct calls inside a goroutine, and through wake-up channels of the loops. What is hard
in each, with its line, is the `hazards` list of `PROJECT.json`. The patterns:

- *Many reporters, one consumer.* A job is reported by its pod, the watcher and two
  reconcilers, late or twice; exactly one of them may go on with the phase.
- *Read, decide, write later.* Dispatch reads the last run before it claims the lock; an
  admission works on the row it listed; a patch of a workflow writes back a copy; a
  playbook is replaced by what an advance made of an older one.
- *Two rows, two writes.* A lease and its slot, a recycled cycle and its successor, a
  preview row and its credential, a blob and its ledger row, a signal and its effect.
- *Names that are reused.* A lease is addressed by its slot's name, an installer Job by
  its lease, a report by a job id, a review by an issue.
- *Death in between.* A process that dies leaves a slot in `cleaning`, a signal in
  `processing`, a credential without a row; some of it is recovered and some is not.

## 2. The modules

### The life of one run

| Module | What it is | Source |
|---|---|---|
| `Workflow` | the phase graph as registration accepts it, and questions about it | `workflow_write_api.go`, `read_api.go`, `evaluatePhaseWhen` |
| `Decision` | attempts, aggregation of job reports, the verdict | `aggregateRunnerPhaseCompletion`, `decision.go` |
| `Routing` | which phase comes next | `completion_api.go:788-1035` |
| `RunRow` | a row, and each mutator as a function from row to row with its condition | `postgres.go:7214-9759` |
| `Handler` | the local state of a goroutine and the step it takes next, failures included | `completion_api.go`, `run_queue.go` |
| `RunLifecycle` | rows, lease, issue, pods, goroutines; one action per transaction or Kubernetes call | all of the above |
| `RunContract` | the abstract specification: what a run promises its users | |
| `RunProperties` | properties, refinement mapping, fairness, the inductive invariant | |
| `RunTheorems`, `TurnTheorems` | lemmas and theorems | |
| `MCRun` | small workflows, outcomes and event limits for TLC | |

`runs[c]` is the row of cycle `c` (`CreateRecycleCycle` makes cycle `c + 1`). A row's
attempts are the ledger of the code: `report[j]` is what `RecordRunnerJobCompletion`
stored for job `j`; `completed`, `concl`, `verif`, `abort` and `decision` are what
`StampRunCompletion` and `StampRunDecision` add. `handlers[q]` is a goroutine: `pc` names
the call it makes next, `base` is its copy of the run. `left` bounds the events of the
environment; `grants` and `settles` record history (who was told to process a completion;
what the terminal metric counted).

| Actions | Code |
|---|---|
| `PodStart`, `Callback`, `PodKilled`, `Watch`, `Reconcile`, `Synthesize` | a pod's events, its report, its loss, and the completions made up for it |
| `DispatchTimeout`, `TimeoutJob` | `ExpireRunDispatchTimeouts`, one job's record at a time |
| `Stamp`, `MakeDecision` | `processRunCompletion` up to its routing |
| `Park`, `AppendAttempt`, `SkipPhase`, `SkipJobs`, `ReadLease`, `Launch`, `LaunchNothing` | `dispatchForwardPhase` and the tails it shares |
| `Recycle`, `CreateChild`, `Start` | `dispatchRetry` |
| `Admit`, `Acquire`, `DropLease` | `admitRunCycle` |
| `Approve`, `CancelReview`, `OpenGate`, `CancelGate` | the signal drain's decisions on a parked gate |
| `LinkPullRequest`, `MergePullRequest` | the calls of the `pr_review` and `pr_merge` steps |
| `SettleRead`, `AbortRead`, `Patch`, `Unlock`, `ReleaseLease`, `CloseIssue`, `AdminAbort` | `SetRunTerminalState`, `AbortRunByID`, `closeIssueOnGatedTerminal` |
| `CallFails`, `Crash` | any call of any step fails; the process or the request's context ends |

### Around the run

| Modules | State | Actions |
|---|---|---|
| `Slot`, `SlotLease`, `SlotOwners` (abstract), `MCSlots`, `SlotTheorems` | `slots`, `leases`, the goroutines of each server as `tasks`, its `timers`, the `runtime` in each namespace | acquisition (`Pick`, `Insert`, `Reserve`), activation, `Cancel` and its three steps, `ReleaseByToken`, `Return`, clean-up, `Extend`, `AskExtension` and `WriteTTL`, `Repair`, `Scale`, `DeadlinePasses`, `TimerFires`, `Crash`, `Boot` with `ExpireOne` and `Recover`; what the snapshot shows is an operator, `Environments` |
| `SlotUse`, `PreviewTheorems` (second part) | one namespace: release, browser, installer Jobs, pods that outlive their Job | calls of the Kubernetes API of `ActivateTestSlotRuntime`, `ReturnTestSlotRuntime` and `DeployImageToSlot`, in order, each of which may fail; `ServerDies`, `Recover` |
| `IssueWork`, `MCWork`, `WorkTheorems` | the rows of all runs of an issue, `locks` and `prLocks`, `signals`, `wakes`, the slots that are busy | the ordinary and the synthetic dispatch (`Request` ... `Launch`), an operator's abort (`RequestAbort`, `ReadForAbort`, `Abort`), the queue (`Drain`, `NextQueued`), the signal drain (`ListPending` ... `Effect`), `Crash`, `Lapse`; the life of a run reduced to `Park`, `End`, `LetGo`, `Retry`, `Recycle`, `HandOff` |
| `Playbook`, `MCPlaybook`, `PlanTheorems` | the document, its copies in the advances, the runs of its entries | `Post` and `ForRun` start an advance: `RefreshEntries`, `CreateIssue`, `Dispatch`, `Replace`; `PatchGate`, `Crash` |
| `PhaseRow`, `JobRunner`, `MCRunner`, `RunnerTheorems` | the row of one phase; the position, result and local memory of each pod | `Execute`, `PlanCases`, `Handle` (one event, one POST), `Lose`, `Terminate`, `Kill`; `Watch`, `ExpireFailedActive`, `ExpireDispatch`, `ExpireJob` |
| `PreviewRow`, `Previews`, `MCPreviews`, `PreviewTheorems` (first part) | the row with *claimed* and *observed* build, the edge's releases, the credential | the control API, provision, pushes, receipts, `ReadBack` and `Fold` of the verifier, `SweepList` and `Reclaim`, `Crash`, `RestartEdge` |
| `Registration`, `PhaseFlow`, `MCFlow`, `PlanTheorems` | a submitted workflow; one run's attempts, inputs, outputs, skips | `Submit`, `DispatchRun`, `SyntheticDispatch`, `Complete`, `Advance`, `Retry`, `ApproveReview` |
| `WorkflowRegistry`, `ProjectRows`, `Registry`, `MCRegistry` | the workflow row, schemas, pins and ledger; the project row | requests in a read step and a write step; project writes, status writes, back-fill |
| `RunLedger`, `RunView` | `phase_executions` over all phases of a run, its cause of death; a reader | every mutator of the ledger; `ReadRow` and, later, `Show` with the events read since |
| `InnerJobs` | the Jobs a run's steps start, `inner_jobs` of each phase, the ends filed among the run's events | `Register` (a marker), `WatchInner`, `Sweep` ... `Examine`, `Locate` and `File` of an end |
| `Inspections`, `Reviews`, `Issues`, `MCRecords`, `RecordTheorems` | rows, blobs, a counter | `createInspection`, `sweepLeaseInspections`; `EnsureReview`; creation, archiving and comments of issues, portfolio elements and the issues made for them |

`MCPreviews`, `MCRegistry` and `MCRecords` join parts that share nothing but the
database: a behaviour picks one part at the start and only that part moves. `PhaseFlow`
instantiates `Routing` and `Workflow` with every workflow it registers, so the engine
that `RunLifecycle` interleaves is the engine that routes there.

Definitions whose comment starts with "Mutant" are wrong variants of the definition below
them. `PROJECT.json` pairs each with the property that notices the difference.

### Abstractions

- Reading a row and patching it inside one `PatchPayload` is one action, and a patch
  followed by the re-read of the same function is one too. A transition of a slot (read,
  compute, write if unchanged) is one action; the conditional writes of a preview row are
  a read and a write.
- A job's report is a conclusion, a verification, whether it asks for an abort and
  whether it costs a unit. A workflow is a chain, as registration insists. A condition
  compares two terms; a reference is a phase and a key.
- Time is an event: a lock lapses, a lease falls due, a row ages, a timer fires, a
  threshold passes. No property depends on a duration.
- A cancelled or killed context and a dead process are the same: the goroutine is gone.
- A failed launch may or may not have created its Job; other failed calls have no
  effect, except in `Inspections`, where uploads, inserts and the deletion of rows may.
- In `RunLifecycle`: lease metadata, input substitution, the lock on the pull request and
  step events are left out (they are in the other modules); `MayReport` is about code in
  the pod: `pr_merge` succeeds only after the server's merge did, `pr_review` only after
  the pull request is linked or found not to be due.
- In `SlotLease` the runtime in a namespace is the set of leases that installed something
  there and was not removed; `SlotUse` takes the removal apart. The snapshot is taken at
  once, where the code reads the leases and then the slots.
- In `IssueWork` the completion of a run is four events of its row; `RunLifecycle` has the
  steps in between.

## 3. The properties

Each is stated in words where it is defined; the hazards in `PROJECT.json` name the
properties that would notice them.

*A run, whatever fails.* `ReadyOnce`: a complete phase is handed to exactly one caller.
`LedgerIsAppendOnly`: no attempt of a cycle is lost or changes its phase, and no report of a
job is replaced but by the skip of a conditional job; stamps are not meant (section 7). `CyclesBounded`: each cycle decides alone, yet the policy bounds them
together. `NoMergeWithoutApproval`.

*A run nobody disturbs*, whichever way jobs end and goroutines interleave: `OneDriver`,
`NoStranded`, `AbortNeverReviewed`, `TeardownBeforeSettle`, `PassedMeansMerged`,
`PodsHoldLease`, `SettledReleasesAll`, `ImplementsContract` and, under fairness,
`EverythingEnds`. With failures these do not hold; section 7 says where.

*Slots.* `OfferedIsClean`: what the allocator offers has nothing of the last tenant in it
and nobody at work on it; the snapshot shows as available exactly what the allocator offers.
`RunningIsReal`: a slot the snapshot shows as usable has the runtime of the lease it is
shown with and no other. `ImplementsOwners`: refinement of `SlotOwners`, one lease a slot and
no lease comes back. `CleaningEnds`. `FreeSlotIsEmpty`: the same promise one level down,
in the namespace, against installer pods that outlive their Jobs.

*Work on an issue.* `OneActiveRun`: dispatches, signals, queue, operators' aborts and
recycles leave an issue one active run, over crashes and the lapse of the lock, but for the
two races that `MayOverlap` names (section 7). `SignalsAnswered`,
`WokenQueueAdmits`: nothing is lost between a wake-up and the loop it wakes.

*Playbooks.* `OrderKept`: no entry is worked on before what it depends on has passed, with
any interleaving and whatever document is overwritten. `WorkedOnce`.

*The runner.* `AbortIsReported`: a step's request to abort outlives lost events and
shutdowns. `FailClosed`: no step starts after a failed one, across the cases of a group.
`EveryJobReports`: a job is reported, by its runner or for it.

*Previews.* `LiveWasServed`: live is what the edge was read back serving, never what a
session claimed. `SweepConverges`: an orphaned credential is reclaimed.

*Configuration.* `AcceptedIsValid`: what registration accepts satisfies `ValidWorkflow`,
the assumption of the proofs, however conditions turn out. `DispatchesResolve`: a run
whose phases publish what they declare is never refused a dispatch, except in the four
ways registration lets through. `MergesAreEarned`: no cycle merges what it did not verify,
no synthetic run merges past its own review. `PinsHold`,
`LedgerNamesMoves`, `StatusIsTheReconcilers`: what operators pinned, what the audit ledger
says, and what reconcilers reported survive concurrent writers.

*Records.* `LedgerMatchesBlobs`: rows and blobs of inspections agree but for what failed itself.
`EachPRHasItsReview`, `NumbersAreApart`.
`FailureIsOwned`: a failed job in the run graph has a failed step that explains it, also
when the events a reader sees are ahead of the row. `AbortedIsClosed`: an aborted run shows
nothing as still at work. `EndsAreShown`: the end of an inner Job stays as it was first
filed, whoever files it again and whenever its marker comes.

## 4. The runs

| Run | Instance | Environment |
|---|---|---|
| `quiet` | six phases, two jobs in the first, early cleanup; two goroutines, three cycles at most | one poll, approval or cancel, killed pod, late event |
| `conditional` | nine phases: skipped phase, job and cleanup, a retry that lands second, a phase without jobs; environment kept; budget of 2; liveness | one poll, approval, cancel, killed pod |
| `storm` | six phases, a skipped job, a skipped cleanup that shares its job's id with the next; two goroutines, two cycles | a crash, and at most one of a failed call, an abort and a sweep |
| `slots` | one server, one slot, two leases | two restarts, failed calls, releases, extensions or cancels, or one repair or scaling |
| `work` | one issue, one slot, two runs, a dispatcher, a signal loop, an approval and a rejection, synthetic dispatch | crashes, failed calls, aborts and lapses, three of them in all with the requests |
| `playbook` | three entries, the second after the first, the third gated, limit of one, two advances | gate edits, a crash, recycles |
| `runner` | two jobs, a step and a group of cases each | one lost call, signal or kill |
| `previews` | two builds, two pushes, two requests; or two images, two deployments in a slot | three calls and two faults; two failed calls and one crash |
| `registry` | two clients, three requests; or a six-phase workflow, every change and pair of changes to its phases from a list, two runs of two cycles | |
| `records` | three inspections against a sweep; three runs of two issues; two issues by two requesters, with comments or portfolio elements; a ledger of four phases; one inner Job in a run of three attempts | two failed uploads, inserts, deletions or sweeps, or a crash; cut-off requests; step events ahead of the row |

`claim_attributed` and `claim_skipped_refs` are in section 7.

Bounds. Two goroutines (or handlers, clients, advances): every race of the code is
between a reader that is about to write and one writer in between. `MaxAttempts` is 2, so a
run recycles and then exhausts its policy; `MaxCycles` is one more in `quiet` and
`conditional`, so the bound never binds and `CyclesBounded` is not true by construction.
Two leases where one slot is at stake: the holder and the next. `Limits`, `Events`,
`MaxLoad`, `MaxFaults` and the like say how often the environment disturbs; the models have
no loop of their own, so one event at each of the places where it may occur is what matters,
and two where the second meets the recovery from the first. In `quiet` the queue polls once,
for the first cycle, so it never meets a recycled one; that race is in section 7. `Serial`
(acquisitions do not overlap) and `Prompt` (a handler makes the write its read has decided
before others act) in `slots`, `PinsAlone` (pins and patches come one at a time) in
`registry`, and `Apart` (no deployment outlives its slot) in `previews` exclude races in
which the code does not keep the promise; section 7 names each. Three runs have a
`CONSTRAINT`. `CrashAndOneMore` in `storm`: one disturbance besides the crash.
`SecondIsSimple` in `registry`: the second run of a behaviour is a first-cycle synthetic
run of the workflow with a skipped leg, and copies from the first. `ShortWithEvents` in
`records`: two runner events meet two attempts, fewer events meet more. Goroutines are
symmetric except where liveness is checked. Deadlock is not checked: runs, leases and
requests end.

Fairness. Every assumption is weak fairness of something that the code or the cluster
does by itself; nothing is assumed of reviewers, operators or clients.

- `RunProperties`: a goroutine makes its next call; a running pod ends, because its Job
  has a deadline (a pod that is killed is not forced); the watcher lists what it missed on
  every reconnect; the kubelet starts pods; the queue, which waits on its wake channel and is
  woken at start-up and by the dispatch, looks at the run it was woken for.
- `SlotLease`: goroutines and handlers go on. A process that dies need not come back,
  and `CleaningEnds` says nothing of a slot whose server died.
- `IssueWork`: handlers go on, the completion that settles a run releases the lock, and a
  loop runs once it has been woken: neither has a ticker (`run_queue.go:47-79`,
  `signal_drain.go:189-220`), and a wake-up that nobody sends is not assumed.
- `JobRunner`: pods start, steps end at the latest at the pod's deadline, the reconciler
  sweeps every hour, and the watcher lists the Jobs whenever its stream ends.
- `Previews`: requests under way, the edge, the verifier and the sweep of a start go on; a
  list or a deletion of the sweep may fail, and that ends it until the next start.

## 5. What is proved

`RunTheorems` proves, for every workflow that satisfies `ValidWorkflow`, any number of
goroutines, cycles and leases, any budget and any `Limits`:

- `InductiveInvariant`: `Spec => []Inductive`
- `TypeCorrect`, `ReadyOnceHolds`, `CyclesAreBounded`: `TypeOK`, `ReadyOnce` and
  `CyclesBounded` always hold
- `LedgerNeverShrinks`: `Spec => LedgerIsAppendOnly`

The assumptions are `WorkflowAssumption` (what registration guarantees) and
`LifecycleAssumption` (types of the constants). TLC evaluates both in every run of the
core; that registration establishes the first is `AcceptedIsValid`, proved in `PlanTheorems`.

None of the three invariants is inductive alone. `ReadyOnce` needs `GrantsOK`: an attempt
that was handed out has all its reports; since reports are never lost (`AttemptKept`, the
ledger property itself), and a report is recorded only for a job that has none, a second
grant of the same attempt is impossible. `CyclesBounded` needs to know, of a goroutine
about to recycle, that the verdict it computed allowed one more cycle, and of a goroutine
about to create a row, that the row is within the policy (`HandlerOK` at `recycle` and
`create`). `TypeOK` needs that a goroutine in the middle of a dispatch has a phase of the
workflow, an attempt in the ledger and only jobs of that phase (`Launching`,
`Committed`), and that a pod belongs to an attempt (`PodsOK`).

The proof is layered. *Facts*: the pure functions of the routing return phases of the
workflow and values of their types; each mutator yields a `Successor` of the row, well
typed, existing, with the same entry phase and nothing lost; each next step of a goroutine
is one whose facts hold (`Good`). *Steps*: what a write, a pod or a grant does to each
part of the invariant, then one lemma per action. *Theorems*: the initial state, the
case split over `Next`, and the temporal steps.

`NoUnapprovedMerge` is `Spec => []NoMergeWithoutApproval` under `NoRetryAtGate`: no recycle
policy lands at a review gate. Registration does not check where a policy lands, and a gate
that a retry lands at is launched without parking (section 7), so the hypothesis is needed.
The invariant, `MergeInv`, adds to the one above that until a reviewer approved
(`~issue.approved => Unapproved`) nothing is merged, no pod belongs to a gate's attempt, and
no goroutine has a gate in hand (`NoGate`): none is about to launch an attempt of a gate,
nor to start a cycle at one.

`TurnTheorems` proves `Spec => []OneDriver` under `Undisturbed` and `JobsApart`, with any
number of crashes, kills, echoes, approvals and cancels. The invariant, `Turn`, says where
the one turn lies: with one goroutine, which may be about to record, to route or
to launch; with the jobs of one attempt that has not completed, and then every job still
missing can be reported under it; with the reviewer of a parked run; with the queue
before its first look; or with nobody, after a crash or an end. Each step hands the turn on
or drops it. Most of the proof is about reports: a late or repeated one finds its attempt
complete or its job already reported, and so gives no second turn. The hypotheses are where
the code has two drivers by design or by mistake. An abort and a sweep act next to the
goroutine at work, a failed call leaves the launch to be cleaned up by another, and the
second look of the queue may start the cycle its creator starts (section 7). A report of
the watcher names no attempt, so jobs with one id in two phases would let it complete the
attempt of the other (`run_watcher.go:411`); registration keeps ids apart only within a phase.

On top of the turn, and under the same hypotheses, `PodsAlwaysHoldLease` proves
`Spec => []PodsHoldLease`. Its invariant, `Holding`, says that all pods at work belong to
one attempt (`OnePod`) which is being waited for (`Waited`) and has no report of theirs
(`NothingSaid`); that whoever is about to release a lease or end a run has no pod at work
(`Ended`); and what a goroutine knows of the lease on its way from the queue or a verdict to
the launch (`Copied`, `Sure`). The lease follows the turn: the queue claims it or finds it
claimed, a later phase reads it before its launch, a recycled cycle inherits it, and
only a goroutine that has the turn releases it. That the turn excludes pods elsewhere is
why nobody is left working in an environment that was given back.

The third theorem there is `AbortsAreNeverReviewed`, `Spec => []AbortNeverReviewed`, the
promise that what a reviewer sees came through every phase before the gate. Its invariant,
`Routed`, follows the route a run takes. A row is on its path (`OnPath`): its attempts are of
the first phases in their order and all but the last advanced, or one aborted and the last
is a teardown. Whoever has the turn appends what fits (`Fits`): the next phase behind attempts
that all advanced, or, behind an abort, one that runs after an abort. A recycled cycle goes on from
the phases it carries (`Resumes`), which keep their order. That nothing else is ever appended
takes the two invariants before it: the turn, since a second driver would append from a copy of
the row that is behind, and the lease (`AwaitedSecured`, `Secured`), since a launch without
its lease would fail in the middle of a route. It takes two hypotheses on the workflow
besides. `LandsBack`: a retry lands no later than behind its verification, or the new
cycle would reach the gate past phases nobody ran. `AllHaveJobs`: the launch of a phase
without jobs fails, and a cleanup further on may then end at a gate that parks behind the
abort. Registration asks for neither, so in such workflows the promise does not hold.

`WorkTheorems` proves `Spec => []OneActiveRun` for any issues, handlers, signals, slots and
disturbances. `WorkInv` has four parts besides the types: `RowsOK`, what a row's fields say
of one another; `ChainOK`, of the cycles that share a lock holder all but the last handed
the lock on; `LockIsKept`, until a lapse the lock is with the run that keeps it; and
`CreateOK`, `ClaimOK`, `LaunchOK`, `EffectOK`, what a task in the middle of a dispatch, an
admission or a signal may still rely on. The proof showed that the property is false as it
was first written: with three cycles, an abort that read its run before a recycle releases
the lock the next cycle holds. `MayOverlap` states that race and the other one, a lapse.

`SlotTheorems` proves `Spec => ImplementsOwners` under `Serial`, for any servers, slots and
leases: an insert is a `Grant`, a cancel, release or expiry is an `End` or changes nothing,
and every other step is a stutter. `SlotInv` says that the number of a lease is with one
acquisition until the lease is inserted, that whatever a cancellation is about to patch was
inserted, and, under `Serial`, that the slot being given is still free and no slot has two
claimed leases. `EndedStaysEnded` needs no `Serial`: a lease that ended is never live again,
though cancellations and extensions find their lease by the name of a slot.

`RecordTheorems` proves `PinsHold` and `LedgerNamesMoves` under `PinsAreAlone` (pins and
unpins are requests nobody overlaps) and `StatusIsTheReconcilers` without it, for any
clients, lanes, values and statuses. `WorkflowInv` says what a request knows between its
read and its write (`RequestOK`): a registration or patch about to be written fits the pins
of the row as it now is and names in its event what moved since the row it read, and a pin
about to be written fits the row's content. `ProjectOK` is no more than the shape of the
project row: `StatusIsTheReconcilers` follows from the writes themselves, each of which
goes by the row it finds and not by the copy it was made from.

It proves `NumbersAreApart` too (numbers given out are below the counter and apart,
of rows and of requests under way), `LedgerMatchesBlobs` (`InspectionsInv`: what a call has in
the store at each of its phases, and that what an answered call has left there has its row,
is the sweep's to delete or is lost to a failure, `Accounted`) and `EachPRHasItsReview` (`ReviewsInv`: each row is kept under the number it
carries, and a request that goes on to write a row holds the one of its own number).
It proves `FailureIsOwned` for any row the ledger's mutators can make and any
events: the two places that give a failed job its failed step, the projection of the row and
the overlay of the events, do so last, whatever the fold before them came to. And it proves
`EndsAreShown`: each attempt is of a phase of its own and an end is filed once for each
attempt (`InnerInv`), so a second end of the Job is written into another phase's row, and a
marker leaves a row that has ended alone.

`PlanTheorems` proves `OrderKept` and `WorkedOnce`. `OrderInv`: whatever a copy of the
document calls succeeded has passed in the runs themselves (`Truthful`), so overwriting one
copy with an older one cannot undo it, and an advance at work on an entry has found its
dependencies met. `OnceInv`: as long as no two advances overlapped and none failed to get to
its write, one advance works at a time and its document calls pending only what has no
issue yet, but for the entry it is at (`WorkInOrder`).

The same module proves `AcceptedIsValid`, which ties registration to the core: whatever is
submitted (`SubmittedAssumption`: it has the shape the request is decoded into, no more), if
registration accepts it, then for any inputs and conditions the workflow the engine sees
satisfies `ValidWorkflow`, the assumption of `RunTheorems` and `TurnTheorems`.
`RegistrationIsSound` goes through the normalisation (`NormalisedIsFormed`), one phase at a
time (`PhaseIsValid`), and the counts of purposes and names (`OneOfEach`, `UniqueNames`).
And it proves `MergesAreEarned`, for the same submissions, any callers and requests, and any
number of runs and cycles. Alone it is not inductive: that the gate is reached by a phase
that advanced says nothing of the verification, which may lie further back, be carried from
the parent cycle as done, or be behind an abort. `Earned` says of all attempts of a cycle
that, unless one of them aborted, whatever lies behind the verification stands on one that
passed in this cycle, and that what is carried or supplied lies before it; after an abort
only teardown phases follow (`TargetFollows`), and the gate is none. With `RunOK` (a run at
work has its last attempt in flight, only a verification is retried) it is kept by every
operation: `OpenedOK`, `ForwardOK`, `CompleteOK`, `RetryOK`, `SyntheticDispatchOK`.

On top of that it proves `DispatchesResolve`. `Sent` says of an ordinary run that it has its
lease and a value for every declared input (`Provided`), that whatever lies before a phase
it tried was tried too, unless an attempt aborted or a policy lands past the verification's
successor (`Dense`), and that in the first cycle the attempts themselves tell which legs
were left out (`Legged`). A reference points to an earlier phase, so the phase it names has
an attempt, which published what it declares or left a job out (`Resolves`,
`InputExcused`); after an abort only teardowns follow, and those take no inputs. A recycled
cycle carries every phase before the one it lands at, in their order and with what the last
attempt of each published (`CarriedWhole`, `NthOfFirst`). Without its exception for a policy
that lands past phases the run never reached the property is false, which the proof brought
out: the phase it launches may ask for what nobody published. The run's submissions include
such a workflow.

`RunnerTheorems` proves `AbortIsReported` and `FailClosed` for any plan, number of jobs, keys
and values, and any number of lost calls, signals and killed pods. In `RunnerInv` (`JobOK`)
a pod whose job has published an abort is `Doomed`: each point it can still reach ends
without success, so retries and the reports made for it cannot turn it round, and a job that
reported success has a stopped pod, which publishes nothing more. And a pod
between two steps has left no step at work, failed or aborted behind it (`Beginning`), one at
work on a step no other (`OnStep`): so neither its own events nor the report of a watcher or
a sweep that comes while it still runs puts a failure before a step it starts later. The
proof needs that the key of the abort output is one of the keys and that no job is called
`Nobody` (`NamesAssumption`).

`PreviewTheorems` proves `LiveWasServed` for any builds, requests, pushes and faults.
`LaneInv` says that whoever still holds the first claim on the row read the row as it is
(`StoreOK`), that a status in the verifier's hand names a build served by then, and that the
edge leads to a release whose push is past its flip (`EdgeOK`): a release that was pruned or
cleared under the link is not extracted a second time with another content.

The same module proves `FreeSlotIsEmpty` under `Apart`, for any images, deployments, failed
calls and crashes. `UseInv` takes it in two parts. `Exclusive`: an activation, a clean-up past
its wait and a deployment exclude each other, and no slot is free while something is being
installed. `Cleared`: a teardown that has no wait for pods ahead has no hot pod behind it, one
that has no deletion ahead has nothing to delete, because the wait comes before the deletions
(`Ordered`) and what is behind them can only fade (`Fading`). The first call of a teardown
that fails ends it, and the slot is not given back.

The assumptions of these modules are those named `...Assumption` in the modules they extend:
types of the constants, evaluated by TLC in each run. The operators of the community modules
that the models use (`Max`, `Min`, `MapThenSumSet`) are expanded or bounded by lemmas of
their own, such as `HasMin`.

## 6. What only TLC checks

- Liveness: `EverythingEnds`, `CleaningEnds`, `SignalsAnswered`, `WokenQueueAdmits`,
  `EveryJobReports`, `SweepConverges`. The prover does not reach fairness.
- `ImplementsContract` and the other properties of undisturbed runs (`NoStranded`,
  `TeardownBeforeSettle`, `PassedMeansMerged`, `SettledReleasesAll`). They speak of the end
  of a run: besides the route up to the review they need what comes after it, the
  teardowns still due, the merge and the releases, and an inductive invariant for that is
  not written.
- `OfferedIsClean` and `RunningIsReal` (who may still be at work in a namespace depends on
  every place of every task, and on what the timers and recoveries of all servers know).
- `AbortedIsClosed`, which compares what a reader is shown with a row and events of
  different moments: the view folds the events of a job over its steps, and what a fold makes
  of every list of events would take an induction the prover lacks.

## 7. Where the code and its documents disagree

Two runs show it, each checking what a document says and finding it violated:

- `claim_attributed` (`EndIsAttributed`). `docs/observability.md:57`: "no run may settle
  terminal-failed without an attributed cause." A review that is cancelled is stamped
  without a job completion (`postgres.go:8847`); when its teardown has ended and the run
  settles as aborted, `terminalObservationForRun` (`postgres.go:6377`) finds nothing to
  attribute it to and reports `malformed_terminal`, which the alert of
  `docs/observability.md:110` takes for a bug.
- `claim_skipped_refs` (`SkippedRefsResolve`). `docs/workflow-shape.md:209-212`: references
  to a skipped output resolve to the empty string. `retryCarryForwardAttempts`
  (`completion_api.go:1423`) carries outputs into the next cycle and not which jobs were
  skipped, so there the same reference is an error and the dispatch is refused.

The rest was met while reading and modelling. No run stands for it; where a property is
restricted because of it, the restriction is named.

### The life of a run

- After the pull request is linked, a dispatch that fails is cleaned up by phases whose
  success routes like any other, so the run may settle as passed without review
  (`completion_api.go:691`; `docs/features/review-surfaces/contract.md:58`). This is why
  `PassedMeansMerged` is checked without failed calls.
- The queue may start a recycled cycle before the goroutine that created it does; that
  goroutine takes the conflict for a failed retry and gives up lock and lease
  (`run_queue.go:130`). `quiet` polls once, for the first cycle.
- Aborting a recycled cycle releases the lease its successor works with
  (`postgres.go:6204`, against the comment at 6340). An abort of a queued cycle that races
  its admission leaks the lease the admission acquires.
- An abort of a run that settles at the same time counts it twice
  (`postgres.go:6288`; `docs/observability.md:63`).
- A run whose last phase is skipped is never settled (`completion_api.go:1109`;
  `docs/workflow-shape.md:202`). A crash between the record that completes a phase and the
  dispatch of the next leaves the run in progress for good.
- An approval whose launch failed cannot be repeated (`signal_drain.go:444` against 436).
  The pod of a gate that dies after its merge leaves the issue open.
- Two phases that share a job id: the watcher files the end under the latest
  (`run_watcher.go:388` against 355).
- A completion names no attempt, and its stamp and decision go to the latest one
  (`postgres.go:8519`, 8662, 8735, 9125). If a launch failed but its Job was created, the report
  of that Job stamps the cleanup attempt appended meanwhile; a sweep that takes a skipped
  phase for one whose pods never came stamps the attempt at work in the same way. A stamp
  already there is written over, which is why `LedgerIsAppendOnly` leaves stamps out.
- A retry launches the phase it lands at even when its condition is false
  (`completion_api.go:1366`). Where it lands is not validated: it may be unknown, or the
  review gate, which is then launched without parking. Hence `NoRetryAtGate` in
  `NoUnapprovedMerge`. A synthetic dispatch that starts at a gate does the same.
- Registration does not ask that review and gate come after the verification
  (`README.md:619-622`), and a policy that lands behind it carries a failed verification
  forward as done: the next cycle goes to review unverified. `MergesAreEarned` says
  which workflows are spared. One that lands further on, past a phase that never ran, has a
  dispatch refused when an input refers to that phase: the exception in `DispatchesResolve`.
- A synthetic run without a slot gets no further than its first launch
  (`completion_api.go:1217`; `docs/workflow-shape.md:764-768`). A run whose caller
  supplied a phase and not its successor goes back to that successor. The direct dispatch
  ignores `preserve_test_env` where the queue honours it (`dispatch_api.go:360-376`).
- A phase without jobs is accepted and cannot be launched (`run_launcher.go:238`, against
  the comment at `workflow_write_api.go:744-747`). The canonical `pr_review` and
  `pr_merge` jobs lose a declared `when` or checkout before it is validated. The policy of
  a verification phase may be empty.
- The replay endpoint's `would_retry_target` and `would_advance` do not follow the routing,
  and it uses the workflow's budget where the engine uses the run's (`replay_api.go:135`).
- `resolveDispatchWorkflow` accepts a deleted workflow when it is the project's only one.

### What a run's row tells

- A failed dispatch is never recorded as `dispatch_failed`: the observation is computed
  before the phase is marked failed (`postgres.go:6190`, `8944`;
  `docs/features/issues-and-runs/contract.md:70-72`, `95-97`). A verification that succeeds
  without a verdict ends the run though every step is shown as succeeded (there, 67-70).
- In the execution ledger: an abort passes over a phase that has failed, and its sibling
  job stays `dispatching` (8188); a phase skipped by its condition keeps `dispatching`; an
  attempt is appended whatever state the run is in; a late success turns a failed phase
  into a succeeded one; a job that ran is relabelled by a failed dispatch (8339); the
  fallback of the final write can mark a supplied or aborted phase as failed; the later
  phases of a recycled run stay `not_started`.
- The end of an inner job is sent without its attempt and filed under the latest phase
  (`run_watcher.go:411`, `postgres.go:8050`). The row it was registered with stays active
  and is examined at every tick, whose end is then a known event; `EndsAreShown` speaks of the
  phase the end was filed under.
- `RecordRunnerEventByID` inserts an event and applies it in two steps; a crash between
  loses the application.

### Slots

- Acquisitions that overlap give one slot to two leases, and the cancel of the loser then
  addresses the slot's name, which both have (`postgres.go:5063`, `slot.go:229-245`,
  `publicids.go:109-117`; `docs/test-slot-lifecycle.md:127`). Hence `Serial`.
- A handler that read before another wrote leaves slot and lease apart
  (`docs/test-slot-lifecycle.md:207-209`); hence `Prompt`. An extension is written by the
  slot's name and may reach the next lease (`test_slot_api.go:515-520`). The repair checks
  and then writes. The snapshot reads the leases and then the slots
  (`state_api.go:254-276`).
- A restart within five minutes leaves a slot that is being cleaned or activated to the
  start after it. Another process cannot cancel an activation. Scaling down looks at no
  runner's lease. A slot may be marked provisioned while it is being cleaned. A crash
  between the clean-up after a failed activation and its cancel leaves a lease claimed.
- A deployment in flight during a return brings the hot runtime back
  (`test_slot_deploy_image_ops.go`; `docs/test-slot-lifecycle.md:50-52`); hence `Apart`.
  Another server's activation deletes a deployment's installer Job, two deployments share
  its name, and with the chart's own image the verification compares with nothing.
  `waitForInstallerPodsTerminated` (`run_launcher.go:700`) is called by nobody. Its sibling
  takes a 403 or 404 for no pods left (`run_launcher.go:752`), and what follows then deletes
  the runtime under pods that may put it back; `SlotUse` has the list tell the truth.

### Work on an issue

- The two races of `MayOverlap`: the lock lapses under a run that waits, and an abort
  that read its run before a recycle overwrites the recycled row and releases the lock
  the new cycle holds (`postgres.go:6190-6250`).
- Releasing a run's lease wakes nobody (`postgres.go:6367`; `README.md:455`,
  `docs/workflow-shape.md:738`). A queued run whose admission failed for a moment waits
  for the next wake-up; an error of one admission ends the drain.
- Rejecting a parked run always answers `already_running` (`docs/workflow-shape.md:489-491`,
  `docs/features/review-surfaces/contract.md:44-46`). A crash after a signal was claimed
  loses it (there, 69-70). A signal passed over because its pull request was locked is
  not tried again before the next wake-up. A decision is recorded in two writes.
- A synthetic dispatch does not look at the last run (`docs/workflow-shape.md:743`), and
  may abort a run that the queue admitted in between.

### Playbooks, runner, previews, configuration, records

- Playbooks: a dispatch that is queued counts as failed (`playbook_api.go:195`;
  `docs/reviews-runreports-playbooks.md:223`); advances that overlap overwrite each other
  and a crash forgets what was dispatched, hence the condition of `WorkedOnce`; the entry of
  a recycled run stays running; opening a gate advances nothing (`README.md:163`);
  `rolling_main` without a limit is refused.
- Runner: a `step_failed` event takes the phase out of active, so the reconciler
  (`run_execution_reconciler.go:470`) is not the safety net for a pod killed afterwards that
  the comment at `cmd/glimmung-runner/main.go:233-236` speaks of; a sibling pod that cannot
  be scheduled is never timed out; a late `step_started` leaves an active step in an ended
  job; SIGTERM during the last report ends without one; a stale watch event may be of an
  earlier attempt.
- Previews: a read-back may have begun before the push it confirms
  (`preview_environment.go:126-131`), so a row may be live for a build that the edge served
  and serves no more; `LiveWasServed` therefore speaks of the edge's history. A provision
  that times out records nothing, one that dies has no recovery, overlapping ones delete
  each other's credential, and the sweep of a start races a fresh one; a disabled preview
  may lose that state; a live row is not polled again.
- Configuration: pins and patches that overlap lose each other's change (hence `PinsAlone`
  and `PinsAreAlone`); the audit event is a difference to a row that may be stale; a
  workflow's `vars` are outside the hashed schema (`docs/workflow-shape.md:216-219`,
  `postgres.go:3014`); a patch bounds the recycle attempts and a registration does not.
- Records: an insert whose answer is lost deletes the blobs of a committed row, and a retry
  under the same request id is answered with that row (`inspection_api.go:391-405`), hence
  `unsure` in `LedgerMatchesBlobs`; deletions that fail, uploads whose answer is lost and
  a crash leave blobs that nobody deletes (`inspection_sweep.go:43-56`), hence `lost`;
  `ErrSlotInspectionAlreadyExists` is promised by a comment only; an inspection uploaded
  while its lease is swept stays; `EnsureReview` takes
  any error of a lookup for "not found"; `FindByRepoNumber` ignores the project; the list
  and the page of a review disagree; a portfolio's limit is applied before its filter, and
  its dispatch creates an issue even when the run is refused.

## 8. Not modelled

- Manifests, sidecars and Helm arguments of the launcher, beyond one pod for each Job that
  is never restarted; retries of the teardown Job.
- GitHub: bodies, labels and calls. An administrator's merge by run number
  (`pr_syndication.go:261-330`) looks at the pull request only and is outside
  `NoMergeWithoutApproval`.
- The replay endpoint, which only computes an answer; the defaults of a checkout; callbacks
  for tokens, keys and hosts, which are stateless exchanges; authentication; the agent
  harness, a sequential program inside one step; layout, lists and images of the
  dashboard; metrics but the terminal counter.
- The evidence gate: registration refuses a phase of that purpose. Rows from before the
  execution ledger existed.
- The sweep over several runs, where one that fails ends it
  (`run_execution_reconciler.go:284`); the wait of a graceful shutdown for slot work in
  flight (`cmd/glimmung-go/main.go:285-328`); the reconciliation of other cloud credentials,
  a difference to a list.
- Frontend, deployment, migrations and the API proxy.
