--------------------------- MODULE RunProperties ----------------------------
(***************************************************************************)
(* What the completion engine promises about a run. The first group holds  *)
(* whatever fails, crashes or is aborted; the second holds as long as no   *)
(* call fails, no server dies and no operator interferes, whichever way    *)
(* jobs end and the server's goroutines interleave.                        *)
(***************************************************************************)
EXTENDS RunLifecycle

\* The shape of the state: rows as the store keeps them, goroutines as Handlers.
TypeOK ==
    /\ runs \in [Cycles -> Row]
    /\ leases \in [LeaseIds -> {"free", "claimed", "released"}]
    /\ issue \in [locked : BOOLEAN, closed : BOOLEAN, merged : BOOLEAN, approved : BOOLEAN]
    /\ pods \subseteq Pods
    /\ handlers \in [Procs -> Handlers]
    /\ left \in [EventKinds -> Nat]
    /\ grants \in Seq(Cycles \X Nat)
    /\ settles \in [Cycles -> Nat]

-----------------------------------------------------------------------------
\* Whatever happens.

\* Of all the reports of the jobs of an attempt, from pods, the watcher and the
\* reconcilers in any order and any number of times, exactly one is answered
\* "completion ready", so an attempt is never processed twice
\* (RecordRunnerJobCompletion under SELECT ... FOR UPDATE).
ReadyOnce == \A m, n \in DOMAIN grants : grants[m] = grants[n] => m = n

\* The attempts of a cycle are an append-only ledger: no step drops one, changes
\* its phase, or replaces what a job of it once reported, unless by the skip of a job
\* whose condition is false (RecordRunnerJobsSkipped writes over what it finds).
AttemptKept(old, new) ==
    /\ new.phase = old.phase
    /\ \A j \in JobIds :
          old.report[j] # NoReport =>
              \/ new.report[j] = old.report[j]
              \/ j \in SkippedJobs(old.phase) /\ new.report[j] = SkippedOutcome

RowKept(old, new) ==
    \A i \in DOMAIN old.attempts :
        i \in DOMAIN new.attempts /\ AttemptKept(old.attempts[i], new.attempts[i])

LedgerKept == \A c \in Cycles : RowKept(runs[c], runs'[c])

\* Attempts and what their jobs reported only add up, whichever goroutine writes and
\* whatever the sweep makes of a skipped phase: no attempt is dropped or changes its
\* phase, and no report is replaced but by the skip of a job whose condition is false
\* (RecordRunnerJobCompletion, AppendRunAttempt, SkipRunJobs).  The stamps of an attempt
\* are not meant: StampRunCompletion and StampRunDecision write over those of the latest.
LedgerIsAppendOnly == [][LedgerKept]_vars

\* The recycle policy bounds the cycles of the run, although each cycle is a row of
\* its own and decides alone (decisionAttemptsForRun counts the earlier ones).
CyclesBounded ==
    \A c \in Cycles : Exists(runs[c]) /\ c > 1 =>
        \E p \in PhaseIds : Phases[p].verify /\ c <= Phases[p].policy.max

\* The pull request is merged only after a reviewer approved the parked gate, even
\* though the merge call never looks at the state of the run.
NoMergeWithoutApproval == issue.merged => issue.approved

-----------------------------------------------------------------------------
\* As long as no call fails and no operator interferes.

Live(c) == Exists(runs[c]) /\ ~Terminal(runs[c])
LastCycle == CHOOSE c \in Cycles : Exists(runs[c]) /\ \A d \in Cycles : Exists(runs[d]) => d <= c
LivePods == {pod \in pods : pod.st \in {"created", "running"}}
AtRest == (\A q \in Procs : At(q, "idle")) /\ \A pod \in pods : pod.st = "seen"

\* The steps at which a goroutine acts on the run in its own right.
Driving == {"stamp", "decide", "settle", "patch", "unlock", "release", "close"} \union DispatchSteps

\* At most one goroutine acts on the run at a time, though nothing but the
\* "completion ready" answer, the gate's and the queue's state checks keeps
\* callbacks, watcher, reviewer and queue apart.
OneDriver ==
    \A q1, q2 \in Procs :
        handlers[q1].pc \in Driving /\ handlers[q2].pc \in Driving => q1 = q2

\* When every goroutine and every pod is done the run has settled, waits for its
\* reviewer or waits in the queue: it is never left in progress with nobody to
\* move it.
NoStranded ==
    AtRest => \A c \in Cycles :
        runs[c].state \in {"absent", "queued", "review_required"} \union TerminalStates

\* A run parks for review only when nothing before the gate aborted and every phase
\* before it went forward (docs/workflow-shape.md: a primary abort "cannot park in
\* review_required").
AbortNeverReviewed ==
    \A c \in Cycles : runs[c].state = "review_required" =>
        LET as == runs[c].attempts
        IN  /\ ~HasAbort(as)
            /\ 1..(as[Len(as)].phase - 1) = Advanced(as)

\* A cycle passes or aborts only after every teardown phase of its path has been
\* tried to its end.
TeardownBeforeSettle ==
    \A c \in Cycles : runs[c].state \in {"passed", "aborted"} =>
        \A p \in AbortPhases : \E i \in DOMAIN runs[c].attempts :
            runs[c].attempts[i].phase = p /\ ~InFlight(runs[c].attempts[i])

\* "passed" and a closed issue mean that the review was approved and the pull
\* request merged.
PassedMeansMerged ==
    /\ (\E c \in Cycles : runs[c].state = "passed") => issue.merged /\ issue.approved
    /\ issue.closed => issue.merged

\* A pod runs only in a slot its run still holds.
PodsHoldLease ==
    \A pod \in LivePods : leases[runs[pod.run].lease] = "claimed"

\* When the run is over and every goroutine is done, the lock is free, the lease is
\* given back unless a passed run keeps its environment, and no other lease was
\* taken for it.
SettledReleasesAll ==
    AtRest /\ runs[LastCycle].state \in {"passed", "aborted"} =>
        /\ ~issue.locked
        /\ \A l \in LeaseIds :
              leases[l] = "claimed" =>
                  Preserve /\ runs[LastCycle].state = "passed" /\ l = runs[LastCycle].lease
        /\ issue.closed <=> runs[LastCycle].state = "passed"

\* The run as its users see it: RunContract with the last cycle's state as the stage.
\* A cycle being replaced by the next one is still the run at work.
Stage ==
    CASE runs[LastCycle].state \in {"passed", "aborted"} -> runs[LastCycle].state
      [] runs[LastCycle].state = "review_required"       -> "review"
      [] runs[LastCycle].state = "queued" /\ LastCycle = 1 -> "queued"
      [] OTHER                                           -> "active"

ReviewSaid ==
    IF issue.approved THEN "approved"
    ELSE IF \E i \in DOMAIN runs[LastCycle].attempts :
                /\ Purpose(runs[LastCycle].attempts[i].phase) = "review_gate"
                /\ runs[LastCycle].attempts[i].decision = "abort_requested"
         THEN "cancelled" ELSE "pending"

Contract ==
    INSTANCE RunContract WITH MaxTries <- Phases[VerificationPhase].policy.max,
                              stage <- Stage, tries <- LastCycle, review <- ReviewSaid,
                              merged <- issue.merged, locked <- issue.locked,
                              closed <- issue.closed

\* The completion engine implements the contract.
ImplementsContract == Contract!Spec

-----------------------------------------------------------------------------
\* Progress. The server's goroutines and the kubelet go on, a running job ends (its
\* Job has a deadline), and the queue, woken by the dispatch, looks; nobody has to approve.
Fairness ==
    /\ \A q \in Procs : WF_vars(HandlerStep(q))
    /\ WF_vars(PodStep)
    /\ WF_vars(\E q \in Procs, pod \in pods : Callback(q, pod))
    /\ WF_vars(\E q \in Procs, pod \in pods : Watch(q, pod))
    /\ WF_vars(\E q \in Procs, c \in Cycles : Admit(q, c))

FairSpec == Spec /\ Fairness

\* The run as a whole ends, unless a reviewer keeps it waiting.
EverythingEnds == <>[](AtRest /\ \A c \in Cycles : Live(c) => runs[c].state = "review_required")

-----------------------------------------------------------------------------
\* The inductive invariant behind the theorems: TypeOK, ReadyOnce and CyclesBounded with
\* what every step needs to know of the rows, pods and goroutines it starts from.

\* The recycle policy of a phase that verifies allows a cycle c.
Within(c) == \E p \in PhaseIds : Phases[p].verify /\ c <= Phases[p].policy.max

\* A cycle starts at the first phase, or at one a recycle policy lands at.
IsEntry(p) == p = 1 \/ \E v \in PhaseIds : p = RetryTarget(v)

\* A cycle whose row does not exist has nothing in it; one that exists starts with such
\* a phase of the workflow and is within the recycle policy.
RowOK(row, c) ==
    /\ Exists(row) => row.entry \in PhaseIds /\ IsEntry(row.entry) /\ (c > 1 => Within(c))
    /\ ~Exists(row) => row = AbsentRow

RowsOK == \A c \in Cycles : RowOK(runs[c], c)

\* A pod belongs to an attempt.
PodsOK == \A pod \in pods : pod.att \in DOMAIN runs[pod.run].attempts

\* The steps at which a goroutine has an existing cycle and a phase to launch in it,
\* and those at which it has the phase's jobs in hand.
Launching ==
    {"dispatch", "skip", "skipjobs", "lease", "launch", "acquire", "start", "opengate", "cancelgate"}
Committed == {"skipjobs", "lease", "launch"}

HandlerOK(rows, h) ==
    /\ h.pc # "idle" => h.run \in Cycles /\ Exists(rows[h.run])
    /\ h.pc \in Launching => h.on \in Cycles /\ Exists(rows[h.on]) /\ h.target \in PhaseIds
    /\ h.pc \in Committed => h.att \in DOMAIN rows[h.on].attempts
    /\ h.pc \in Committed \union {"opengate", "timeout"} => h.todo \subseteq ExpectedJobs(h.target)
    /\ h.pc = "timeout" => h.target \in PhaseIds /\ h.todo # {}
    /\ h.pc = "stamp" => rows[h.run].attempts # <<>>
    /\ h.pc = "timeout" /\ h.ready => rows[h.run].attempts # <<>>
    /\ h.pc = "decide" => Exists(h.base) /\ h.base.attempts # <<>>
    /\ h.pc = "recycle" => Within(h.run + 1) /\ h.base.attempts # <<>>
    /\ h.pc = "create" => h.target \in PhaseIds /\ IsEntry(h.target) /\ Within(h.on)

HandlersOK == \A q \in Procs : HandlerOK(runs, handlers[q])

\* An attempt whose completion was handed out exists and has every report.
GrantOK(rows, g) ==
    g[2] \in DOMAIN rows[g[1]].attempts /\ AllReported(rows[g[1]].attempts[g[2]])

GrantsOK == \A n \in DOMAIN grants : GrantOK(runs, grants[n])

\* What no failed call, crash or abort disturbs, and each step needs of the one before:
\* rows are well formed and within the policy, pods belong to attempts, a goroutine's
\* next step fits the row it works on (completion_api.go takes each from a copy), and a
\* phase was handed out only with every job reported, once.
Inductive ==
    /\ TypeOK
    /\ RowsOK
    /\ PodsOK
    /\ HandlersOK
    /\ GrantsOK
    /\ ReadyOnce
=============================================================================
