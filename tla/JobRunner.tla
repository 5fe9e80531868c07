----------------------------- MODULE JobRunner ------------------------------
(***************************************************************************)
(* The runner (cmd/glimmung-runner) in the pods of one phase, and what the *)
(* server makes of its calls and of its silence. A pod works through its   *)
(* plan step by step; each event is one synchronous POST, tried once, and  *)
(* the last call reports the job. SIGTERM cancels the context every call   *)
(* but the farewell is made with; SIGKILL just stops the pod. A job that   *)
(* never reports is reported by the watcher, which sees its Kubernetes Job *)
(* end, or by the hourly reconciler, which looks for active jobs and for   *)
(* phases that were never started.                                         *)
(***************************************************************************)
EXTENDS PhaseRow, FiniteSets

CONSTANTS
    Results,     \* what a step's process may do: <<exit, output key or "none", verdict>>
    MaxFaults    \* calls lost and pods stopped, in all

ASSUME ResultsAssumption ==
    /\ Results \subseteq {"ok", "error"} \X (Keys \cup {"none"}) \X Verdicts
    /\ MaxFaults \in Nat

VARIABLES
    row,        \* the attempt's row
    pod,        \* job -> its pod: where the runner is and what it holds
    expiring,   \* jobs the dispatch-timeout sweep has listed and not yet reported
    faults
vars == <<row, pod, expiring, faults>>

NoEvent == [kind |-> "other", slug |-> <<1, 0>>, key |-> "none", count |-> 0]

\* What the runner waits for at each point: a reply (Calling), its step's process or the
\* choice of cases (Working), nothing any more (Stopped).
Calling == {"starting", "publishing", "failing", "stopping", "aborting", "ending",
            "expanding", "skipping", "leaving", "reporting"}
Working == {"executing", "planning"}
Stopped == {"exited", "failed", "killed"}
NewPod ==
    [pc |-> "pending", at |-> <<1, 0>>, cases |-> 0, event |-> NoEvent, dead |-> FALSE,
     term |-> FALSE, exit |-> "ok", outs |-> {}, verdict |-> "none", case |-> "none",
     report |-> NoReport]

\* runnerJobManifest: a Kubernetes Job for each job, with one pod that is never restarted.
Launched == [j \in JobIds |-> NewPod]

Init == /\ row = DispatchedRow
        /\ pod = Launched
        /\ expiring = {}
        /\ faults = 0

-----------------------------------------------------------------------------
(* The runner. A call made after SIGTERM with the cancelled context is dead: *)
(* it fails without reaching the server.                                     *)

Post(p, pc, e) == [p EXCEPT !.pc = pc, !.event = e, !.dead = p.term /\ pc # "leaving"]
OfStep(kind, p) == [NoEvent EXCEPT !.kind = kind, !.slug = p.at]

\* aggregateDynamicCaseVerification: the first case that fails is the last that runs, so
\* the last verdict of a case is that of all. Where there is one it is the job's.
JobVerdict(p) == IF p.case # "none" THEN p.case ELSE p.verdict

Complete(p, conclusion) ==
    [NewPod EXCEPT
        !.pc = "reporting", !.term = p.term, !.dead = p.term /\ conclusion # "timed_out",
        !.report = [conclusion |-> conclusion, outs |-> p.outs, by |-> "runner",
                    verdict |-> JobVerdict(p)]]

StartStep(p, slug) == LET q == [p EXCEPT !.at = slug, !.exit = "ok"]
                      IN  Post(q, "starting", OfStep("step_started", q))

\* Mutant: an error ends the step, not the job.
GoOn(p) ==
    IF p.term THEN Post(p, "leaving", NoEvent)
    ELSE IF p.at[1] < Len(Plan) THEN StartStep(p, <<p.at[1] + 1, 0>>) ELSE Complete(p, "failure")
\* The end of run after an error: completeShutdown, after a farewell event, when SIGTERM
\* is what caused it, and a failure otherwise.
Fail(p) == IF p.term THEN Post(p, "leaving", NoEvent) ELSE Complete(p, "failure")

StartEntry(p, i) ==
    IF i > Len(Plan) THEN Complete(p, "success")
    ELSE IF Plan[i] = "run" THEN StartStep(p, <<i, 0>>)
    ELSE [p EXCEPT !.pc = "planning", !.at = <<i, 0>>]

InCase(p) == p.at[2] \in 1 .. MaxItems
NextStep(p) ==
    IF InCase(p) /\ p.at[2] < p.cases THEN StartStep(p, <<p.at[1], p.at[2] + 1>>)
    ELSE StartEntry(p, p.at[1] + 1)

\* Mutant: an abort is looked for only when the step has ended.
JudgeAlone(p) ==
    IF p.exit = "error" \/ (InCase(p) /\ p.case = "fail")
    THEN Post(p, "failing", OfStep("step_failed", p))
    ELSE Post(p, "ending", OfStep("step_completed", p))
\* The end of runStep: what the step's process, its outputs and its verdict amount to.
Judge(p) ==
    IF p.exit = "error" \/ (InCase(p) /\ p.case = "fail")
    THEN Post(p, "failing", OfStep("step_failed", p))
    ELSE IF Abort \in p.outs THEN Post(p, "aborting", OfStep("step_aborted", p))
    ELSE Post(p, "ending", OfStep("step_completed", p))

\* What the runner does with the reply to its call.
AfterReply(p, ok) ==
    CASE p.pc = "starting" -> IF ok THEN [p EXCEPT !.pc = "executing", !.event = NoEvent] ELSE Fail(p)
      [] p.pc = "publishing" ->
            IF ok THEN Judge([p EXCEPT !.outs = @ \cup {p.event.key}])
            ELSE Judge([p EXCEPT !.exit = "error"])
      [] p.pc = "failing" -> IF p.exit = "ok" THEN Post(p, "stopping", NoEvent) ELSE Fail(p)
      [] p.pc = "stopping" -> Fail(p)
      [] p.pc = "aborting" -> IF ok THEN Complete(p, "aborted") ELSE Fail(p)
      [] p.pc \in {"ending", "skipping"} -> IF ok THEN NextStep(p) ELSE Fail(p)
      [] p.pc = "expanding" ->
            IF ~ok THEN Fail(p)
            ELSE IF p.cases > 0 THEN StartStep(p, <<p.at[1], 1>>)
            ELSE LET q == [p EXCEPT !.at = Empty(p.at[1])]
                 IN  Post(q, "skipping", OfStep("step_skipped", q))
      [] p.pc = "leaving" -> Complete(p, IF p.term THEN "timed_out" ELSE "failure")
      [] p.pc = "reporting" ->
            [NewPod EXCEPT !.pc = IF ok /\ p.report.conclusion \in {"success", "aborted"}
                                  THEN "exited" ELSE "failed"]
      [] OTHER -> p

\* The kubelet starts the pod. Checkouts come first; without them the run says so and ends.
PodStart(j) ==
    /\ pod[j].pc = "pending"
    /\ \/ pod' = [pod EXCEPT ![j] = StartEntry(pod[j], 1)]
       \/ pod' = [pod EXCEPT ![j] = Post(pod[j], "leaving", NoEvent)]
    /\ UNCHANGED <<row, expiring, faults>>

\* collectCompletionMetadata: the verdict of a case is kept apart from that of a step.
Collected(p, verdict) ==
    CASE verdict = "none" -> p
      [] verdict # "none" /\ InCase(p) -> [p EXCEPT !.case = verdict]
      [] OTHER -> [p EXCEPT !.verdict = verdict]

\* The step's process ends, with or without an output and a verdict; SIGTERM kills it. A
\* key this runner has set before is an error before any call.
Execute(j, exit, key, verdict) ==
    LET p == pod[j]
        ran == [Collected(p, verdict) EXCEPT !.exit = IF key \in p.outs THEN "error" ELSE exit]
    IN  /\ p.pc = "executing"
        /\ p.term => exit = "error"
        /\ pod' = [pod EXCEPT ![j] =
               IF key = "none" \/ key \in p.outs THEN Judge(ran)
               ELSE Post(ran, "publishing",
                         [OfStep("phase_output_set", p) EXCEPT !.key = key])]
        /\ UNCHANGED <<row, expiring, faults>>

\* runDynamicStepBlock: the cases an earlier step has published, or an error.
PlanCases(j) ==
    /\ pod[j].pc = "planning"
    /\ \/ \E n \in 0 .. MaxItems :
             LET p == [pod[j] EXCEPT !.cases = n]
             IN  pod' = [pod EXCEPT ![j] =
                     Post(p, "expanding",
                          [OfStep("dynamic_group_expanded", p) EXCEPT !.count = n])]
       \/ pod' = [pod EXCEPT ![j] = Fail(pod[j])]
    /\ UNCHANGED <<row, expiring, faults>>

-----------------------------------------------------------------------------
(* The server's side of a call, and what can happen to it on the way.        *)

Pending(p) == p.pc \in Calling /\ ~p.dead
IsReport(p) == p.pc = "reporting"
Agrees(j) == IF IsReport(pod[j]) THEN Accepts(row, j, pod[j].report)
             ELSE ~Rejected(row, pod[j].event)
RowAfter(j) == IF IsReport(pod[j]) THEN RecordReport(row, j, pod[j].report)
               ELSE IF Agrees(j) THEN ApplyEvent(row, j, pod[j].event) ELSE row

\* RecordRunnerEventByID, or RecordRunnerJobCompletion, and its answer.
Handle(j) ==
    /\ Pending(pod[j])
    /\ row' = RowAfter(j)
    /\ pod' = [pod EXCEPT ![j] = AfterReply(@, Agrees(j))]
    /\ UNCHANGED <<expiring, faults>>

\* The call fails for the runner: before the server has done it, or after.
Lose(j) ==
    /\ faults < MaxFaults /\ faults' = faults + 1
    /\ Pending(pod[j])
    /\ row' \in {row, RowAfter(j)}
    /\ pod' = [pod EXCEPT ![j] = AfterReply(@, FALSE)]
    /\ UNCHANGED expiring

\* SIGTERM, and the end of a call whose context it has cancelled.
Terminate(j) ==
    /\ faults < MaxFaults /\ faults' = faults + 1
    /\ pod[j].pc \in Calling \cup Working /\ ~pod[j].term
    /\ pod' = [pod EXCEPT ![j].term = TRUE]
    /\ UNCHANGED <<row, expiring>>
Cancelled(j) ==
    /\ pod[j].pc \in Calling \ {"leaving"} /\ pod[j].term
    /\ IsReport(pod[j]) => pod[j].report.conclusion # "timed_out"
    /\ pod' = [pod EXCEPT ![j] = AfterReply(@, FALSE)]
    /\ UNCHANGED <<row, expiring, faults>>

\* SIGKILL, the node's loss, the OOM killer; a call on its way may still be done.
Kill(j) ==
    /\ faults < MaxFaults /\ faults' = faults + 1
    /\ pod[j].pc \in Calling \cup Working
    /\ row' \in {row, IF Pending(pod[j]) THEN RowAfter(j) ELSE row}
    /\ pod' = [pod EXCEPT ![j] = [NewPod EXCEPT !.pc = "killed"]]
    /\ UNCHANGED expiring

-----------------------------------------------------------------------------
(* The watcher and the reconciler.                                           *)

\* deriveTerminalFromStatus and evaluateActiveJobFailure: a pod that ended well without
\* a report is callback_lost, one that did not has used up its backoff limit.
Silent(j, by) == [conclusion |-> IF pod[j].pc = "exited" THEN "failed" ELSE "timed_out",
                  verdict |-> "none", outs |-> {}, by |-> by]

\* Mutant: only jobs the row shows active.
WatchActive(j) ==
    /\ pod[j].pc \in Stopped /\ row.jobs[j] = "active"
    /\ row' = RecordReport(row, j, Silent(j, "watcher"))
    /\ UNCHANGED <<pod, expiring, faults>>
\* dispatchOuterTerminal, from the watch or the list that follows each of its ends.
Watch(j) ==
    /\ pod[j].pc \in Stopped /\ ~Reported(row, j)
    /\ row' = RecordReport(row, j, Silent(j, "watcher"))
    /\ UNCHANGED <<pod, expiring, faults>>

\* ExpireFailedActiveJobs: active jobs of active phases only.
ExpireFailedActive(j) ==
    /\ row.phase = "active" /\ row.jobs[j] = "active"
    /\ pod[j].pc \in Stopped /\ ~Reported(row, j)
    /\ row' = RecordReport(row, j, Silent(j, "sweep"))
    /\ UNCHANGED <<pod, expiring, faults>>

\* ExpireRunDispatchTimeouts: the jobs of a phase no event has come from, then their
\* reports one by one; an error ends the sweep.
ExpireDispatch ==
    /\ row.phase = "dispatching" /\ expiring = {}
    /\ expiring' = {j \in JobIds : row.jobs[j] \in {"dispatching", "active"}}
    /\ expiring' # {}
    /\ UNCHANGED <<row, pod, faults>>
ExpireJob(j) ==
    LET report == [NoReport EXCEPT !.conclusion = "timed_out", !.by = "sweep"]
    IN  /\ j \in expiring
        /\ row' = RecordReport(row, j, report)
        /\ expiring' = IF Accepts(row, j, report) THEN expiring \ {j} ELSE {}
        /\ UNCHANGED <<pod, faults>>

Runner(j) == \/ PlanCases(j) \/ Cancelled(j) \/ Handle(j)
             \/ \E result \in Results : Execute(j, result[1], result[2], result[3])
Next == \/ \E j \in JobIds : \/ PodStart(j) \/ Runner(j) \/ Lose(j) \/ Terminate(j) \/ Kill(j)
                             \/ Watch(j) \/ ExpireFailedActive(j) \/ ExpireJob(j)
        \/ ExpireDispatch
Spec == Init /\ [][Next]_vars

\* The kubelet starts pods, steps end (at the latest at the pod's deadline), the server
\* answers and the reconciler sweeps every hour.
Sweeping ==
    /\ WF_vars(ExpireDispatch)
    /\ \A j \in JobIds : WF_vars(PodStart(j)) /\ WF_vars(Runner(j))
                          /\ WF_vars(ExpireFailedActive(j)) /\ WF_vars(ExpireJob(j))

\* The watcher lists the Jobs again whenever its stream ends, every ten minutes at most.
FairSpec == Spec /\ Sweeping /\ \A j \in JobIds : WF_vars(Watch(j))

-----------------------------------------------------------------------------
\* What the jobs of a phase owe it, whichever calls are lost and however their pods end.

\* A step that asks for the run to be aborted is not forgotten: its job never reports
\* success, whatever happens to the events that say so (runStep, requestedAbortReason).
AbortIsReported ==
    \A j \in JobIds : row.outputs[Abort] = j => row.reports[j].conclusion # "success"

Earlier(s, t) == \/ s[1] < t[1]
                 \/ s[1] = t[1] /\ s[2] < t[2]

\* No step starts after one of its job that failed or asked for an abort, in the entries
\* of the plan and in the cases of a group alike (run, runDynamicStepBlock).
FailClosed ==
    [][\A j \in JobIds, s, t \in Slugs :
          Earlier(s, t) /\ row.steps[j][s] \in {"failed", "aborted"}
          /\ row'.steps[j][t] = "active" => row.steps[j][t] = "active"]_vars

\* Every job is reported in the end, by its runner or for it (run, completeShutdown,
\* dispatchOuterTerminal), so a phase never waits for ever.
EveryJobReports == \A j \in JobIds : <>Reported(row, j)
=============================================================================
