------------------------------ MODULE RunLedger ------------------------------
(***************************************************************************)
(* The execution ledger of a run cycle, phase_executions of its row, across*)
(* its phases: what the store's mutators write into it beside the attempts *)
(* they append and complete, and how the end of a run closes it.  PhaseRow *)
(* has the rows of one phase with the steps of its groups in full; here the*)
(* phases share the ledger and a step is one of the few the graph tells  *)
(* apart.                                                                  *)
(***************************************************************************)
EXTENDS Naturals, Sequences, FiniteSets, FiniteSetsExt

CONSTANTS JobsOf,     \* the jobs of each phase, in the order of the workflow
          Gate,       \* the phase that waits for the reviewer
          Entries,    \* where a dispatch or a retry may start
          Verify,     \* the phases whose verdict decides over their jobs
          Cleanup,    \* the phases that run after a failure too
          Dynamic     \* the jobs whose step is the template of a group

VARIABLES run,        \* state, reason and attempts of the row
          executions      \* phase_executions

ledgerVars == <<run, executions>>

Phases == DOMAIN JobsOf
Why == {"dispatch", "other"}              \* canonicalExecutionFailureReason
Synthesized == {"dispatch", "verdict"}    \* the steps no runner has
Slugs == {"work", "case", "empty"} \cup Synthesized

In(state) == [state |-> state, reason |-> "none"]
Because(state, reason) == [state |-> state, reason |-> reason]
Absent == In("absent")
Open == {"dispatching", "active"}

Planned(state) == [s \in Slugs |-> IF s = "work" THEN In(state) ELSE Absent]
NewPhase(p, state) ==
  [state |-> state, reason |-> "none",
   jobs |-> [j \in JobsOf[p] |-> [state |-> state, reason |-> "none", steps |-> Planned(state)]]]

\* phaseExecutionDocsFromWorkflowWithSupplied
Laid(entry, supplied) ==
  [p \in Phases |-> NewPhase(p, IF p \in supplied THEN "supplied"
                                ELSE IF p < entry THEN "skipped" ELSE "not_started")]

-----------------------------------------------------------------------------
\* The steps and jobs of one phase.

\* markPhaseDispatchingRaw: only jobs that have not started are dispatched.
DispatchedPhase(ph) ==
  [ph EXCEPT !.state = "dispatching", !.reason = "none",
             !.jobs = [j \in DOMAIN @ |-> IF @[j].state = "not_started"
                                          THEN [@[j] EXCEPT !.state = "dispatching", !.reason = "none"]
                                          ELSE @[j]]]

\* markPhaseReviewRequiredRaw
ParkedPhase(ph) ==
  LET back(x) == IF x.state \in Open THEN In("not_started") ELSE In(x.state) IN
  [ph EXCEPT !.state = "active", !.reason = "none",
             !.jobs = [j \in DOMAIN @ |->
                 [state |-> back(@[j]).state, reason |-> "none",
                  steps |-> [s \in Slugs |-> back(@[j].steps[s])]]]]

\* markPhaseCanceledRaw
CanceledPhase(ph) ==
  LET off(state) == IF state \in Open \cup {"not_started"} THEN "aborted" ELSE state IN
  [ph EXCEPT !.state = "aborted", !.reason = "other",
             !.jobs = [j \in DOMAIN @ |->
                 [@[j] EXCEPT !.state = off(@),
                              !.steps = [s \in Slugs |-> [@[s] EXCEPT !.state = off(@)]]]]]

\* RecordRunnerStepsSkipped, of every job of the phase
StepsSkipped(ph) ==
  [ph EXCEPT !.jobs = [j \in DOMAIN @ |-> [@[j] EXCEPT !.steps["work"] = Because("skipped", "other")]]]

\* applyDynamicGroupExpandedToSteps
ExpandedSteps(steps, n) ==
  [steps EXCEPT !["work"] = Absent,
                !["case"] = IF n > 0 /\ @ = Absent THEN In("not_started") ELSE @,
                !["empty"] = IF n = 0 THEN In("skipped") ELSE @]

\* ensureRunnerEventStep and what the event makes of the step.
StepUpon(e, step) ==
  LET found == IF step = Absent THEN In("not_started") ELSE step IN
  CASE e.kind = "started" /\ found.state = "not_started" -> In("active")
    [] e.kind = "completed" -> In("succeeded")
    [] e.kind = "skipped" -> Because("skipped", found.reason)
    [] e.kind = "failed" -> Because("failed", "exit_nonzero")
    [] e.kind = "aborted" -> Because("aborted", "other")
    [] OTHER -> found

\* applyRunnerEventToExecutionsRaw
EventPhase(ph, j, e) ==
  LET wake(state) == IF state \in {"dispatching", "not_started"} THEN "active" ELSE state
      awake == [ph EXCEPT !.state = wake(@), !.jobs[j].state = wake(@)]
  IN CASE e.kind = "expanded" -> [awake EXCEPT !.jobs[j].steps = ExpandedSteps(@, e.count)]
       [] e.kind \in {"failed", "aborted"} ->
            [awake EXCEPT !.state = "failed", !.reason = "job_failed",
                          !.jobs[j].state = "failed", !.jobs[j].reason = "step_" \o e.kind,
                          !.jobs[j].steps[e.slug] = StepUpon(e, @)]
       [] OTHER -> [awake EXCEPT !.jobs[j].steps[e.slug] = StepUpon(e, @)]

\* runnerJobExecutionStateAndReason
Outcome(report) ==
  CASE report = "success" -> In("succeeded")
    [] report = "skipped" -> Because("skipped", "other")
    [] report = "failure" -> Because("failed", "job_failed")
    [] report = "verdict" -> Because("failed", "verification_failed")

\* markJobCompletionInExecutionsRaw
CompletedSteps(steps, o) ==
  [s \in Slugs |->
     CASE o.state = "succeeded" /\ steps[s].state \in {"active", "not_started"} -> In("succeeded")
       [] o.state = "failed" /\ steps[s].state \in Open -> o
       [] o.state = "skipped" /\ steps[s].state = "not_started" -> o
       [] OTHER -> steps[s]]
CompletedPhase(ph, j, o) ==
  LET jobs == [ph.jobs EXCEPT ![j] = [state |-> o.state, reason |-> o.reason,
                                      steps |-> CompletedSteps(@.steps, o)]]
      states == {jobs[i].state : i \in DOMAIN jobs}
      done == [ph EXCEPT !.jobs = jobs]
  IN IF ~(states \subseteq {"succeeded", "failed", "skipped"}) THEN done
     ELSE IF "failed" \in states THEN [done EXCEPT !.state = "failed", !.reason = "job_failed"]
     ELSE [done EXCEPT !.state = "succeeded", !.reason = "none"]

-----------------------------------------------------------------------------
\* The end of a run, finalizeExecutionFailureRaw.

\* dispatchFailureStepsRaw: the dispatch owns the failure, and nothing ran.
OwnedSteps(steps, why) ==
  [s \in Slugs |->
     IF s = "dispatch" THEN Because("failed", why)
     ELSE IF steps[s].state \in {"failed", "aborted", "skipped"} THEN In("not_started") ELSE steps[s]]

\* ownDispatchFailureJobsRaw
OwnedPhase(ph, why) ==
  IF why # "dispatch" THEN ph
  ELSE [ph EXCEPT !.reason = IF @ = "none" THEN why ELSE @,
                  !.jobs = [j \in DOMAIN @ |->
                      IF @[j].state \in Open \cup {"succeeded"} THEN @[j]
                      ELSE [state |-> "failed", reason |-> why, steps |-> OwnedSteps(@[j].steps, why)]]]

FailedPhase(ph, of, why) ==
  [ph EXCEPT !.state = "failed", !.reason = why,
             !.jobs = [j \in DOMAIN @ |-> IF @[j].state \in of
                                          THEN [@[j] EXCEPT !.state = "failed", !.reason = why] ELSE @[j]]]

SkippedPhase(ph) ==
  LET off(x) == IF x.state = "not_started" THEN [x EXCEPT !.state = "skipped"] ELSE x IN
  [ph EXCEPT !.state = "skipped",
             !.jobs = [j \in DOMAIN @ |->
                 IF @[j].state # "not_started" THEN @[j]
                 ELSE [@[j] EXCEPT !.state = "skipped", !.steps = [s \in Slugs |-> off(@[s])]]]]

\* The phases that fail with the run: those that failed and those that were open, or
\* the first that is neither skipped nor done.
Failing(rows) ==
  LET hit == {p \in Phases : rows[p].state \in Open \cup {"failed"}}
      rest == {p \in Phases : rows[p].state \notin {"skipped", "succeeded"}}
  IN IF hit # {} THEN hit ELSE IF rest # {} THEN {Min(rest)} ELSE {}

\* Mutant: the phases that are open stay as they are.
FinalizedFailed(rows, why) ==
  [p \in Phases |-> IF rows[p].state = "failed" THEN OwnedPhase(rows[p], why) ELSE rows[p]]
Finalized(rows, why) ==
  [p \in Phases |->
     LET ph == rows[p] IN
     IF p \in Failing(rows) THEN
       CASE ph.state = "failed" -> OwnedPhase(ph, why)
         [] ph.state \in Open -> OwnedPhase(FailedPhase(ph, Open, why), why)
         [] OTHER -> OwnedPhase(FailedPhase(ph, {"not_started"}, why), why)
     ELSE IF ph.state = "not_started" /\ \E q \in Failing(rows) : q < p THEN SkippedPhase(ph)
     ELSE ph]

-----------------------------------------------------------------------------
\* The row's mutators, each one transaction.

Nothing == [class |-> "none", phase |-> 0, job |-> "none"]
NewAttempt(p, carry) ==
  [phase |-> p, carry |-> carry, pods |-> "none",
   state |-> IF carry THEN "succeeded" ELSE "dispatching",
   reports |-> [j \in JobsOf[p] |-> "none"], events |-> [j \in JobsOf[p] |-> <<>>]]
Latest == Len(run.attempts)
Done(i) == run.attempts[i].state # "dispatching"
OfPhase(attempts, p) == {i \in DOMAIN attempts : attempts[i].phase = p}
Reports(i) == run.attempts[i].reports
InPhase(p, phase) == executions' = [executions EXCEPT ![p] = phase]

\* CreateRun, or CreateRecycleCycle at the phase the retry lands at, with the attempts
\* before it carried forward.
Create(entry, supplied, carried) ==
  /\ run = [state |-> "queued", entry |-> entry, why |-> "none", cause |-> Nothing, ended |-> 0,
            attempts |-> [p \in 1 .. (IF carried THEN entry - 1 ELSE 0) |-> NewAttempt(p, TRUE)]]
  /\ executions = Laid(entry, supplied)

Appended(p) == Append(run.attempts, NewAttempt(p, FALSE))

\* StartRunCycle
StartCycle(entry) ==
  /\ run.state = "queued"
  /\ \A i \in DOMAIN run.attempts : run.attempts[i].carry
  /\ run' = [run EXCEPT !.state = "in_progress", !.attempts = Appended(entry)]
  /\ InPhase(entry, DispatchedPhase(executions[entry]))

\* AppendRunAttempt, for the next phase or, once one has failed or the run has ended, a
\* cleanup phase.  It does not look at the state of the run.
Failed == \E i \in DOMAIN run.attempts : run.attempts[i].state = "failed"
Follows(p) ==
  /\ Latest > 0 /\ p > run.attempts[Latest].phase
  /\ IF Done(Latest) /\ ~Failed THEN p = run.attempts[Latest].phase + 1 ELSE p \in Cleanup
AppendAttempt(p) ==
  /\ p # Gate /\ Follows(p)
  /\ Done(Latest) \/ run.state = "aborted"
  /\ run' = [run EXCEPT !.attempts = Appended(p)]
  /\ InPhase(p, DispatchedPhase(executions[p]))

Fresh(i) ==
  /\ ~Done(i) /\ run.attempts[i].pods = "none" /\ run.attempts[i].phase # Gate
  /\ \A j \in DOMAIN Reports(i) : Reports(i)[j] = "none"

\* LaunchPhase.  Where it fails there are no pods, and an abort by the dispatch follows.
DispatchFailed == run.state = "aborted" /\ run.why = "dispatch" /\ Latest = run.ended
Launch ==
  /\ Latest > 0 /\ ~Done(Latest) /\ run.attempts[Latest].pods = "none" /\ ~DispatchFailed
  /\ run' = [run EXCEPT !.attempts[Latest].pods = "running"]
  /\ UNCHANGED executions

\* StampLatestAttemptSkipped: the ledger is left alone.
StampSkipped ==
  /\ Latest > 0 /\ Fresh(Latest)
  /\ run' = [run EXCEPT !.attempts[Latest].state = "skipped"]
  /\ UNCHANGED executions

\* RecordRunnerJobsSkipped, of some of the phase's jobs
SkipJob(j) ==
  /\ Latest > 0 /\ Fresh(Latest)
  /\ j \in DOMAIN Reports(Latest) /\ Cardinality(DOMAIN Reports(Latest)) > 1
  /\ run' = [run EXCEPT !.attempts[Latest].reports[j] = "skipped"]
  /\ InPhase(run.attempts[Latest].phase, CompletedPhase(executions[run.attempts[Latest].phase], j, Outcome("skipped")))

\* RecordRunnerStepsSkipped: the steps a synthetic dispatch leaves out.
SkipSteps ==
  /\ Latest > 0 /\ Fresh(Latest)
  /\ InPhase(run.attempts[Latest].phase, StepsSkipped(executions[run.attempts[Latest].phase]))
  /\ UNCHANGED run

\* RunEventsStore.Insert: an event is kept once, after those of its job before it.
Recorded(i, j, e) == run' = [run EXCEPT !.attempts[i].events[j] = Append(@, e)]

\* RecordRunnerEvent, which may come late.  Insert and apply are two statements of one
\* request; a reader sees the events of after its row.
Event(i, j, e) ==
  /\ Recorded(i, j, e)
  /\ InPhase(run.attempts[i].phase, EventPhase(executions[run.attempts[i].phase], j, e))

\* RecordRunnerJobCompletion, by the runner or by a sweep
Report(i, j, report) ==
  /\ ~Done(i) /\ Reports(i)[j] = "none"
  /\ run' = [run EXCEPT !.attempts[i].reports[j] = report]
  /\ InPhase(run.attempts[i].phase, CompletedPhase(executions[run.attempts[i].phase], j, Outcome(report)))

\* StampRunCompletion with what the reports make of the phase
Stamp(i) ==
  LET all == {Reports(i)[j] : j \in DOMAIN Reports(i)} IN
  /\ ~Done(i) /\ "none" \notin all
  /\ run' = [run EXCEPT !.attempts[i].state = IF all \subseteq {"success", "skipped"} THEN "succeeded"
                                              ELSE "failed"]
  /\ UNCHANGED executions

\* ParkRunAtReviewGate, ReleaseReviewGate and CancelReviewGate
Park ==
  /\ run.state = "in_progress" /\ Follows(Gate) /\ Done(Latest)
  /\ run' = [run EXCEPT !.state = "review_required",
                        !.attempts = Append(@, [NewAttempt(Gate, FALSE) EXCEPT !.pods = "parked"])]
  /\ InPhase(Gate, ParkedPhase(executions[Gate]))
Parked == run.state = "review_required" /\ ~Done(Latest)
ReleaseGate ==
  /\ Parked
  /\ run' = [run EXCEPT !.state = "in_progress", !.attempts[Latest].pods = "none"]
  /\ InPhase(Gate, DispatchedPhase(executions[Gate]))
CancelGate ==
  /\ Parked
  /\ run' = [run EXCEPT !.state = "in_progress", !.attempts[Latest].state = "failed"]
  /\ InPhase(Gate, CanceledPhase(executions[Gate]))

\* terminalObservationForRun: why the run ended, from the row as it was before.
Cause(class, p, j) == [class |-> class, phase |-> p, job |-> j]
FailedReports(i) == {j \in DOMAIN Reports(i) : Reports(i)[j] \in {"failure", "verdict"}}

CauseAttempt ==      \* terminalCauseAttempt: a failed clean-up is never the cause
  {i \in DOMAIN run.attempts : run.attempts[i].state = "failed" /\ run.attempts[i].phase \notin Cleanup}

\* dispatchFailureObservationForRun: a phase the ledger has as failed by its dispatch.
NotDispatched == {p \in Phases : executions[p].state = "failed" /\ executions[p].reason = "dispatch"}

\* dispatchFailureJobForPhase: a job that was not dispatched, or any job of the phase.
NotDispatchedJob(p) ==
  LET owned == {j \in JobsOf[p] : executions[p].jobs[j].state = "failed" /\
                                  executions[p].jobs[j].reason = "dispatch"} IN
  CHOOSE j \in JobsOf[p] : owned # {} => j \in owned

Observation(why) ==
  LET i == Max(CauseAttempt)
      p == run.attempts[i].phase
  IN IF CauseAttempt = {} THEN Cause("manual_abort", 0, "none")
     ELSE IF FailedReports(i) # {} THEN Cause("phase_failed", p, CHOOSE j \in FailedReports(i) : TRUE)
     ELSE IF why = "dispatch" /\ NotDispatched # {}
     THEN LET q == Min(NotDispatched) IN Cause("dispatch_failed", q, NotDispatchedJob(q))
     ELSE Cause("malformed_terminal", p, "none")

\* AbortRunByID and SetRunTerminalState: an abort closes the ledger.  It may come at any
\* time, and again once what was dispatched after it is done.  ended is where it found
\* the attempts, for the properties only.
Abort(why) ==
  /\ \/ run.state \in {"queued", "in_progress", "review_required"}
     \/ run.state = "aborted" /\ Latest > run.ended /\ Done(Latest)
  /\ why = "dispatch" => Latest > 0 /\ (Done(Latest) \/ run.attempts[Latest].pods = "none")
  /\ run' = [run EXCEPT !.state = "aborted", !.why = why, !.cause = Observation(why),
                        !.ended = Latest]
  /\ executions' = Finalized(executions, why)
\* RepairRunTerminalObservation: the cause again, from the row as it has become.
Repair ==
  /\ run.state = "aborted"
  /\ run' = [run EXCEPT !.cause = Observation(run.why)]
  /\ UNCHANGED executions
Pass ==
  /\ run.state = "in_progress" /\ Latest > 0 /\ Done(Latest) /\ ~Failed
  /\ run.attempts[Latest].phase = Len(JobsOf)
  /\ run' = [run EXCEPT !.state = "passed"]
  /\ UNCHANGED executions
=============================================================================
