------------------------------ MODULE PhaseRow ------------------------------
(***************************************************************************)
(* What the store keeps of one attempt of one phase while its jobs run: the*)
(* states the run graph shows (phase_executions), the outputs published by *)
(* the steps (phase_outputs) and the jobs' reports (job_completions), with *)
(* the two writers of that row, a runner event and a job's completion.     *)
(***************************************************************************)
EXTENDS Integers, Sequences

CONSTANTS
    JobIds,     \* the jobs of the phase
    Plan,       \* the entries of a job: "run" (one step) or "group" (a dynamic group)
    Keys,       \* the output keys the steps may set
    MaxItems    \* max_items of the dynamic groups

Abort == "abort_reason"   \* decision.AbortReasonOutputKey
Nobody == "nobody"

ASSUME PlanAssumption == Plan \in Seq({"run", "group"}) /\ MaxItems \in Nat
ASSUME NamesAssumption == Abort \in Keys /\ Nobody \notin JobIds

NoReport == [conclusion |-> "none", verdict |-> "none", outs |-> {}, by |-> "nobody"]

\* A step's slug: the entry of the plan and 0, the number of a case of a group, or, for
\* the step that stands for an empty group, MaxItems + 1.
Slugs == (DOMAIN Plan) \X (0 .. MaxItems + 1)
Declared(slug) == slug[2] = 0
Empty(i) == <<i, MaxItems + 1>>
CasesOf(i, n) == {<<i, c>> : c \in 1 .. n}

Verdicts == {"none", "pass", "fail"}

\* markPhaseDispatchingRaw on the rows the workflow's registration laid out.
DispatchedRow ==
    [phase |-> "dispatching", jobs |-> [j \in JobIds |-> "dispatching"],
     steps |-> [j \in JobIds |->
                   [s \in Slugs |-> IF Declared(s) THEN "not_started" ELSE "absent"]],
     outputs |-> [k \in Keys |-> Nobody], reports |-> [j \in JobIds |-> NoReport]]

Started(state) == IF state = "dispatching" THEN "active" ELSE state

\* applyDynamicGroupExpandedToSteps: the template gives way to the planned cases.
Expanded(steps, i, n) ==
    [s \in Slugs |->
        CASE s = <<i, 0>> -> "absent"
          [] s \in CasesOf(i, n) /\ steps[s] = "absent" -> "not_started"
          [] s = Empty(i) /\ n = 0 -> "skipped"
          [] OTHER -> steps[s]]

\* What an event makes of the state of the step it names, which is put into the row first
\* when it is not there (ensureRunnerEventStep).
StepAfter(e, state) ==
    LET found == IF state = "absent" THEN "not_started" ELSE state
    IN  CASE e.kind = "step_started" -> IF found = "not_started" THEN "active" ELSE found
          [] e.kind = "step_completed" -> "succeeded"
          [] e.kind = "step_skipped" -> "skipped"
          [] e.kind = "step_failed" -> "failed"
          [] e.kind = "step_aborted" -> "aborted"
          [] OTHER -> found
EndsJob(e) == e.kind \in {"step_failed", "step_aborted"}
NamesStep(e) == e.kind \notin {"dynamic_group_expanded", "other"}

\* What an event makes of the steps of its job.
StepsAfterEvent(e, steps) ==
    CASE e.kind = "dynamic_group_expanded" -> Expanded(steps, e.slug[1], e.count)
      [] NamesStep(e) -> [steps EXCEPT ![e.slug] = StepAfter(e, @)]
      [] OTHER -> steps

\* An output is published once in an attempt, by whichever job comes first.
Rejected(row, e) == e.kind = "phase_output_set" /\ row.outputs[e.key] # Nobody

\* applyRunnerEventToExecutionsRaw and applyRunnerPhaseOutputSetRaw, for one job's event.
ApplyEvent(row, j, e) ==
    [row EXCEPT
        !.phase = IF EndsJob(e) THEN "failed" ELSE Started(@),
        !.jobs[j] = IF EndsJob(e) THEN "failed" ELSE Started(@),
        !.steps[j] = StepsAfterEvent(e, @),
        !.outputs = IF e.kind = "phase_output_set" THEN [@ EXCEPT ![e.key] = j] ELSE @]

\* genericRunnerJobStateAndReason: a verdict decides before the conclusion does.
JobState(report) ==
    IF report.verdict # "none" THEN IF report.verdict = "pass" THEN "succeeded" ELSE "failed"
    ELSE IF report.conclusion = "success" THEN "succeeded" ELSE "failed"

StepsAfterReport(steps, state) ==
    [s \in Slugs |->
        CASE state = "succeeded" /\ steps[s] \in {"active", "not_started"} -> "succeeded"
          [] state = "failed" /\ steps[s] = "active" -> "failed"
          [] OTHER -> steps[s]]

Ended(state) == state \in {"succeeded", "failed"}

\* markJobCompletionInExecutionsRaw: the job, its steps and, with the last job, the phase.
MarkCompletion(row, j, state) ==
    LET jobs == [row.jobs EXCEPT ![j] = state]
    IN  [row EXCEPT
            !.jobs = jobs,
            !.steps[j] = StepsAfterReport(@, state),
            !.phase = IF \E i \in JobIds : ~Ended(jobs[i]) THEN @
                      ELSE IF \E i \in JobIds : jobs[i] = "failed" THEN "failed"
                      ELSE "succeeded"]

\* validateRunnerPhaseOutputKeys: the keys of a report against those of the others.
KeysFree(row, report) == \A i \in JobIds : row.reports[i].outs \cap report.outs = {}

\* RecordRunnerJobCompletion: the first report of a job stands; the same one again is
\* accepted, another is a conflict.
Accepts(row, j, report) ==
    IF row.reports[j] = NoReport THEN KeysFree(row, report) ELSE row.reports[j] = report
Reported(row, j) == row.reports[j] # NoReport
RecordReport(row, j, report) ==
    IF Reported(row, j) \/ ~KeysFree(row, report) THEN row
    ELSE MarkCompletion([row EXCEPT !.reports[j] = report], j, JobState(report))
=============================================================================
