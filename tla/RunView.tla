------------------------------- MODULE RunView -------------------------------
(***************************************************************************)
(* What the run graph shows of a run cycle (graph_api.go): a projection of *)
(* the ledger and of the attempts, and over it the runner's events, which *)
(* are read by a later query than the row.                                 *)
(***************************************************************************)
EXTENDS RunLedger, SequencesExt

CONSTANTS Origins,   \* how the cycle came about: "fresh", "carried" or "supplied"
          MaxEvents  \* events the runners send in all

VARIABLE reader     \* one request for the graph: idle, its row, or what it was shown

viewVars == <<run, executions, reader>>

NotReading == [pc |-> "idle"]

\* ensureFailedJobOwnerStep: a job that failed has a failed step that says why.
WithSteps(job, steps) == [state |-> job.state, reason |-> job.reason, steps |-> steps]
WithOwner(job, neverRan) ==
  IF job.state \notin {"failed", "aborted"} \/ \E s \in Slugs : job.steps[s].state = "failed"
  THEN job
  ELSE IF neverRan /\ job.reason = "dispatch"
  THEN WithSteps(job, OwnedSteps(job.steps, "dispatch"))
  ELSE LET verdict == Because("failed", IF job.reason = "none" THEN "job_failed" ELSE job.reason)
       IN  WithSteps(job, [s \in Slugs |-> IF s = "verdict" THEN verdict ELSE job.steps[s]])

\* runProjectionPhasesFromExecutions: a phase of the row with its latest attempt.
HasAttempt(r, p) == OfPhase(r.attempts, p) # {}
LatestOf(r, p) == r.attempts[Max(OfPhase(r.attempts, p))]
Completed(r, p) ==
  IF HasAttempt(r, p) THEN {j \in JobsOf[p] : LatestOf(r, p).reports[j] # "none"} ELSE {}

\* projectionExecutionReason
PhaseReason(r, p, ph) ==
  IF ph.state = "failed" /\ ~HasAttempt(r, p) /\ r.why = "dispatch" THEN "dispatch" ELSE ph.reason

\* applyUndispatchedPhaseReason
Undispatched(r, p, job, why) ==
  IF ~HasAttempt(r, p) /\ job.state = "failed" /\ job.reason \in {"none", "job_failed"} /\ why # "none"
  THEN [job EXCEPT !.reason = why] ELSE job

\* applyDispatchFailureOwnership
DispatchOwned(job, completed) ==
  IF completed \/ job.state \in Open \cup {"succeeded"} THEN job
  ELSE [job EXCEPT !.state = "failed", !.reason = "dispatch"]

\* runProjectionJobsForExecution
ShownJobs(r, p, ph) ==
  LET why == PhaseReason(r, p, ph)
      done(j) == j \in Completed(r, p)
      own(j, job) == IF ph.state = "failed" /\ why = "dispatch" THEN DispatchOwned(job, done(j)) ELSE job
  IN [j \in JobsOf[p] |-> WithOwner(own(j, Undispatched(r, p, ph.jobs[j], why)), ~done(j))]

\* applyCarryForwardProjection: a phase the retry skipped shows the success it stands on.
CarriedOver(ph) ==
  LET on(x) == [x EXCEPT !.state = IF @ = "skipped" THEN "succeeded" ELSE @,
                         !.reason = IF @ = "none" THEN "carried_forward" ELSE @] IN
  [state |-> "succeeded", reason |-> "carried_forward",
   jobs |-> [j \in DOMAIN ph.jobs |->
                [on(ph.jobs[j]) EXCEPT !.steps = [s \in Slugs |-> IF @[s] = Absent THEN Absent
                                                                  ELSE on(@[s])]]]]

\* projectionPhaseFromExecution
ShownPhase(r, p, ph) ==
  LET shown == [state |-> ph.state, reason |-> PhaseReason(r, p, ph), jobs |-> ShownJobs(r, p, ph)] IN
  IF ph.state = "skipped" /\ HasAttempt(r, p) /\ LatestOf(r, p).carry /\ LatestOf(r, p).state = "succeeded"
  THEN CarriedOver(shown) ELSE shown

-----------------------------------------------------------------------------
\* applyRunnerEventsToProjectionRun

Overlaid(job, e) ==
  IF e.kind = "expanded" THEN [job EXCEPT !.steps = ExpandedSteps(@, e.count)]
  ELSE LET step == IF job.steps[e.slug] = Absent THEN In("not_started") ELSE job.steps[e.slug]
           to(state) == [job EXCEPT !.steps[e.slug] = [step EXCEPT !.state = state]]
       IN CASE e.kind = "started" /\ step.state \notin {"succeeded", "failed", "skipped"} -> to("active")
            [] e.kind = "completed" -> to("succeeded")
            [] e.kind = "skipped" -> to("skipped")
            [] e.kind = "failed" ->
                 [job EXCEPT !.steps[e.slug] = Because("failed", "exit_nonzero"),
                             !.state = "failed", !.reason = "step_failed"]
            [] OTHER -> to(step.state)

\* resetUnobservedFailedSteps
Reset(job, observed) ==
  IF observed = {} THEN job
  ELSE [job EXCEPT !.steps = [s \in Slugs |->
          IF s \notin observed \cup Synthesized /\ @[s].state = "failed" /\ @[s].reason \in {"none", "job_failed"}
          THEN In("not_started") ELSE @[s]]]

OverlaidJob(job, events) ==
  IF events = <<>> THEN job
  ELSE LET awake == IF job.state \in {"dispatching", "not_started"}
                    THEN [job EXCEPT !.state = "active"] ELSE job
       IN Reset(FoldLeft(Overlaid, awake, events),
                {events[i].slug : i \in DOMAIN events} \ {"none"})

\* Mutant: the owner of a failure is established before the events only.
OverlaidAlone(ph, events) == [ph EXCEPT !.jobs = [j \in DOMAIN @ |-> OverlaidJob(@[j], events[j])]]
OverlaidPhase(ph, events) ==
  LET jobs == [j \in DOMAIN ph.jobs |-> OverlaidJob(ph.jobs[j], events[j])]
      fails == \E j \in DOMAIN jobs : \E i \in DOMAIN events[j] : events[j][i].kind = "failed"
      active == \E j \in DOMAIN jobs : events[j] # <<>> /\ jobs[j].state = "active"
  IN [state |-> IF ph.state = "failed" \/ fails THEN "failed"
                ELSE IF ph.state = "dispatching" /\ active THEN "active" ELSE ph.state,
      reason |-> IF (ph.state = "failed" \/ fails) /\ ph.reason = "none" THEN "job_failed" ELSE ph.reason,
      jobs |-> [j \in DOMAIN jobs |-> WithOwner(jobs[j], FALSE)]]

\* RunEventsStore.List, of an attempt of the row.
EventsNow(i) == run.attempts[i].events

\* runCycleGraphProjectionByNumber, of a row read before and the events there are now.
View(row, rows) ==
  [p \in Phases |->
     LET shown == ShownPhase(row, p, rows[p]) IN
     IF HasAttempt(row, p)
     THEN OverlaidPhase(shown, EventsNow(Max(OfPhase(row.attempts, p))))
     ELSE shown]

\* The row as the report has it (runReportFromDoc): its attempts and executions as they are.
ReadRow ==
  /\ reader = NotReading
  /\ reader' = [pc |-> "row", run |-> run, executions |-> executions]
  /\ UNCHANGED ledgerVars
Show ==
  /\ reader.pc = "row"
  /\ reader' = [pc |-> "shown", run |-> reader.run, view |-> View(reader.run, reader.executions)]
  /\ UNCHANGED ledgerVars

-----------------------------------------------------------------------------
\* The pods of a phase: the events of a job's steps in their order, and one report.

Ev(kind, slug) == [kind |-> kind, slug |-> slug, count |-> 0]
Expansion(n) == [kind |-> "expanded", slug |-> "none", count |-> n]
NextEvents(j, past) ==
  LET last == past[Len(past)].kind IN
  IF past = <<>> THEN IF j \in Dynamic THEN {Expansion(0), Expansion(1)} ELSE {Ev("started", "work")}
  ELSE IF last = "expanded"
  THEN IF past[Len(past)].count = 0 THEN {} ELSE {Ev("started", "case"), Ev("skipped", "case")}
  ELSE IF last = "started"
  THEN {Ev(kind, past[Len(past)].slug) : kind \in {"completed", "failed", "aborted"}}
  ELSE {}
Fails(e) == e.kind \in {"failed", "aborted"}
AStepFailed(i, j) == \E k \in DOMAIN run.attempts[i].events[j] : Fails(run.attempts[i].events[j][k])

Sent ==
  MapThenSumSet(LAMBDA i : MapThenSumSet(LAMBDA j : Len(run.attempts[i].events[j]),
                                         DOMAIN run.attempts[i].events), DOMAIN run.attempts)
Emit(i, j) ==
  /\ Sent < MaxEvents
  /\ run.attempts[i].pods = "running" /\ Reports(i)[j] # "skipped"
  /\ \E e \in NextEvents(j, run.attempts[i].events[j]) :
       /\ Fails(e) => Reports(i)[j] \in {"none", "failure"}
       /\ Event(i, j, e)

\* A job with a failed step has failed; a sweep or the watcher may fail any.
Conclude(i, j) ==
  /\ run.attempts[i].pods # "parked"
  /\ \E report \in {"success", "failure", "verdict"} :
       /\ report = "verdict" => run.attempts[i].phase \in Verify
       /\ report # "failure" => /\ run.attempts[i].pods = "running"
                                /\ ~AStepFailed(i, j)
       /\ Report(i, j, report)

ViewInit ==
  /\ \E entry \in Entries : \E origin \in Origins :
       Create(entry, IF origin = "supplied" THEN 1 .. entry - 1 ELSE {}, origin = "carried")
  /\ reader = NotReading

\* What the pods of any attempt do.
Runners ==
  \E i \in DOMAIN run.attempts : \E j \in JobsOf[run.attempts[i].phase] : Emit(i, j)
Writes ==
  \/ StartCycle(run.entry)
  \/ \E p \in Phases : AppendAttempt(p)
  \/ \E j \in UNION {JobsOf[p] : p \in Phases} : SkipJob(j)
  \/ StampSkipped \/ SkipSteps \/ Launch
  \/ \E i \in DOMAIN run.attempts : \/ Stamp(i)
                                    \/ \E j \in JobsOf[run.attempts[i].phase] : Conclude(i, j)
  \/ Park \/ ReleaseGate \/ CancelGate \/ Pass \/ Repair
  \/ \E why \in Why : Abort(why)

\* Of what is written after the row was read the answer shows the events only, and it
\* ends a behaviour.
ViewNext ==
  \/ reader = NotReading /\ Writes /\ UNCHANGED reader
  \/ reader.pc # "shown" /\ Runners /\ UNCHANGED reader
  \/ ReadRow \/ Show

-----------------------------------------------------------------------------
Answered == reader.pc = "shown"
Shown(p) == reader.view[p]

\* A job shown as failed or aborted has a failed step that owns the failure, whatever
\* ended it and however far the events are ahead of the row (ensureFailedJobOwnerStep,
\* graph_api.go: "no failed job can ever render with every step succeeded").
FailureIsOwned ==
  Answered => \A p \in Phases : \A j \in JobsOf[p] :
    Shown(p).jobs[j].state \in {"failed", "aborted"}
      => \E s \in Slugs : Shown(p).jobs[j].steps[s].state = "failed"

\* The graph of an aborted run shows nothing as dispatching or active but what a dispatch
\* already on its way appended after the abort, and a job whose sibling's step had failed
\* the phase before: finalizeExecutionFailureRaw takes such a phase for closed.
AbortedIsClosed ==
  Answered /\ reader.run.state = "aborted" => \A p \in Phases :
    LET ph == Shown(p)
        late == \E i \in OfPhase(reader.run.attempts, p) : i > reader.run.ended
        failedBefore == \E i \in OfPhase(reader.run.attempts, p) : \E j \in JobsOf[p] :
                          AStepFailed(i, j)
    IN /\ ph.state \in Open => late
       /\ \A j \in JobsOf[p] : ph.jobs[j].state \in Open => late \/ failedBefore

\* "No run may settle terminal-failed without an attributed cause"
\* (docs/observability.md:57); the metric counts malformed_terminal as unattributed and
\* pages on it.
EndIsAttributed == run.state = "aborted" => run.cause.class # "malformed_terminal"
=============================================================================
