--------------------------- MODULE RunnerTheorems ---------------------------
(***************************************************************************)
(* What holds of the jobs of a phase for any plan, number of jobs, keys and*)
(* results, and any number of lost calls and stopped pods.                 *)
(***************************************************************************)
EXTENDS JobRunner, TLAPS

\* The event a pod sends from each point.
Kind(pc) ==
    CASE pc = "starting"   -> "step_started"
      [] pc = "publishing" -> "phase_output_set"
      [] pc = "failing"    -> "step_failed"
      [] pc = "aborting"   -> "step_aborted"
      [] pc = "ending"     -> "step_completed"
      [] pc = "expanding"  -> "dynamic_group_expanded"
      [] pc = "skipping"   -> "step_skipped"
      [] OTHER             -> "other"
OfAStep == {"starting", "publishing", "failing", "aborting", "ending", "expanding", "skipping"}

\* Pods and what they send.
Kinds == {"step_started", "phase_output_set", "step_failed", "step_aborted", "step_completed",
          "dynamic_group_expanded", "step_skipped", "other"}
Places == Nat \X Nat
Events == [kind : Kinds, slug : Places, key : Keys \cup {"none"}, count : Nat]
Reports ==
    [conclusion : {"none", "success", "failure", "aborted", "timed_out", "failed"},
     verdict : Verdicts, outs : SUBSET Keys, by : {"nobody", "runner", "watcher", "sweep"}]
Pods ==
    [pc : {"pending"} \cup Calling \cup Working \cup Stopped, at : Places, cases : Nat,
     event : Events, dead : BOOLEAN, term : BOOLEAN, exit : {"ok", "error"},
     outs : SUBSET Keys, verdict : Verdicts, case : Verdicts, report : Reports]

\* A pod sends what it is about to do, of the step it is at.
PodOK(p) ==
    /\ p \in Pods
    /\ p.pc \in Calling \ {"reporting"} => p.event.kind = Kind(p.pc)
    /\ p.pc \in OfAStep => p.event.slug = p.at
    /\ p.pc = "publishing" => p.event.key \in Keys

\* The row of the phase.
JobStates == {"dispatching", "active", "succeeded", "failed"}
StepStates == {"absent", "not_started", "active", "succeeded", "skipped", "failed", "aborted"}
Rows ==
    [phase : JobStates, jobs : [JobIds -> JobStates], steps : [JobIds -> [Slugs -> StepStates]],
     outputs : [Keys -> JobIds \cup {Nobody}], reports : [JobIds -> Reports]]

\* Where a pod between two steps has left none at work and none that failed, and where
\* one at work on a step has left no other.
Beginning == {"pending", "planning", "expanding", "skipping", "starting"}
OnStep == {"executing", "publishing", "ending"}
Bad == {"active", "failed", "aborted"}

\* A pod that can only end without success.
Doomed(p) ==
    \/ p.pc \in {"failing", "stopping", "aborting", "leaving"} \cup Stopped
    \/ p.pc = "reporting" /\ p.report.conclusion # "success"

JobOK(r, p, j) ==
    /\ PodOK(p)
    /\ p.pc \in Beginning => \A s \in Slugs : r.steps[j][s] \notin Bad
    /\ p.pc \in OnStep => \A s \in Slugs \ {p.at} : r.steps[j][s] \notin Bad
    /\ r.outputs[Abort] = j => Doomed(p)
    /\ r.reports[j].conclusion = "success" => p.pc \in Stopped /\ r.outputs[Abort] # j

RunnerInv ==
    /\ row \in Rows
    /\ pod = [j \in JobIds |-> pod[j]]
    /\ \A j \in JobIds : JobOK(row, pod[j], j)
-----------------------------------------------------------------------------
(* The runner's own steps.                                                   *)

\* A fresh pod.
LEMMA NewPodOK == PodOK(NewPod) /\ NewPod.pc = "pending" /\ NewPod.event = NoEvent
<1>1. NoEvent \in Events
    BY DEF NoEvent, Events, Kinds, Places
<1>2. NoReport \in Reports
    BY DEF NoReport, Reports, Verdicts
<1>3. NewPod \in Pods
    BY <1>1, <1>2 DEF NewPod, Pods, Places, Verdicts
<1> QED BY <1>3 DEF PodOK, NewPod, Calling, OfAStep

\* An event of the step a pod is at.
LEMMA OfStepOK ==
    ASSUME NEW kind \in Kinds, NEW p \in Pods
    PROVE  /\ OfStep(kind, p) \in Events
           /\ OfStep(kind, p).kind = kind /\ OfStep(kind, p).slug = p.at
<1>1. p.at \in Places
    BY DEF Pods
<1> QED BY <1>1 DEF OfStep, NoEvent, Events

\* A call.
LEMMA PostOK ==
    ASSUME NEW p \in Pods, NEW pc \in Calling \ {"reporting"}, NEW e \in Events,
           e.kind = Kind(pc), pc \in OfAStep => e.slug = p.at,
           pc = "publishing" => e.key \in Keys
    PROVE  PodOK(Post(p, pc, e)) /\ Post(p, pc, e).pc = pc /\ Post(p, pc, e).at = p.at
<1> DEFINE q == Post(p, pc, e)
<1>1. q \in Pods /\ q.pc = pc /\ q.at = p.at /\ q.event = e
    BY DEF Post, Pods
<1> QED BY <1>1 DEF PodOK

\* The last call.
LEMMA CompleteOK ==
    ASSUME NEW p \in Pods, NEW conclusion \in {"success", "failure", "aborted", "timed_out"}
    PROVE  /\ PodOK(Complete(p, conclusion)) /\ Complete(p, conclusion).pc = "reporting"
           /\ Complete(p, conclusion).report.conclusion = conclusion
<1> DEFINE q == Complete(p, conclusion)
           report == [conclusion |-> conclusion, outs |-> p.outs, by |-> "runner",
                      verdict |-> JobVerdict(p)]
<1>1. report \in Reports /\ report.conclusion = conclusion
    BY DEF Reports, Pods, JobVerdict
<1>2. q = [NewPod EXCEPT !.pc = "reporting", !.term = p.term,
                         !.dead = p.term /\ conclusion # "timed_out", !.report = report]
    BY DEF Complete
<1> HIDE DEF report
<1>3. q \in Pods /\ q.pc = "reporting" /\ q.report = report
    BY <1>1, <1>2, NewPodOK DEF PodOK, Pods, Calling
<1> QED BY <1>1, <1>3 DEF PodOK, OfAStep

\* A farewell.
LEMMA LeavingOK ==
    ASSUME NEW p \in Pods
    PROVE  PodOK(Post(p, "leaving", NoEvent)) /\ Post(p, "leaving", NoEvent).pc = "leaving"
<1>1. NoEvent \in Events /\ NoEvent.kind = Kind("leaving") /\ "leaving" \notin OfAStep
    BY DEF NoEvent, Events, Kinds, Places, Kind, OfAStep
<1>2. "leaving" \in Calling \ {"reporting"}
    BY DEF Calling
<1> QED BY <1>1, <1>2, PostOK

\* After an error.
LEMMA FailOK ==
    ASSUME NEW p \in Pods
    PROVE  /\ PodOK(Fail(p)) /\ Doomed(Fail(p)) /\ Fail(p).pc \in {"leaving", "reporting"}
<1>1. CASE p.term
    BY <1>1, LeavingOK DEF Fail, Doomed
<1>2. CASE ~p.term
    BY <1>2, CompleteOK DEF Fail, Doomed
<1> QED BY <1>1, <1>2

\* The next step.
LEMMA StartStepOK ==
    ASSUME NEW p \in Pods, NEW slug \in Places
    PROVE  PodOK(StartStep(p, slug)) /\ StartStep(p, slug).pc = "starting"
<1> DEFINE q == [p EXCEPT !.at = slug, !.exit = "ok"]
<1>1. q \in Pods
    BY DEF Pods
<1>2. StartStep(p, slug) = Post(q, "starting", OfStep("step_started", q))
    BY DEF StartStep
<1> HIDE DEF q
<1>3. /\ "starting" \in Calling \ {"reporting"} /\ Kind("starting") = "step_started"
      /\ "step_started" \in Kinds
    BY DEF Calling, Kind, Kinds
<1> QED BY <1>1, <1>2, <1>3, OfStepOK, PostOK

\* The next entry of the plan, or the end.
LEMMA StartEntryOK ==
    ASSUME NEW p, PodOK(p), NEW i \in Nat
    PROVE  PodOK(StartEntry(p, i)) /\ StartEntry(p, i).pc \in {"starting", "planning", "reporting"}
<1> DEFINE q == [p EXCEPT !.pc = "planning", !.at = <<i, 0>>]
<1>1. StartEntry(p, i) \in {Complete(p, "success"), StartStep(p, <<i, 0>>), q}
    BY DEF StartEntry
<1>2. p \in Pods /\ <<i, 0>> \in Places
    BY DEF PodOK, Places
<1>3. q \in Pods /\ q.pc = "planning"
    BY <1>2 DEF Pods, Working
<1>4. PodOK(q)
    BY <1>3 DEF PodOK, Calling, OfAStep
<1> HIDE DEF q
<1> QED BY <1>1, <1>2, <1>3, <1>4, CompleteOK, StartStepOK

\* What follows a step that ended well.
LEMMA NextStepOK ==
    ASSUME NEW p, PodOK(p)
    PROVE  PodOK(NextStep(p)) /\ NextStep(p).pc \in {"starting", "planning", "reporting"}
<1>1. p \in Pods /\ p.at[1] \in Nat /\ p.at[2] \in Nat
    BY DEF PodOK, Pods, Places
<1>2. <<p.at[1], p.at[2] + 1>> \in Places /\ p.at[1] + 1 \in Nat
    BY <1>1 DEF Places
<1> QED BY <1>1, <1>2, StartEntryOK, StartStepOK DEF NextStep

\* A step is judged: an error or an abort leads nowhere but to the end.
LEMMA JudgeOK ==
    ASSUME NEW p \in Pods
    PROVE  /\ PodOK(Judge(p)) /\ Judge(p).at = p.at
           /\ Judge(p).pc \in {"failing", "aborting", "ending"}
           /\ p.exit = "error" \/ Abort \in p.outs => Doomed(Judge(p))
<1>1. /\ {"failing", "aborting", "ending"} \subseteq Calling \ {"reporting"}
      /\ {"step_failed", "step_aborted", "step_completed"} \subseteq Kinds
      /\ Kind("failing") = "step_failed" /\ Kind("aborting") = "step_aborted"
      /\ Kind("ending") = "step_completed"
    BY DEF Calling, Kind, Kinds
<1>2. CASE Judge(p) = Post(p, "failing", OfStep("step_failed", p))
    BY <1>1, <1>2, OfStepOK, PostOK DEF Doomed
<1>3. CASE Judge(p) = Post(p, "aborting", OfStep("step_aborted", p))
    BY <1>1, <1>3, OfStepOK, PostOK DEF Doomed
<1>4. CASE /\ Judge(p) = Post(p, "ending", OfStep("step_completed", p))
           /\ ~(p.exit = "error" \/ Abort \in p.outs)
    BY <1>1, <1>4, OfStepOK, PostOK
<1> QED BY <1>2, <1>3, <1>4 DEF Judge

\* What a reply leads to: on only when the call was one that ends well.
LEMMA ReplyOK ==
    ASSUME NEW p, PodOK(p), p.pc \in Calling, NEW ok \in BOOLEAN,
           NEW q, q = AfterReply(p, ok)
    PROVE  /\ PodOK(q)
           /\ Doomed(p) => Doomed(q)
           /\ p.pc = "reporting" => q.pc \in Stopped
           /\ q.pc \in Beginning => ok /\ p.pc \in {"ending", "skipping", "expanding"}
           /\ q.pc \in OnStep =>
                  /\ q.at = p.at
                  /\ p.pc = "publishing" \/ (p.pc = "starting" /\ ok)
           /\ ~ok => Doomed(q)
           /\ p.pc = "publishing" /\ p.event.key = Abort => Doomed(q)
<1>0. p \in Pods
    BY DEF PodOK
<1>1. CASE p.pc = "starting"
  <2>1. CASE ok
    <3>1. q = [p EXCEPT !.pc = "executing", !.event = NoEvent]
        BY <1>1, <2>1 DEF AfterReply
    <3>2. NoEvent \in Events
        BY DEF NoEvent, Events, Kinds, Places
    <3>3. q \in Pods /\ q.pc = "executing" /\ q.at = p.at
        BY <1>0, <3>1, <3>2 DEF Pods, Working
    <3>4. PodOK(q)
        BY <3>3 DEF PodOK, Calling, OfAStep
    <3> QED BY <1>1, <2>1, <3>3, <3>4 DEF Doomed, Beginning, Stopped
  <2>2. CASE ~ok
    <3>1. q = Fail(p)
        BY <1>1, <2>2 DEF AfterReply
    <3> QED BY <1>0, <1>1, <2>2, <3>1, FailOK DEF Beginning, OnStep
  <2> QED BY <2>1, <2>2
<1>2. CASE p.pc = "publishing"
  <2>1. ~Doomed(p)
      BY <1>2 DEF Doomed, Stopped
  <2>2. CASE ok
    <3> DEFINE r == [p EXCEPT !.outs = @ \cup {p.event.key}]
    <3>1. q = Judge(r)
        BY <1>2, <2>2 DEF AfterReply
    <3>2. p.event.key \in Keys
        BY <1>2 DEF PodOK
    <3>3. r \in Pods /\ r.at = p.at /\ p.event.key \in r.outs
        BY <1>0, <3>2 DEF Pods
    <3> HIDE DEF r
    <3> QED BY <1>2, <2>1, <2>2, <3>1, <3>3, JudgeOK DEF Beginning, OnStep
  <2>3. CASE ~ok
    <3> DEFINE r == [p EXCEPT !.exit = "error"]
    <3>1. q = Judge(r)
        BY <1>2, <2>3 DEF AfterReply
    <3>2. r \in Pods /\ r.at = p.at /\ r.exit = "error"
        BY <1>0 DEF Pods
    <3> HIDE DEF r
    <3> QED BY <1>2, <2>1, <2>3, <3>1, <3>2, JudgeOK DEF Beginning, OnStep
  <2> QED BY <2>2, <2>3
<1>3. CASE p.pc = "failing"
  <2>1. q = IF p.exit = "ok" THEN Post(p, "stopping", NoEvent) ELSE Fail(p)
      BY <1>3 DEF AfterReply
  <2>2. "stopping" \in Calling \ {"reporting"} /\ NoEvent \in Events
        /\ NoEvent.kind = Kind("stopping") /\ "stopping" \notin OfAStep
      BY DEF Calling, NoEvent, Events, Kinds, Places, Kind, OfAStep
  <2>3. PodOK(Post(p, "stopping", NoEvent)) /\ Post(p, "stopping", NoEvent).pc = "stopping"
      BY <1>0, <2>2, PostOK
  <2> QED BY <1>0, <1>3, <2>1, <2>3, FailOK DEF Doomed, Beginning, OnStep
<1>4. CASE p.pc = "stopping"
  <2>1. q = Fail(p)
      BY <1>4 DEF AfterReply
  <2> QED BY <1>0, <1>4, <2>1, FailOK DEF Beginning, OnStep
<1>5. CASE p.pc = "aborting"
  <2>1. q = IF ok THEN Complete(p, "aborted") ELSE Fail(p)
      BY <1>5 DEF AfterReply
  <2> QED BY <1>0, <1>5, <2>1, FailOK, CompleteOK DEF Doomed, Beginning, OnStep
<1>6. CASE p.pc \in {"ending", "skipping"}
  <2>1. q = IF ok THEN NextStep(p) ELSE Fail(p)
      BY <1>6 DEF AfterReply
  <2>2. ~Doomed(p)
      BY <1>6 DEF Doomed, Stopped
  <2> QED BY <1>0, <1>6, <2>1, <2>2, FailOK, NextStepOK DEF Beginning, OnStep
<1>7. CASE p.pc = "expanding"
  <2>1. ~Doomed(p)
      BY <1>7 DEF Doomed, Stopped
  <2>2. CASE ~ok
    <3>1. q = Fail(p)
        BY <1>7, <2>2 DEF AfterReply
    <3> QED BY <1>0, <1>7, <2>1, <2>2, <3>1, FailOK DEF Beginning, OnStep
  <2>3. CASE ok
    <3> DEFINE r == [p EXCEPT !.at = Empty(p.at[1])]
    <3>1. q \in {StartStep(p, <<p.at[1], 1>>), Post(r, "skipping", OfStep("step_skipped", r))}
        BY <1>7, <2>3 DEF AfterReply
    <3>2. p.at[1] \in Nat
        BY <1>0 DEF Pods, Places
    <3>3. <<p.at[1], 1>> \in Places /\ Empty(p.at[1]) \in Places
        BY <3>2, PlanAssumption DEF Places, Empty
    <3>4. r \in Pods
        BY <1>0, <3>3 DEF Pods
    <3> HIDE DEF r
    <3>5. /\ "skipping" \in Calling \ {"reporting"} /\ Kind("skipping") = "step_skipped"
          /\ "step_skipped" \in Kinds
        BY DEF Calling, Kind, Kinds
    <3>6. /\ PodOK(Post(r, "skipping", OfStep("step_skipped", r)))
          /\ Post(r, "skipping", OfStep("step_skipped", r)).pc = "skipping"
        BY <3>4, <3>5, OfStepOK, PostOK
    <3>7. PodOK(q) /\ q.pc \in {"starting", "skipping"}
        BY <1>0, <3>1, <3>3, <3>6, StartStepOK
    <3> QED BY <1>7, <2>1, <2>3, <3>7 DEF OnStep
  <2> QED BY <2>2, <2>3
<1>8. CASE p.pc = "leaving"
  <2>1. q = Complete(p, IF p.term THEN "timed_out" ELSE "failure")
      BY <1>8 DEF AfterReply
  <2> QED BY <1>0, <1>8, <2>1, CompleteOK DEF Doomed, Beginning, OnStep
<1>9. CASE p.pc = "reporting"
  <2>1. \E end \in {"exited", "failed"} : q = [NewPod EXCEPT !.pc = end]
      BY <1>9 DEF AfterReply
  <2>2. PICK end \in {"exited", "failed"} : q = [NewPod EXCEPT !.pc = end]
      BY <2>1
  <2>3. q \in Pods /\ q.pc = end
      BY <2>2, NewPodOK DEF PodOK, Pods, Stopped
  <2> QED BY <1>9, <2>3 DEF PodOK, Doomed, Beginning, OnStep, Stopped, Calling, OfAStep
<1> QED BY <1>1, <1>2, <1>3, <1>4, <1>5, <1>6, <1>7, <1>8, <1>9 DEF Calling
-----------------------------------------------------------------------------
(* The two writers of the row.                                               *)

\* The expansion of a group leaves no step at work.
LEMMA ExpandedOK ==
    ASSUME NEW steps \in [Slugs -> StepStates], NEW i, NEW count, NEW new,
           new = Expanded(steps, i, count)
    PROVE  /\ new \in [Slugs -> StepStates]
           /\ \A s \in Slugs : new[s] \in {"absent", "not_started", "skipped", steps[s]}
<1>1. \A s \in Slugs : new[s] \in {"absent", "not_started", "skipped", steps[s]}
    BY DEF Expanded
<1>2. new = [s \in Slugs |-> new[s]]
    BY DEF Expanded
<1>3. \A s \in Slugs : new[s] \in StepStates
    BY <1>1 DEF StepStates
<1> QED BY <1>1, <1>2, <1>3

\* An event touches the step it names and the output it sets.
LEMMA EventOK ==
    ASSUME NEW r \in Rows, NEW j \in JobIds, NEW e \in Events,
           NEW n, n = ApplyEvent(r, j, e)
    PROVE  /\ n \in Rows /\ n.reports = r.reports
           /\ \A i \in JobIds \ {j} : n.steps[i] = r.steps[i]
           /\ \A i \in JobIds : n.outputs[Abort] = i /\ r.outputs[Abort] # i =>
                  i = j /\ e.kind = "phase_output_set" /\ e.key = Abort
           /\ \A s \in Slugs : n.steps[j][s] = "active" /\ r.steps[j][s] # "active" =>
                  e.kind = "step_started" /\ s = e.slug
           /\ \A s \in Slugs : n.steps[j][s] \in Bad /\ r.steps[j][s] \notin Bad =>
                  /\ s = e.slug
                  /\ e.kind \in {"step_started", "step_failed", "step_aborted"}
           /\ e.kind \in {"step_completed", "step_skipped"} =>
                  \A s \in Slugs : s = e.slug => n.steps[j][s] \notin Bad
<1> DEFINE phase == IF EndsJob(e) THEN "failed" ELSE Started(r.phase)
           job == IF EndsJob(e) THEN "failed" ELSE Started(r.jobs[j])
           steps == StepsAfterEvent(e, r.steps[j])
           outputs == IF e.kind = "phase_output_set" THEN [r.outputs EXCEPT ![e.key] = j]
                      ELSE r.outputs
<1>1. /\ r.phase \in JobStates /\ r.jobs \in [JobIds -> JobStates]
      /\ r.steps \in [JobIds -> [Slugs -> StepStates]] /\ r.reports \in [JobIds -> Reports]
      /\ r.outputs \in [Keys -> JobIds \cup {Nobody}]
    BY DEF Rows
<1>2. phase \in JobStates /\ job \in JobStates
    BY <1>1 DEF Started, JobStates
<1>3. outputs \in [Keys -> JobIds \cup {Nobody}]
    BY <1>1
<1>4. \A i \in JobIds : outputs[Abort] = i /\ r.outputs[Abort] # i =>
          i = j /\ e.kind = "phase_output_set" /\ e.key = Abort
    BY <1>1, NamesAssumption
<1>5. /\ steps \in [Slugs -> StepStates]
      /\ \A s \in Slugs : steps[s] = "active" /\ r.steps[j][s] # "active" =>
             e.kind = "step_started" /\ s = e.slug
      /\ \A s \in Slugs : steps[s] \in Bad /\ r.steps[j][s] \notin Bad =>
             s = e.slug /\ e.kind \in {"step_started", "step_failed", "step_aborted"}
      /\ e.kind \in {"step_completed", "step_skipped"} =>
             \A s \in Slugs : s = e.slug => steps[s] \notin Bad
  <2>1. r.steps[j] \in [Slugs -> StepStates]
      BY <1>1
  <2>2. CASE e.kind = "dynamic_group_expanded"
    <3>1. steps = Expanded(r.steps[j], e.slug[1], e.count)
        BY ONLY <2>2 DEF StepsAfterEvent, NamesStep
    <3> HIDE DEF steps
    <3>2. /\ steps \in [Slugs -> StepStates]
          /\ \A s \in Slugs : steps[s] \in {"absent", "not_started", "skipped", r.steps[j][s]}
        BY <2>1, <3>1, ExpandedOK
    <3> QED BY <2>2, <3>2 DEF Bad
  <2>3. CASE e.kind # "dynamic_group_expanded" /\ NamesStep(e)
    <3>1. steps = [r.steps[j] EXCEPT ![e.slug] = StepAfter(e, r.steps[j][e.slug])]
        BY <2>3 DEF StepsAfterEvent
    <3>2. \A state \in StepStates :
              /\ StepAfter(e, state) \in StepStates
              /\ StepAfter(e, state) = "active" => e.kind = "step_started" \/ state = "active"
              /\ StepAfter(e, state) \in Bad /\ state \notin Bad =>
                     e.kind \in {"step_started", "step_failed", "step_aborted"}
              /\ e.kind \in {"step_completed", "step_skipped"} => StepAfter(e, state) \notin Bad
        BY DEF StepAfter, StepStates, Bad
    <3> HIDE DEF steps
    <3> QED BY <2>1, <3>1, <3>2
  <2>4. CASE e.kind # "dynamic_group_expanded" /\ ~NamesStep(e)
      BY <2>1, <2>4 DEF StepsAfterEvent, NamesStep
  <2> QED BY <2>2, <2>3, <2>4
<1>6. n = [r EXCEPT !.phase = phase, !.jobs = [r.jobs EXCEPT ![j] = job],
                    !.steps = [r.steps EXCEPT ![j] = steps], !.outputs = outputs]
    BY DEF ApplyEvent
<1> HIDE DEF phase, job, steps, outputs
<1> DEFINE jobs1 == [r.jobs EXCEPT ![j] = job]
           steps1 == [r.steps EXCEPT ![j] = steps]
<1>7. jobs1 \in [JobIds -> JobStates] /\ steps1 \in [JobIds -> [Slugs -> StepStates]]
    BY <1>1, <1>2, <1>5
<1>8. n = [r EXCEPT !.phase = phase, !.jobs = jobs1, !.steps = steps1, !.outputs = outputs]
    BY <1>6
<1>9. /\ steps1[j] = steps /\ \A i \in JobIds \ {j} : steps1[i] = r.steps[i]
    BY <1>1
<1> HIDE DEF jobs1, steps1
<1>10. n \in Rows /\ n.reports = r.reports /\ n.outputs = outputs /\ n.steps = steps1
    BY <1>2, <1>3, <1>7, <1>8 DEF Rows
<1> QED BY <1>4, <1>5, <1>9, <1>10

\* A report touches its job, and of its steps those that are at work or have not begun.
LEMMA ReportOK ==
    ASSUME NEW r \in Rows, NEW j \in JobIds, NEW report \in Reports,
           NEW n, n = RecordReport(r, j, report)
    PROVE  /\ n \in Rows /\ n.outputs = r.outputs
           /\ \A i \in JobIds \ {j} : n.steps[i] = r.steps[i] /\ n.reports[i] = r.reports[i]
           /\ n.reports[j] \in {r.reports[j], report}
           /\ \A s \in Slugs : /\ n.steps[j][s] = "active" => r.steps[j][s] = "active"
                               /\ n.steps[j][s] \in Bad => r.steps[j][s] \in Bad
<1>1. /\ r.phase \in JobStates /\ r.jobs \in [JobIds -> JobStates]
      /\ r.steps \in [JobIds -> [Slugs -> StepStates]] /\ r.reports \in [JobIds -> Reports]
      /\ r.outputs \in [Keys -> JobIds \cup {Nobody}]
    BY DEF Rows
<1>2. CASE n = r
    BY <1>2
<1>3. CASE n = MarkCompletion([r EXCEPT !.reports[j] = report], j, JobState(report))
  <2> DEFINE new == [r EXCEPT !.reports[j] = report]
             state == JobState(report)
             jobs == [r.jobs EXCEPT ![j] = state]
             steps == StepsAfterReport(r.steps[j], state)
             phase == IF \E i \in JobIds : ~Ended(jobs[i]) THEN r.phase
                      ELSE IF \E i \in JobIds : jobs[i] = "failed" THEN "failed"
                      ELSE "succeeded"
  <2>1. state \in {"succeeded", "failed"}
      BY DEF JobState
  <2>2. jobs \in [JobIds -> JobStates] /\ phase \in JobStates
      BY <1>1, <2>1 DEF JobStates
  <2>3. /\ steps \in [Slugs -> StepStates]
        /\ \A s \in Slugs : /\ steps[s] = "active" => r.steps[j][s] = "active"
                            /\ steps[s] \in Bad => r.steps[j][s] \in Bad
      BY <1>1, <2>1 DEF StepsAfterReport, StepStates, Bad
  <2>4. /\ new \in Rows /\ new.jobs = r.jobs /\ new.steps = r.steps /\ new.phase = r.phase
        /\ new.outputs = r.outputs /\ new.reports = [r.reports EXCEPT ![j] = report]
      BY <1>1 DEF Rows
  <2>5. n = [new EXCEPT !.jobs = jobs, !.steps = [r.steps EXCEPT ![j] = steps],
                        !.phase = phase]
      BY <1>3, <2>4 DEF MarkCompletion
  <2> HIDE DEF new, state, jobs, steps, phase
  <2> DEFINE steps1 == [r.steps EXCEPT ![j] = steps]
             outputs == r.outputs
  <2>7. steps1 \in [JobIds -> [Slugs -> StepStates]]
      BY <1>1, <2>3
  <2>8. n = [new EXCEPT !.phase = phase, !.jobs = jobs, !.steps = steps1, !.outputs = outputs]
      BY <2>4, <2>5 DEF Rows
  <2>9. steps1[j] = steps /\ \A i \in JobIds \ {j} : steps1[i] = r.steps[i]
      BY <1>1
  <2> HIDE DEF steps1
  <2>10. n \in Rows /\ n.outputs = r.outputs /\ n.steps = steps1 /\ n.reports = new.reports
      BY <1>1, <2>2, <2>4, <2>7, <2>8 DEF Rows
  <2> QED BY <1>1, <2>3, <2>4, <2>9, <2>10
<1> QED BY <1>2, <1>3 DEF RecordReport
-----------------------------------------------------------------------------
(* Steps.                                                                    *)

\* A step that starts finds none of its job failed or aborted.
StartsClean ==
    \A j \in JobIds, t \in Slugs : row'.steps[j][t] = "active" /\ row.steps[j][t] # "active" =>
        \A s \in Slugs : row.steps[j][s] \notin {"failed", "aborted"}

\* A step of one job leaves the others as they are.
LEMMA OneJob ==
    ASSUME RunnerInv, NEW j \in JobIds, NEW q, row' \in Rows, pod' = [pod EXCEPT ![j] = q],
           JobOK(row', q, j), \A i \in JobIds \ {j} : JobOK(row', pod[i], i)
    PROVE  RunnerInv'
<1>1. /\ pod' = [i \in JobIds |-> pod'[i]] /\ pod'[j] = q
      /\ \A i \in JobIds \ {j} : pod'[i] = pod[i]
    BY DEF RunnerInv
<1> QED BY <1>1 DEF RunnerInv

\* A step within a pod.
LEMMA PodOnly ==
    ASSUME RunnerInv, NEW j \in JobIds, NEW q, row' = row, pod' = [pod EXCEPT ![j] = q],
           JobOK(row, q, j)
    PROVE  RunnerInv' /\ StartsClean
<1>1. RunnerInv'
    BY OneJob DEF RunnerInv
<1> QED BY <1>1 DEF StartsClean

\* What a call makes of the row: another job does not notice, a call that ends a step well
\* leaves none behind, and an abort or a success is the job's own.
LEMMA RowAfterOK ==
    ASSUME RunnerInv, NEW j \in JobIds, Pending(pod[j]), NEW n, n = RowAfter(j)
    PROVE  /\ n \in Rows
           /\ \A i \in JobIds \ {j} : JobOK(n, pod[i], i) /\ n.steps[i] = row.steps[i]
           /\ n.reports[j].conclusion = "success" =>
                  pod[j].pc = "reporting" /\ n.outputs[Abort] # j
           /\ n.outputs[Abort] = j =>
                  Doomed(pod[j]) \/ (pod[j].pc = "publishing" /\ pod[j].event.key = Abort)
           /\ Agrees(j) /\ pod[j].pc \in {"ending", "skipping", "expanding"} =>
                  \A s \in Slugs : n.steps[j][s] \notin Bad
           /\ pod[j].pc \in {"starting", "publishing"} =>
                  \A s \in Slugs \ {pod[j].at} : n.steps[j][s] \notin Bad
           /\ \A s \in Slugs : n.steps[j][s] = "active" /\ row.steps[j][s] # "active" =>
                  \A t \in Slugs : row.steps[j][t] \notin Bad
<1> DEFINE p == pod[j]
<1>1. /\ row \in Rows /\ JobOK(row, p, j) /\ p \in Pods /\ p.pc \in Calling
      /\ \A i \in JobIds \ {j} : JobOK(row, pod[i], i)
    BY DEF RunnerInv, JobOK, PodOK, Pending
<1>2. p.pc \notin Stopped /\ row.reports[j].conclusion # "success"
    BY <1>1 DEF JobOK, Calling, Stopped
<1>3. CASE IsReport(p)
  <2>1. n = RecordReport(row, j, p.report) /\ p.pc = "reporting" /\ p.report \in Reports
      BY <1>1, <1>3 DEF RowAfter, IsReport, Pods
  <2> HIDE DEF p
  <2>2. /\ n \in Rows /\ n.outputs = row.outputs
        /\ \A i \in JobIds \ {j} : n.steps[i] = row.steps[i] /\ n.reports[i] = row.reports[i]
        /\ n.reports[j] \in {row.reports[j], p.report}
        /\ \A s \in Slugs : n.steps[j][s] = "active" => row.steps[j][s] = "active"
      BY <1>1, <2>1, ReportOK
  <2>3. \A i \in JobIds \ {j} : JobOK(n, pod[i], i)
      BY <1>1, <2>2 DEF JobOK
  <2>4. row.outputs[Abort] = j => Doomed(p) /\ p.report.conclusion # "success"
      BY <1>1, <2>1 DEF JobOK, Doomed, Stopped
  <2> QED BY <1>2, <2>1, <2>2, <2>3, <2>4 DEF p
<1>4. CASE ~IsReport(p) /\ ~Agrees(j)
  <2>1. n = row
      BY <1>4 DEF RowAfter
  <2> HIDE DEF p
  <2>2. p.pc \in {"starting", "publishing"} =>
            \A s \in Slugs \ {p.at} : row.steps[j][s] \notin Bad
      BY <1>1 DEF JobOK, Beginning, OnStep
  <2>3. row.outputs[Abort] = j => Doomed(p)
      BY <1>1 DEF JobOK
  <2> QED BY <1>1, <1>2, <1>4, <2>1, <2>2, <2>3 DEF p
<1>5. CASE ~IsReport(p) /\ Agrees(j)
  <2> DEFINE e == p.event
  <2>1. n = ApplyEvent(row, j, e) /\ p.pc # "reporting" /\ e \in Events /\ e.kind = Kind(p.pc)
      BY <1>1, <1>5 DEF RowAfter, IsReport, Pods, JobOK, PodOK
  <2>2. p.pc \in OfAStep => e.slug = p.at
      BY <1>1 DEF JobOK, PodOK
  <2> HIDE DEF p, e
  <2>3. /\ n \in Rows /\ n.reports = row.reports
        /\ \A i \in JobIds \ {j} : n.steps[i] = row.steps[i]
        /\ \A i \in JobIds : n.outputs[Abort] = i /\ row.outputs[Abort] # i =>
               i = j /\ e.kind = "phase_output_set" /\ e.key = Abort
        /\ \A s \in Slugs : n.steps[j][s] = "active" /\ row.steps[j][s] # "active" =>
               e.kind = "step_started" /\ s = e.slug
        /\ \A s \in Slugs : n.steps[j][s] \in Bad /\ row.steps[j][s] \notin Bad =>
               /\ s = e.slug
               /\ e.kind \in {"step_started", "step_failed", "step_aborted"}
        /\ e.kind \in {"step_completed", "step_skipped"} =>
               \A s \in Slugs : s = e.slug => n.steps[j][s] \notin Bad
      BY <1>1, <2>1, EventOK
  <2>4. /\ e.kind = "phase_output_set" => p.pc = "publishing"
        /\ e.kind = "step_started" => p.pc = "starting"
        /\ p.pc \in {"ending", "skipping", "expanding", "publishing"} =>
               e.kind \notin {"step_started", "step_failed", "step_aborted"}
        /\ p.pc = "ending" => e.kind = "step_completed"
      BY <1>1, <2>1 DEF Kind, Calling
  <2>5. \A i \in JobIds \ {j} : JobOK(n, pod[i], i)
      BY <1>1, <2>3 DEF JobOK
  <2>6. /\ p.pc \in Beginning => \A s \in Slugs : row.steps[j][s] \notin Bad
        /\ p.pc \in OnStep => \A s \in Slugs \ {p.at} : row.steps[j][s] \notin Bad
        /\ row.outputs[Abort] = j => Doomed(p)
      BY <1>1 DEF JobOK
  <2>7. p.pc \in {"ending", "skipping", "expanding"} => \A s \in Slugs : n.steps[j][s] \notin Bad
      BY <2>2, <2>3, <2>4, <2>6 DEF Beginning, OnStep, OfAStep
  <2>8. p.pc \in {"starting", "publishing"} =>
            \A s \in Slugs \ {p.at} : n.steps[j][s] \notin Bad
      BY <2>2, <2>3, <2>6 DEF Beginning, OnStep, OfAStep
  <2>9. n.outputs[Abort] = j => Doomed(p) \/ (p.pc = "publishing" /\ e.key = Abort)
      BY <2>3, <2>4, <2>6
  <2>10. \A s \in Slugs : n.steps[j][s] = "active" /\ row.steps[j][s] # "active" =>
             \A t \in Slugs : row.steps[j][t] \notin Bad
      BY <2>3, <2>4, <2>6 DEF Beginning
  <2> QED BY <1>2, <2>3, <2>5, <2>7, <2>8, <2>9, <2>10 DEF p, e
<1> QED BY <1>3, <1>4, <1>5

\* A call and its answer.
LEMMA HandleKeeps ==
    ASSUME RunnerInv, NEW j \in JobIds, Handle(j) PROVE RunnerInv' /\ StartsClean
<1> DEFINE p == pod[j]
           q == AfterReply(p, Agrees(j))
<1>1. Pending(p) /\ row' = RowAfter(j) /\ pod' = [pod EXCEPT ![j] = q]
    BY DEF Handle
<1>2. PodOK(p) /\ p.pc \in Calling
    BY <1>1 DEF RunnerInv, JobOK, Pending
<1>3. Agrees(j) \in BOOLEAN
    BY DEF Agrees, Accepts, Rejected, KeysFree
<1> HIDE DEF p
<1>4. /\ PodOK(q) /\ (Doomed(p) => Doomed(q)) /\ (p.pc = "reporting" => q.pc \in Stopped)
      /\ q.pc \in Beginning => Agrees(j) /\ p.pc \in {"ending", "skipping", "expanding"}
      /\ q.pc \in OnStep => q.at = p.at /\ p.pc \in {"publishing", "starting"}
      /\ p.pc = "publishing" /\ p.event.key = Abort => Doomed(q)
    BY <1>2, <1>3, ReplyOK
<1> HIDE DEF q
<1>5. /\ row' \in Rows
      /\ \A i \in JobIds \ {j} : JobOK(row', pod[i], i) /\ row'.steps[i] = row.steps[i]
      /\ row'.reports[j].conclusion = "success" => p.pc = "reporting" /\ row'.outputs[Abort] # j
      /\ row'.outputs[Abort] = j => Doomed(p) \/ (p.pc = "publishing" /\ p.event.key = Abort)
      /\ Agrees(j) /\ p.pc \in {"ending", "skipping", "expanding"} =>
             \A s \in Slugs : row'.steps[j][s] \notin Bad
      /\ p.pc \in {"starting", "publishing"} =>
             \A s \in Slugs \ {p.at} : row'.steps[j][s] \notin Bad
      /\ \A s \in Slugs : row'.steps[j][s] = "active" /\ row.steps[j][s] # "active" =>
             \A t \in Slugs : row.steps[j][t] \notin Bad
    BY <1>1, RowAfterOK DEF p
<1>6. JobOK(row', q, j)
    BY <1>4, <1>5 DEF JobOK
<1>7. RunnerInv'
    BY <1>1, <1>5, <1>6, OneJob
<1> QED BY <1>5, <1>7 DEF StartsClean, Bad

\* A call that fails for its pod, or whose pod is killed, done or not.
LEMMA UnansweredKeeps ==
    ASSUME RunnerInv, NEW j \in JobIds, NEW q, PodOK(q), Doomed(q),
           row' = row \/ (Pending(pod[j]) /\ row' = RowAfter(j)),
           pod[j].pc \in Calling \cup Working, pod[j].pc = "reporting" => q.pc \in Stopped,
           pod' = [pod EXCEPT ![j] = q]
    PROVE  RunnerInv' /\ StartsClean
<1>1. q.pc \notin Beginning /\ q.pc \notin OnStep
    BY DEF Doomed, Stopped, Beginning, OnStep
<1>2. CASE row' = row
  <2>1. JobOK(row, pod[j], j) /\ pod[j].pc \notin Stopped
      BY DEF RunnerInv, Calling, Working, Stopped
  <2>2. JobOK(row, q, j)
      BY <1>1, <2>1 DEF JobOK
  <2> QED BY <1>2, <2>2, PodOnly
<1>3. CASE Pending(pod[j]) /\ row' = RowAfter(j)
  <2>1. /\ row' \in Rows
        /\ \A i \in JobIds \ {j} : JobOK(row', pod[i], i) /\ row'.steps[i] = row.steps[i]
        /\ row'.reports[j].conclusion = "success" =>
               pod[j].pc = "reporting" /\ row'.outputs[Abort] # j
        /\ \A s \in Slugs : row'.steps[j][s] = "active" /\ row.steps[j][s] # "active" =>
               \A t \in Slugs : row.steps[j][t] \notin Bad
      BY <1>3, RowAfterOK
  <2>2. JobOK(row', q, j)
      BY <1>1, <2>1 DEF JobOK
  <2>3. RunnerInv'
      BY <2>1, <2>2, OneJob
  <2> QED BY <2>1, <2>3 DEF StartsClean, Bad
<1> QED BY <1>2, <1>3

\* A lost call, a cancelled one, and a killed pod.
LEMMA StopKeeps ==
    ASSUME RunnerInv, NEW j \in JobIds, Lose(j) \/ Cancelled(j) \/ Kill(j)
    PROVE  RunnerInv' /\ StartsClean
<1>1. PodOK(pod[j])
    BY DEF RunnerInv, JobOK
<1>2. CASE Lose(j) \/ Cancelled(j)
  <2> DEFINE q == AfterReply(pod[j], FALSE)
  <2>1. pod[j].pc \in Calling /\ pod' = [pod EXCEPT ![j] = q]
      BY <1>2 DEF Lose, Cancelled, Pending
  <2>2. PodOK(q) /\ Doomed(q) /\ (pod[j].pc = "reporting" => q.pc \in Stopped)
      BY <1>1, <2>1, ReplyOK
  <2>3. row' = row \/ (Pending(pod[j]) /\ row' = RowAfter(j))
      BY <1>2 DEF Lose, Cancelled
  <2> HIDE DEF q
  <2> QED BY <2>1, <2>2, <2>3, UnansweredKeeps
<1>3. CASE Kill(j)
  <2> DEFINE q == [NewPod EXCEPT !.pc = "killed"]
  <2>1. pod[j].pc \in Calling \cup Working /\ pod' = [pod EXCEPT ![j] = q]
      BY <1>3 DEF Kill
  <2>2. q \in Pods /\ q.pc = "killed"
      BY NewPodOK DEF PodOK, Pods, Stopped
  <2> HIDE DEF q
  <2>3. PodOK(q) /\ Doomed(q) /\ q.pc \in Stopped
      BY <2>2 DEF PodOK, Doomed, Stopped, Calling, OfAStep
  <2>4. row' = row \/ (Pending(pod[j]) /\ row' = RowAfter(j))
      BY <1>3 DEF Kill
  <2> QED BY <2>1, <2>3, <2>4, UnansweredKeeps
<1> QED BY <1>2, <1>3

\* The pod starts.
LEMMA PodStartKeeps ==
    ASSUME RunnerInv, NEW j \in JobIds, PodStart(j) PROVE RunnerInv' /\ StartsClean
<1> DEFINE p == pod[j]
<1>1. JobOK(row, p, j) /\ p.pc = "pending" /\ p \in Pods /\ row' = row
    BY DEF RunnerInv, JobOK, PodOK, PodStart
<1>2. PICK q \in {StartEntry(p, 1), Post(p, "leaving", NoEvent)} : pod' = [pod EXCEPT ![j] = q]
    BY DEF PodStart
<1> HIDE DEF p
<1>3. PodOK(q) /\ q.pc \in {"starting", "planning", "reporting", "leaving"}
    BY <1>1, <1>2, StartEntryOK, LeavingOK DEF JobOK
<1>4. /\ \A s \in Slugs : row.steps[j][s] \notin Bad
      /\ row.outputs[Abort] # j /\ row.reports[j].conclusion # "success"
    BY <1>1 DEF JobOK, Beginning, Doomed, Stopped
<1>5. JobOK(row, q, j)
    BY <1>3, <1>4 DEF JobOK
<1> QED BY <1>1, <1>2, <1>5, PodOnly

\* The cases of a group are chosen.
LEMMA PlanCasesKeeps ==
    ASSUME RunnerInv, NEW j \in JobIds, PlanCases(j) PROVE RunnerInv' /\ StartsClean
<1> DEFINE p == pod[j]
<1>1. JobOK(row, p, j) /\ p.pc = "planning" /\ p \in Pods /\ row' = row
    BY DEF RunnerInv, JobOK, PodOK, PlanCases
<1>2. /\ \A s \in Slugs : row.steps[j][s] \notin Bad
      /\ row.outputs[Abort] # j /\ row.reports[j].conclusion # "success"
    BY <1>1 DEF JobOK, Beginning, Doomed, Stopped
<1>3. CASE pod' = [pod EXCEPT ![j] = Fail(p)]
  <2> DEFINE q == Fail(p)
  <2>1. PodOK(q) /\ q.pc \in {"leaving", "reporting"}
      BY <1>1, FailOK
  <2> HIDE DEF q, p
  <2>2. JobOK(row, q, j)
      BY <1>2, <2>1 DEF JobOK, Beginning, OnStep
  <2> QED BY <1>1, <1>3, <2>2, PodOnly DEF q
<1>4. ASSUME NEW n \in 0 .. MaxItems,
             pod' = [pod EXCEPT ![j] =
                 Post([p EXCEPT !.cases = n], "expanding",
                      [OfStep("dynamic_group_expanded", [p EXCEPT !.cases = n])
                          EXCEPT !.count = n])]
      PROVE  RunnerInv' /\ StartsClean
  <2> DEFINE r == [p EXCEPT !.cases = n]
             e == [OfStep("dynamic_group_expanded", r) EXCEPT !.count = n]
             q == Post(r, "expanding", e)
  <2>1. n \in Nat
      BY PlanAssumption
  <2>2. r \in Pods
      BY <1>1, <2>1 DEF Pods
  <2>3. /\ "dynamic_group_expanded" \in Kinds /\ "expanding" \in Calling \ {"reporting"}
        /\ Kind("expanding") = "dynamic_group_expanded"
      BY DEF Kinds, Calling, Kind
  <2> HIDE DEF r
  <2>4. /\ OfStep("dynamic_group_expanded", r) \in Events
        /\ OfStep("dynamic_group_expanded", r).kind = "dynamic_group_expanded"
        /\ OfStep("dynamic_group_expanded", r).slug = r.at
      BY <2>2, <2>3, OfStepOK
  <2>5. e \in Events /\ e.kind = "dynamic_group_expanded" /\ e.slug = r.at
      BY <2>1, <2>4 DEF Events
  <2> HIDE DEF e
  <2>6. PodOK(q) /\ q.pc = "expanding"
      BY <2>2, <2>3, <2>5, PostOK
  <2> HIDE DEF q
  <2>7. JobOK(row, q, j)
      BY <1>2, <2>6 DEF JobOK, OnStep
  <2>8. pod' = [pod EXCEPT ![j] = q]
      BY <1>4 DEF q, e, r
  <2> QED BY <1>1, <2>7, <2>8, PodOnly
<1> QED BY <1>3, <1>4 DEF PlanCases

\* A step's process ends.
LEMMA ExecuteKeeps ==
    ASSUME RunnerInv, NEW j \in JobIds, NEW result \in Results,
           Execute(j, result[1], result[2], result[3])
    PROVE  RunnerInv' /\ StartsClean
<1> DEFINE p == pod[j]
           key == result[2]
           ran == [Collected(p, result[3]) EXCEPT
                       !.exit = IF key \in p.outs THEN "error" ELSE result[1]]
           e == [OfStep("phase_output_set", p) EXCEPT !.key = key]
           q == IF key = "none" \/ key \in p.outs THEN Judge(ran) ELSE Post(ran, "publishing", e)
<1>1. JobOK(row, p, j) /\ p.pc = "executing" /\ p \in Pods /\ row' = row
    BY DEF RunnerInv, JobOK, PodOK, Execute
<1>2. pod' = [pod EXCEPT ![j] = q]
    BY DEF Execute
<1>3. result[1] \in {"ok", "error"} /\ key \in Keys \cup {"none"} /\ result[3] \in Verdicts
    BY ResultsAssumption
<1>4. Collected(p, result[3]) \in Pods /\ Collected(p, result[3]).at = p.at
    BY <1>1, <1>3 DEF Collected, Pods
<1>5. ran \in Pods /\ ran.at = p.at
    BY <1>3, <1>4 DEF Pods
<1>6. PodOK(q) /\ q.pc \in {"failing", "aborting", "ending", "publishing"} /\ q.at = p.at
  <2> HIDE DEF ran
  <2>1. CASE key = "none" \/ key \in p.outs
      BY <1>5, <2>1, JudgeOK
  <2>2. CASE ~(key = "none" \/ key \in p.outs)
    <3>1. /\ "phase_output_set" \in Kinds /\ "publishing" \in Calling \ {"reporting"}
          /\ Kind("publishing") = "phase_output_set"
        BY DEF Kinds, Calling, Kind
    <3>2. /\ OfStep("phase_output_set", p) \in Events
          /\ OfStep("phase_output_set", p).kind = "phase_output_set"
          /\ OfStep("phase_output_set", p).slug = p.at
        BY <1>1, <3>1, OfStepOK
    <3>3. e \in Events /\ e.kind = "phase_output_set" /\ e.slug = ran.at /\ e.key \in Keys
        BY <1>3, <1>5, <2>2, <3>2 DEF Events
    <3> HIDE DEF e
    <3>4. PodOK(Post(ran, "publishing", e)) /\ Post(ran, "publishing", e).pc = "publishing"
          /\ Post(ran, "publishing", e).at = ran.at
        BY <1>5, <3>1, <3>3, PostOK
    <3> QED BY <1>5, <2>2, <3>4
  <2> QED BY <2>1, <2>2
<1> HIDE DEF q, p
<1>7. JobOK(row, q, j)
  <2>1. /\ \A s \in Slugs \ {p.at} : row.steps[j][s] \notin Bad
        /\ row.outputs[Abort] # j /\ row.reports[j].conclusion # "success"
      BY <1>1 DEF JobOK, OnStep, Doomed, Stopped
  <2> QED BY <1>6, <2>1 DEF JobOK, Beginning
<1> QED BY <1>1, <1>2, <1>7, PodOnly

\* SIGTERM.
LEMMA TerminateKeeps ==
    ASSUME RunnerInv, NEW j \in JobIds, Terminate(j) PROVE RunnerInv' /\ StartsClean
<1> DEFINE p == pod[j]
           q == [p EXCEPT !.term = TRUE]
<1>1. JobOK(row, p, j) /\ p \in Pods /\ row' = row /\ pod' = [pod EXCEPT ![j] = q]
    BY DEF RunnerInv, JobOK, PodOK, Terminate
<1> HIDE DEF p
<1>2. /\ q \in Pods /\ q.pc = p.pc /\ q.at = p.at /\ q.event = p.event
      /\ q.report = p.report
    BY <1>1 DEF Pods
<1> HIDE DEF q
<1>3. JobOK(row, q, j)
    BY <1>1, <1>2 DEF JobOK, PodOK, Doomed
<1> QED BY <1>1, <1>3, PodOnly

\* A report made up for a job.
LEMMA MadeUpKeeps ==
    ASSUME RunnerInv, NEW j \in JobIds, NEW report \in Reports, report.conclusion # "success",
           row' = RecordReport(row, j, report), pod' = pod
    PROVE  RunnerInv' /\ StartsClean
<1>1. row \in Rows /\ JobOK(row, pod[j], j) /\ pod' = [pod EXCEPT ![j] = pod[j]]
    BY DEF RunnerInv
<1>2. /\ row' \in Rows /\ row'.outputs = row.outputs
      /\ \A i \in JobIds \ {j} : row'.steps[i] = row.steps[i] /\ row'.reports[i] = row.reports[i]
      /\ row'.reports[j] \in {row.reports[j], report}
      /\ \A s \in Slugs : /\ row'.steps[j][s] = "active" => row.steps[j][s] = "active"
                          /\ row'.steps[j][s] \in Bad => row.steps[j][s] \in Bad
    BY <1>1, ReportOK
<1>3. JobOK(row', pod[j], j)
    BY <1>1, <1>2 DEF JobOK
<1>4. \A i \in JobIds \ {j} : JobOK(row', pod[i], i)
    BY <1>2 DEF RunnerInv, JobOK
<1>5. RunnerInv'
    BY <1>1, <1>2, <1>3, <1>4, OneJob
<1> QED BY <1>2, <1>5 DEF StartsClean

\* The watcher, the reconciler and the dispatch timeout.
LEMMA SweepKeeps ==
    ASSUME RunnerInv, NEW j \in JobIds, Watch(j) \/ ExpireFailedActive(j) \/ ExpireJob(j)
    PROVE  RunnerInv' /\ StartsClean
<1>1. \A by \in {"watcher", "sweep"} :
          Silent(j, by) \in Reports /\ Silent(j, by).conclusion # "success"
    BY DEF Silent, Reports, Verdicts
<1>2. CASE Watch(j) \/ ExpireFailedActive(j)
    BY <1>1, <1>2, MadeUpKeeps DEF Watch, ExpireFailedActive
<1>3. CASE ExpireJob(j)
  <2> DEFINE report == [NoReport EXCEPT !.conclusion = "timed_out", !.by = "sweep"]
  <2>1. report \in Reports /\ report.conclusion # "success"
      BY DEF NoReport, Reports, Verdicts
  <2>2. row' = RecordReport(row, j, report) /\ pod' = pod
      BY <1>3 DEF ExpireJob
  <2> QED BY <2>1, <2>2, MadeUpKeeps
<1> QED BY <1>2, <1>3

-----------------------------------------------------------------------------
(* What holds of every phase.                                                *)

\* Nothing has begun.
LEMMA InitRunner == Init => RunnerInv
<1> SUFFICES ASSUME Init PROVE RunnerInv
    OBVIOUS
<1>1. row \in Rows
  <2>1. NoReport \in Reports
      BY DEF NoReport, Reports, Verdicts
  <2>2. row = DispatchedRow
      BY DEF Init
  <2> QED BY <2>1, <2>2 DEF DispatchedRow, Rows, JobStates, StepStates
<1>2. pod = [j \in JobIds |-> NewPod]
    BY DEF Init, Launched
<1>3. ASSUME NEW j \in JobIds PROVE JobOK(row, pod[j], j)
  <2>1. PodOK(pod[j]) /\ pod[j].pc = "pending"
      BY <1>2, NewPodOK
  <2>2. \A s \in Slugs : row.steps[j][s] \notin Bad
      BY DEF Init, DispatchedRow, Bad
  <2>3. row.outputs[Abort] # j
      BY NamesAssumption DEF Init, DispatchedRow
  <2>4. row.reports[j].conclusion # "success"
      BY DEF Init, DispatchedRow, NoReport
  <2> QED BY <2>1, <2>2, <2>3, <2>4 DEF JobOK, OnStep
<1> QED BY <1>1, <1>2, <1>3 DEF RunnerInv

\* Every step keeps the invariant, and starts no step behind a failed one.
LEMMA RunnerStep == RunnerInv /\ [Next]_vars => RunnerInv' /\ StartsClean
<1> SUFFICES ASSUME RunnerInv, [Next]_vars PROVE RunnerInv' /\ StartsClean
    OBVIOUS
<1>1. CASE row' = row /\ pod' = pod
    BY <1>1 DEF RunnerInv, StartsClean
<1>2. ASSUME NEW j \in JobIds,
             \/ PodStart(j) \/ Runner(j) \/ Lose(j) \/ Terminate(j) \/ Kill(j)
             \/ Watch(j) \/ ExpireFailedActive(j) \/ ExpireJob(j)
      PROVE  RunnerInv' /\ StartsClean
  <2>1. CASE Runner(j)
      BY <2>1, PlanCasesKeeps, StopKeeps, HandleKeeps, ExecuteKeeps DEF Runner
  <2>2. CASE PodStart(j) \/ Terminate(j)
      BY <2>2, PodStartKeeps, TerminateKeeps
  <2>3. CASE Lose(j) \/ Kill(j)
      BY <2>3, StopKeeps
  <2>4. CASE Watch(j) \/ ExpireFailedActive(j) \/ ExpireJob(j)
      BY <2>4, SweepKeeps
  <2> QED BY <1>2, <2>1, <2>2, <2>3, <2>4
<1>3. CASE ExpireDispatch
    BY <1>1, <1>3 DEF ExpireDispatch
<1>4. CASE UNCHANGED vars
    BY <1>1, <1>4 DEF vars
<1> QED BY <1>2, <1>3, <1>4 DEF Next

\* A step's request to abort outlives lost calls, shutdowns and killed pods: its job never
\* reports success (runStep, requestedAbortReason).
THEOREM AbortAlwaysReported == Spec => []AbortIsReported
<1>1. RunnerInv => AbortIsReported
  <2> SUFFICES ASSUME RunnerInv, NEW j \in JobIds, row.outputs[Abort] = j
               PROVE  row.reports[j].conclusion # "success"
      BY DEF AbortIsReported
  <2> QED BY DEF RunnerInv, JobOK
<1> QED BY <1>1, InitRunner, RunnerStep, PTL DEF Spec

\* No step of a job starts behind one that failed or asked for an abort, in the entries of
\* the plan and the cases of a group, whatever is reported for the job meanwhile (run,
\* runDynamicStepBlock).
THEOREM AlwaysFailClosed == Spec => FailClosed
<1>1. StartsClean =>
          \A j \in JobIds, s, t \in Slugs :
              Earlier(s, t) /\ row.steps[j][s] \in {"failed", "aborted"}
              /\ row'.steps[j][t] = "active" => row.steps[j][t] = "active"
    BY DEF StartsClean
<1> QED BY <1>1, InitRunner, RunnerStep, PTL DEF Spec, FailClosed
=============================================================================
