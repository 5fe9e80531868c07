----------------------------- MODULE PhaseFlow ------------------------------
(***************************************************************************)
(* What flows through a run: from a registration to the phases a run of it *)
(* launches, with the inputs each is given, the conditions that skip it    *)
(* and the outputs it publishes.  A run is dispatched in the ordinary way, *)
(* or synthetically at a phase of the caller's choice with the outputs of  *)
(* earlier phases supplied or copied.  The handlers of a run are taken one *)
(* at a time here; their interleavings are RunLifecycle's.  A dispatch     *)
(* that is refused ends the flow, with the reason.                         *)
(***************************************************************************)
EXTENDS Registration

CONSTANTS
    Submitted,      \* the workflows clients submit
    CallerInputs,   \* the run inputs callers send
    Requests(_),    \* the synthetic dispatches of a workflow that callers send
    FlowCycles,     \* bound on the cycles of a run
    FlowRuns        \* bound on the runs of a behaviour

ASSUME SubmittedAssumption == \A wf \in Submitted : IsSubmission(wf)

VARIABLES
    registered,     \* the accepted registration: a sequence of at most one
    flow,           \* the run
    source          \* the attempts of the run before it

flowVars == <<registered, flow, source>>

Wf == registered[1]

\* The questions the engine asks of a workflow and of the attempts of a run.
Graph(Phases, JobIds, Budget) == INSTANCE Routing

AllJobs(wf) == UNION {{j.id : j \in JobsOf(wf.phases[p])} : p \in DOMAIN wf.phases}

\* whenexpr.Context of a dispatch of run r.
Context(wf, r) == [vars |-> wf.vars, inputs |-> r.inputs, preserve |-> r.preserve]
PhasesOf(wf, r) == Resolved(wf, Context(wf, r))

Fresh(p) ==
    [phase |-> p, completed |-> FALSE, concl |-> "none", verif |-> "none", abort |-> FALSE,
     decision |-> "none", carry |-> FALSE, published |-> {}, partial |-> FALSE]

\* An attempt counted as done: carried from the parent cycle, or supplied by the caller.
Done(p, keys) ==
    [Fresh(p) EXCEPT !.completed = TRUE, !.concl = "success", !.decision = "advance",
                     !.carry = TRUE, !.published = keys]

\* refused: the dispatch that was refused and why; legs: the phases that were skipped, or
\* had jobs skipped, in any cycle of the run.
NoRun ==
    [state |-> "none", synthetic |-> FALSE, attempts |-> <<>>, inputs |-> [n \in {} |-> ""],
     preserve |-> FALSE, slot |-> FALSE, cycle |-> 0, number |-> 0, refused |-> {},
     legs |-> {}]

FlowInit == registered = <<>> /\ flow = NoRun /\ source = <<>>

Submit ==
    /\ registered = <<>>
    /\ \E wf \in Submitted :
          Registrable(Normalised(wf)) /\ registered' = <<Normalised(wf)>>
    /\ UNCHANGED <<flow, source>>

-----------------------------------------------------------------------------
\* The run's inputs.

Supplied(given, name) == name \in DOMAIN given /\ given[name] # ""

\* resolveDispatchRunInputs: only declared inputs, and a value or a default for each.
InputsAccepted(wf, given) ==
    /\ DOMAIN given \subseteq InputNames(wf)
    /\ \A i \in DOMAIN wf.inputs : Supplied(given, wf.inputs[i].name) \/ wf.inputs[i].default # {}

RunInputs(wf, given) ==
    [name \in InputNames(wf) |->
        IF Supplied(given, name) THEN given[name]
        ELSE LET i == CHOOSE k \in DOMAIN wf.inputs : wf.inputs[k].name = name
             IN  CHOOSE v \in wf.inputs[i].default : TRUE]

\* resolveRunnerCheckoutRunInputs: every input a checkout of the phase refers to is there.
RefsResolve(phase, inputs) ==
    \A job \in JobsOf(phase) : \A r \in Refs(job) : r.ref = "inputs" => r.key \in DOMAIN inputs

-----------------------------------------------------------------------------
\* The inputs of a phase.

\* What the latest attempt with outputs published of a phase (substituteCompletionPhaseInputs).
Outputs(attempts, p) ==
    LET with == {i \in DOMAIN attempts : attempts[i].phase = p /\ attempts[i].published # {}}
    IN  IF with = {} THEN {}
        ELSE attempts[CHOOSE i \in with : \A k \in with : k <= i].published

Skipped(attempts, p) ==
    \E i \in DOMAIN attempts :
        attempts[i].phase = p /\ (attempts[i].concl = "skipped" \/ attempts[i].partial)

\* phaserefs.Substitute: a key that was not published resolves to the empty text where
\* the phase was skipped or jobs of it were, and is an error otherwise.
InputsResolve(wf, target, attempts) ==
    \A in \in wf.phases[target].inputs : \E p \in DOMAIN wf.phases :
        /\ wf.phases[p].name = in.phase
        /\ in.key \in Outputs(attempts, p) \/ Skipped(attempts, p)

-----------------------------------------------------------------------------
\* Launching a phase whose attempt is the run's latest.

Refusal(r, why, p) == [r EXCEPT !.state = "over", !.refused = {<<why, p>>}]

\* leaseForRunPhase and LaunchPhase, the caller having recorded the skipped jobs.
Launched(wf, r, leased) ==
    LET p == Last(r.attempts).phase
    IN  IF ~leased THEN Refusal(r, "lease", p)
        ELSE IF ~RefsResolve(wf.phases[p], r.inputs) THEN Refusal(r, "ref", p)
        ELSE IF wf.phases[p].jobs = <<>> THEN Refusal(r, "jobs", p)
        ELSE [r EXCEPT !.state = "running"]

Opened(wf, r, p) ==
    LET graph == PhasesOf(wf, r)
        skips == Graph(graph, AllJobs(wf), 1)!SkippedJobs(p)
    IN  [r EXCEPT !.attempts = Append(@, [Fresh(p) EXCEPT !.partial = skips # {}]),
                  !.legs = IF skips # {} THEN @ \union {p} ELSE @]

\* dispatchForwardPhase: a gate parks, a phase whose conditions are false is stamped
\* skipped and passed over.
Forward(wf, r, p) ==
    LET graph == PhasesOf(wf, r)
        skip  == [Fresh(p) EXCEPT !.completed = TRUE, !.concl = "skipped", !.decision = "advance"]
    IN  IF ~InputsResolve(wf, p, r.attempts) THEN Refusal(r, "input", p)
        ELSE IF wf.phases[p].purpose = "review_gate"
             THEN [r EXCEPT !.attempts = Append(@, Fresh(p)), !.state = "parked"]
        ELSE IF Graph(graph, AllJobs(wf), 1)!PhaseRuns(p)
             THEN Launched(wf, Opened(wf, r, p), r.slot)
        ELSE [r EXCEPT !.attempts = Append(@, skip), !.legs = @ \union {p}]

\* retryCarryForwardAttempts: the phases before the landing, with the outputs of their
\* latest finished attempts and nothing of what they skipped.
Carried(wf, r, target) ==
    LET graph   == PhasesOf(wf, r)
        carried == Graph(graph, AllJobs(wf), 1)!CarriedForward(r.attempts, target)
        finished == {i \in DOMAIN r.attempts :
                        r.attempts[i].completed \/ r.attempts[i].decision # "none"}
        Latest(p) == CHOOSE i \in finished :
                        /\ r.attempts[i].phase = p
                        /\ \A k \in finished : r.attempts[k].phase = p => k <= i
    IN  [i \in DOMAIN carried |->
            Done(carried[i].phase, r.attempts[Latest(carried[i].phase)].published)]

\* dispatchRetry: what the first phase of the cycle is given still sees the parent's skips.
Recycled(wf, r, failing) ==
    LET graph  == PhasesOf(wf, r)
        target == Graph(graph, AllJobs(wf), 1)!RetryTarget(failing)
        carry  == Carried(wf, r, target)
        cycle  == [r EXCEPT !.attempts = carry, !.cycle = @ + 1]
    IN  IF target \notin DOMAIN wf.phases THEN Refusal(r, "target", target)
        ELSE IF ~InputsResolve(wf, target, r.attempts \o carry) THEN Refusal(r, "input", target)
        ELSE IF ~r.slot THEN Refusal(r, "lease", target)
        ELSE Launched(wf, Opened(wf, cycle, target), TRUE)

-----------------------------------------------------------------------------
\* Dispatch.

\* dispatchRunWithAgentRuntime and admitRunCycle. The fast path evaluates the conditions
\* of the entry phase without the run's preserve_test_env; the queue's admission has it.
DispatchRun ==
    /\ registered # <<>> /\ flow.state = "none" /\ flow.number < FlowRuns
    /\ \E given \in CallerInputs, preserve, queued \in BOOLEAN :
          /\ InputsAccepted(Wf, given)
          /\ LET run == [NoRun EXCEPT !.number = flow.number + 1, !.cycle = 1, !.slot = TRUE,
                                      !.inputs = RunInputs(Wf, given),
                                      !.preserve = preserve /\ queued]
             IN  flow' = [Launched(Wf, Opened(Wf, run, 1), TRUE) EXCEPT !.preserve = preserve]
    /\ UNCHANGED <<registered, source>>

Primary(phase) == phase.purpose \notin {"teardown", "review", "review_gate"}

\* syntheticRunRequiresSlot
NeedsSlot(wf, start) == \E p \in start..Len(wf.phases) : Primary(wf.phases[p])

\* mutant: a synthetic run may start anywhere
StartAnywhere(wf, start) == start \in DOMAIN wf.phases

\* validateSyntheticStartAtPhase: not after the first phase with a pr_review job.
StartAllowed(wf, start) ==
    /\ start \in DOMAIN wf.phases
    /\ \A p \in 1..(start - 1) : ~HasPrimitive(wf.phases[p], "pr_review")

SlugsOf(job) == {job.steps[i].slug : i \in DOMAIN job.steps}

\* validateSyntheticSkipSteps: steps of the start phase that no primitive owns, and not
\* every step of a job.
SkipAllowed(phase, slugs) ==
    /\ slugs \subseteq UNION {SlugsOf(job) : job \in JobsOf(phase)}
    /\ \A job \in JobsOf(phase) :
          /\ \A i \in DOMAIN job.steps :
                job.steps[i].slug \in slugs => job.steps[i].primitive = Unset
          /\ job.steps # <<>> => ~(SlugsOf(job) \subseteq slugs)

\* latestCompletedAttemptForPhase: what the source run has for phase p, which must have
\* completed and published every key asked for.
CopyAllowed(copied) ==
    \A p \in DOMAIN copied :
        LET done == {i \in DOMAIN source : source[i].phase = p /\ source[i].completed}
        IN  /\ copied[p] # {} /\ done # {}
            /\ copied[p] \subseteq source[CHOOSE i \in done : \A k \in done : k <= i].published

Keys(outputs, p) == IF p \in DOMAIN outputs THEN outputs[p] ELSE {}

\* mergeSyntheticSuppliedPhaseOutputs, syntheticSuppliedAttempts: one done attempt for
\* each phase that was supplied or copied, in the order the caller names them in.
SuppliedAttempts(request) ==
    LET phases == SetToSeq(DOMAIN request.supplied \union DOMAIN request.copied)
    IN  [i \in DOMAIN phases |->
            Done(phases[i], Keys(request.supplied, phases[i]) \union Keys(request.copied, phases[i]))]

\* The keys canonical PR state is made of: no caller supplies them.
ManagedKeys == {"pr_number", "pr_url", "review_ref", "merge_status", "merge_commit_sha"}

\* validateSyntheticSuppliedPhaseOutputs and the bounds on the phases: before the start,
\* and none that a managed PR primitive owns.
SupplyAllowed(wf, request) ==
    LET phases == DOMAIN request.supplied \union DOMAIN request.copied IN
    /\ phases \subseteq 1..(request.start - 1)
    /\ \A p \in phases :
          /\ ~HasPrimitive(wf.phases[p], "pr_review") /\ ~HasPrimitive(wf.phases[p], "pr_merge")
          /\ ManagedKeys \intersect (Keys(request.supplied, p) \union Keys(request.copied, p)) = {}

\* syntheticDispatchRunWithAgentRuntime, up to the lease: a lease that is named is claimed.
SyntheticAccepted(wf, request, given) ==
    /\ InputsAccepted(wf, given)
    /\ StartAllowed(wf, request.start)
    /\ NeedsSlot(wf, request.start) => request.slot
    /\ SkipAllowed(wf.phases[request.start], request.skip)
    /\ CopyAllowed(request.copied) /\ SupplyAllowed(wf, request)
    /\ InputsResolve(wf, request.start, SuppliedAttempts(request))

\* The run it creates. The phase at which that starts is launched whatever its own
\* condition says.
SyntheticDispatch ==
    /\ registered # <<>> /\ flow.state = "none" /\ flow.number < FlowRuns
    /\ \E request \in Requests(Wf), given \in CallerInputs, preserve \in BOOLEAN :
          /\ SyntheticAccepted(Wf, request, given)
          /\ LET run == [NoRun EXCEPT !.number = flow.number + 1, !.cycle = 1, !.synthetic = TRUE,
                                      !.slot = request.slot, !.inputs = RunInputs(Wf, given),
                                      !.preserve = preserve,
                                      !.attempts = SuppliedAttempts(request)]
             IN  flow' = Launched(Wf, Opened(Wf, run, request.start), TRUE)
    /\ UNCHANGED <<registered, source>>

-----------------------------------------------------------------------------
\* The steps of a run.

\* What the jobs of phase p add up to. Jobs that all ran published every output their
\* phase declares; where some were skipped, or one failed, any of them may be missing.
PhaseEnds(wf, p, partial) ==
    LET all == wf.phases[p].outputs
        Ends(concl, verif, keys) == [concl |-> concl, verif |-> verif, keys |-> keys]
    IN  {Ends("success", IF wf.phases[p].verify THEN "pass" ELSE "none", keys) :
            keys \in IF partial THEN SUBSET all ELSE {all}}
        \union {Ends("failure", IF wf.phases[p].verify THEN "fail" ELSE "none", {})}

\* processRunCompletion of the phase in flight: its verdict is the core's.
Complete ==
    /\ flow.state = "running"
    /\ LET last  == Last(flow.attempts)
           graph == PhasesOf(Wf, flow)
       IN  \E end \in PhaseEnds(Wf, last.phase, last.partial) :
              LET ended    == [last EXCEPT !.completed = TRUE, !.concl = end.concl,
                                           !.verif = end.verif, !.published = end.keys]
                  attempts == [flow.attempts EXCEPT ![Len(flow.attempts)] = ended]
                  verdict  == Graph(graph, AllJobs(Wf), 1)!Decide(attempts, flow.cycle, 0)
              IN  flow' = [flow EXCEPT
                              !.attempts = [attempts EXCEPT ![Len(attempts)].decision = verdict],
                              !.state = IF verdict = "retry" THEN "retrying" ELSE "advancing"]
    /\ UNCHANGED <<registered, source>>

\* dispatchForwardPhase of the next phase, or the end where there is none.
Advance ==
    /\ flow.state = "advancing"
    /\ LET graph  == PhasesOf(Wf, flow)
           target == Graph(graph, AllJobs(Wf), 1)!DispatchTarget(flow.attempts,
                                                                 Last(flow.attempts).decision)
       IN  flow' = IF target = 0 THEN [flow EXCEPT !.state = "over"] ELSE Forward(Wf, flow, target)
    /\ UNCHANGED <<registered, source>>

Retry ==
    /\ flow.state = "retrying" /\ flow.cycle < FlowCycles
    /\ flow' = Recycled(Wf, flow, Last(flow.attempts).phase)
    /\ UNCHANGED <<registered, source>>

\* launchReviewGateMerge: the parked attempt is launched.
ApproveReview ==
    /\ flow.state = "parked"
    /\ flow' = Launched(Wf, flow, flow.slot)
    /\ UNCHANGED <<registered, source>>

\* The next run may copy from this one.
Forget ==
    /\ flow.state = "over"
    /\ source' = flow.attempts
    /\ flow' = [NoRun EXCEPT !.number = flow.number]
    /\ UNCHANGED registered

FlowNext ==
    \/ Submit \/ DispatchRun \/ SyntheticDispatch
    \/ Complete \/ Advance \/ Retry \/ ApproveReview \/ Forget

FlowSpec == FlowInit /\ [][FlowNext]_flowVars

-----------------------------------------------------------------------------
\* Properties.

\* Registration against the engine. Whatever registration accepts is a workflow the
\* completion engine is built for (Workflow!ValidWorkflow, from which the theorems about
\* runs start), however the conditions of its phases and jobs turn out.
AcceptedIsValid ==
    registered # <<>> /\ flow = NoRun =>
        \A given \in CallerInputs, preserve \in BOOLEAN :
            InputsAccepted(Wf, given) =>
                LET run == [NoRun EXCEPT !.inputs = RunInputs(Wf, given), !.preserve = preserve]
                IN  Graph(PhasesOf(Wf, run), AllJobs(Wf), 1)!ValidWorkflow

The(purpose) == CHOOSE p \in DOMAIN Wf.phases : Wf.phases[p].purpose = purpose

\* Every phase that ran in full, in this cycle or in the one it was carried from, published
\* what it declares: a teardown may fail, and go on, and so does a verification that a
\* retry carries.
PublishedAll ==
    \A i \in DOMAIN flow.attempts :
        LET a == flow.attempts[i]
        IN  a.completed /\ a.phase \notin flow.legs => a.published = Wf.phases[a.phase].outputs

\* A policy lands behind a phase that the verification it repeats has not reached.
LandsPast == PhasesOf(Wf, flow)[The("verification")].policy.landsAt > The("verification") + 1

Missing(p) == \E q \in 1..(p - 1) : \A i \in DOMAIN flow.attempts : flow.attempts[i].phase # q

\* Registration against dispatch. When the phases of a run that was dispatched in the
\* ordinary way publish what they declare, no dispatch of it is refused for an input, a
\* checkout's ref or its lease. What registration does let through: a phase without jobs,
\* a policy that lands at no phase or past phases that never ran, and what a later cycle
\* forgot of a skipped leg.
DispatchesResolve ==
    ~flow.synthetic /\ PublishedAll =>
        \A refusal \in flow.refused :
            \/ refusal[1] = "jobs" /\ Wf.phases[refusal[2]].jobs = <<>>
            \/ refusal[1] = "target"
            \/ refusal[1] = "input" /\ flow.cycle > 1 /\ flow.legs # {}
            \/ refusal[1] = "input" /\ LandsPast /\ Missing(refusal[2])

\* The merge of this cycle was launched.
MergeLaunched ==
    flow.state # "parked" /\ \E i \in DOMAIN flow.attempts :
        flow.attempts[i].phase = The("review_gate") /\ ~flow.attempts[i].carry

\* Ran phase p in this cycle, to the verdict verif.
Ran(p, verif) ==
    \E i \in DOMAIN flow.attempts :
        LET a == flow.attempts[i]
        IN  a.phase = p /\ ~a.carry /\ a.completed /\ a.verif = verif

\* A failed verification is carried into a recycled cycle as done. As long as the
\* workflow verifies before it merges and a retry lands no later than the verification,
\* no cycle of an ordinary run merges what that cycle did not verify.
VerifiedMerge ==
    registered # <<>> /\ ~flow.synthetic /\ MergeLaunched =>
        LET verify == The("verification")
            lands  == PhasesOf(Wf, flow)[verify].policy.landsAt
        IN  verify < The("review_gate") /\ lands <= verify => Ran(verify, "pass")

\* A synthetic dispatch chooses its start and supplies what came before, but the pull
\* request it merges is one that its own review phase materialised, where that phase comes
\* before the gate and its condition holds.
SyntheticMergeIsReviewed ==
    registered # <<>> /\ flow.synthetic /\ flow.cycle = 1 /\ MergeLaunched =>
        LET review == The("review")
        IN  review < The("review_gate") /\ review \notin flow.legs => Ran(review, "none")

\* A merge stands on work of this very run: a verification that passed in the cycle that
\* merges, or, after a synthetic dispatch, a review phase that materialised the request.
MergesAreEarned == VerifiedMerge /\ SyntheticMergeIsReviewed

\* docs/workflow-shape.md:209-212: refs to a phase with skipped legs resolve to the empty
\* text when the output was never published.
SkippedRefsResolve ==
    \A refusal \in flow.refused : refusal[1] = "input" =>
        \A in \in Wf.phases[refusal[2]].inputs : \E p \in DOMAIN Wf.phases :
            /\ Wf.phases[p].name = in.phase
            /\ in.key \in Outputs(flow.attempts, p) \/ p \notin flow.legs
=============================================================================
