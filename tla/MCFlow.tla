------------------------------- MODULE MCFlow -------------------------------
(***************************************************************************)
(* The submissions of a workflow of six phases: it, every change and every *)
(* pair of changes to its phases from a list, changes of the order of its  *)
(* phases and of what it declares; and the callers that dispatch it.       *)
(***************************************************************************)
EXTENDS PhaseFlow

Ref(kind, key) == [ref |-> kind, key |-> key]
Is(kind, key, value) == [left |-> Ref(kind, key), right |-> Ref("value", value), negate |-> FALSE]
Preserved == {Is("run", "preserve_test_env", "true")}
Fast == {Is("vars", "mode", "fast")}
Undeclared == {Is("inputs", "colour", "red")}
Garbled == {Is("", "?", "?")}

Finalizer == [ManagedStep("finalize") EXCEPT !.primitive = "verification_finalize"]
AJob(id) ==
    [id |-> id, primitive |-> Unset, managed |-> TRUE, command |-> FALSE, tools |-> <<>>,
     checkout |-> {}, extras |-> {}, when |-> {}, timeout |-> {}, steps |-> <<ManagedStep("s")>>]
Checkout(ref) == [AJob("p") EXCEPT !.checkout = {[repo |-> Unset, ref |-> ref]}]
APhase(name, jobs) ==
    [name |-> name, kind |-> Unset, purpose |-> Unset, runOn |-> Unset, always |-> FALSE,
     evidenceGate |-> FALSE, skipWhenPreserved |-> FALSE, verify |-> FALSE, policy |-> {},
     inputs |-> {}, outputs |-> {}, depends |-> <<>>, jobs |-> jobs, when |-> {},
     workflowRef |-> {}]

Lands(name) == {[max |-> 2, on |-> {"verify_fail"}, landsAt |-> name]}
FromWork == {[input |-> "x", phase |-> "work", key |-> "k"]}

Prepare == APhase("prepare", <<AJob("p")>>)
Work == [APhase("work", <<AJob("a"), AJob("b")>>) EXCEPT !.outputs = {"k"}]
Testing ==
    [APhase("testing", <<[AJob("v") EXCEPT !.steps = <<ManagedStep("s"), Finalizer>>]>>) EXCEPT
        !.verify = TRUE, !.policy = Lands("self"), !.inputs = FromWork]
Review == APhase("review", <<[AJob("r") EXCEPT !.primitive = "pr_review"]>>)
Gate == [APhase("review_gate", <<[AJob("g") EXCEPT !.primitive = "pr_merge"]>>) EXCEPT
            !.purpose = "review_gate"]
Cleanup == [APhase("cleanup", <<AJob("c")>>) EXCEPT !.purpose = "teardown"]

WithCondition(phase, i, when) == [phase EXCEPT !.jobs[i].when = when]

PrepareForms ==
    {[Prepare EXCEPT !.name = "setup"], [Prepare EXCEPT !.when = Fast],
     [Prepare EXCEPT !.purpose = "teardown"], [Prepare EXCEPT !.jobs = <<>>],
     [Prepare EXCEPT !.jobs = <<Checkout(GitRef)>>], [Prepare EXCEPT !.jobs = <<Checkout(Main)>>],
     [Prepare EXCEPT !.jobs = <<AJob("p"), [AJob("q") EXCEPT !.when = Preserved]>>]}
WorkForms ==
    {[Work EXCEPT !.when = Preserved], [Work EXCEPT !.when = Undeclared],
     [Work EXCEPT !.when = Garbled], WithCondition(Work, 2, Fast), WithCondition(Work, 1, Preserved),
     WithCondition(WithCondition(Work, 1, Preserved), 2, Preserved),
     [Work EXCEPT !.jobs[2].id = "a"], [Work EXCEPT !.outputs = {}], [Work EXCEPT !.verify = TRUE],
     [Work EXCEPT !.inputs = {[input |-> "y", phase |-> "testing", key |-> "v"]}],
     [Work EXCEPT !.purpose = "teardown"], [Work EXCEPT !.purpose = "evidence_gate"],
     [Work EXCEPT !.runOn = "always"], [Work EXCEPT !.jobs[1].tools = <<"hammer">>]}
TestingForms ==
    {[Testing EXCEPT !.policy = {}], [Testing EXCEPT !.policy = Lands("testing")],
     [Testing EXCEPT !.policy = Lands("review")], [Testing EXCEPT !.policy = Lands("nowhere")],
     [Testing EXCEPT !.policy = {[max |-> 0, on |-> {}, landsAt |-> Unset]}],
     [Testing EXCEPT !.inputs = {}, !.outputs = {"v"}], [Testing EXCEPT !.when = Fast],
     [Testing EXCEPT !.verify = FALSE], [Testing EXCEPT !.jobs[1].steps = <<ManagedStep("s")>>],
     [Testing EXCEPT !.jobs[1].steps[1].dynamic = {2}, !.jobs[1].steps[1].group = "cases"],
     [Testing EXCEPT !.jobs = <<[AJob("case-1") EXCEPT !.timeout = {2}],
                                [AJob("case-2") EXCEPT !.timeout = {2}]>>]}
ReviewForms ==
    {[Review EXCEPT !.inputs = FromWork], [Review EXCEPT !.name = "look"],
     [Review EXCEPT !.when = Preserved], [Review EXCEPT !.jobs[1].primitive = Unset],
     [Review EXCEPT !.jobs = @ \o <<[AJob("n") EXCEPT !.when = Fast]>>]}
GateForms ==
    {[Gate EXCEPT !.policy = Lands("self")], [Gate EXCEPT !.jobs = @ \o <<AJob("n")>>],
     [Gate EXCEPT !.jobs[1].when = Fast], [Gate EXCEPT !.when = Fast], [Gate EXCEPT !.purpose = Unset]}
CleanupForms ==
    {[Cleanup EXCEPT !.runOn = "success"], [Cleanup EXCEPT !.runOn = "failure"],
     [Cleanup EXCEPT !.inputs = FromWork], [Cleanup EXCEPT !.when = Preserved],
     [Cleanup EXCEPT !.jobs[1].timeout = {9}]}

Plain == <<Prepare, Work, Testing, Review, Gate, Cleanup>>
Forms == <<PrepareForms, WorkForms, TestingForms, ReviewForms, GateForms, CleanupForms>>

Chain(phases) ==
    [p \in DOMAIN phases |->
        [phases[p] EXCEPT !.depends = IF p = 1 THEN <<>> ELSE <<phases[p - 1].name>>]]

GitInput == [name |-> "git_ref", required |-> TRUE, default |-> {"main"}]
Of(phases) ==
    [phases |-> Chain(phases), inputs |-> <<GitInput>>, vars |-> [v \in {"mode"} |-> "fast"],
     shape |-> Unset, cases |-> 0]

Changed ==
    UNION {{Of([Plain EXCEPT ![p] = f, ![q] = g]) : f \in Forms[p], g \in Forms[q]} :
              <<p, q>> \in {pair \in (1..6) \X (1..6) : pair[1] < pair[2]}}
Once == UNION {{Of([Plain EXCEPT ![p] = f]) : f \in Forms[p]} : p \in 1..6}
Orders ==
    {<<1, 2, 4, 3, 5, 6>>, <<1, 2, 5, 3, 4, 6>>, <<1, 2, 6, 3, 4, 5>>, <<1, 3, 2, 4, 5, 6>>,
     <<1, 2, 3, 4, 5>>, <<1, 2, 3, 5, 6>>, <<1, 2, 4, 5, 6>>, <<1, 2, 3, 6, 4, 5>>}
Reordered == {Of([p \in DOMAIN o |-> Plain[o[p]]]) : o \in Orders}
Redeclared ==
    {[Of(Plain) EXCEPT !.inputs = <<>>], [Of(Plain) EXCEPT !.inputs = <<GitInput, GitInput>>],
     [Of(Plain) EXCEPT !.inputs[1].required = FALSE],
     [Of(Plain) EXCEPT !.inputs[1].required = FALSE, !.inputs[1].default = {}],
     [Of(Plain) EXCEPT !.shape = "bounded_case_jobs"],
     [Of(Plain) EXCEPT !.inputs[1].default = {}], [Of(Plain) EXCEPT !.shape = "single_job", !.cases = 3]}

\* A leg that may be skipped, a retry that lands after it and a later phase that refers to it.
Later == [Plain EXCEPT ![2].when = Preserved, ![3].policy = Lands("testing"),
                       ![4].inputs = FromWork]

\* A retry that lands past the review, whose output the gate asks for; and one that lands
\* behind a verification whose output the gate asks for.
Asks(phase) == {[input |-> "x", phase |-> phase, key |-> "v"]}
Past == [Plain EXCEPT ![3].policy = Lands("review_gate"),
                      ![4].outputs = {"v"}, ![5].inputs = Asks("review")]
Unpublished == [Plain EXCEPT ![3].policy = Lands("review"), ![3].outputs = {"v"},
                             ![5].inputs = Asks("testing")]

MCSubmitted == {Of(Plain), Of(Later), Of(Past), Of(Unpublished)}
               \union Once \union Changed \union Reordered \union Redeclared

MCCallers == {[n \in {} |-> ""], [n \in {"git_ref"} |-> "branch"], [n \in {"colour"} |-> "red"]}

\* A synthetic dispatch supplies every phase before its start, or leaves one out, or copies
\* them.
Declares(wf, phases) == [p \in phases |-> wf.phases[p].outputs]
NoOutputs == [p \in {} |-> {}]
MCRequests(wf) ==
    UNION {{[start |-> start, supplied |-> Declares(wf, (1..(start - 1)) \ gap),
             copied |-> NoOutputs, skip |-> skip, slot |-> slot] :
               gap \in {{}} \union {{p} : p \in 1..(start - 1)}, skip \in {{}, {"s"}}, slot \in BOOLEAN}
             \union {[start |-> start, supplied |-> Declares(wf, (1..(start - 1)) \ {2}),
                      copied |-> Declares(wf, {2}), skip |-> {}, slot |-> TRUE]} :
           start \in 2..Len(wf.phases)}

MCCases == <<"case-1", "case-2">>

\* The run that may copy from another is a synthetic one of one workflow, in its first
\* cycle.
SecondIsSimple ==
    source # <<>> =>
        /\ registered[1] = Normalised(Of(Later))
        /\ flow.state # "none" => flow.synthetic /\ flow.cycle = 1
=============================================================================
