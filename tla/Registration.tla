---------------------------- MODULE Registration ----------------------------
(***************************************************************************)
(* What registration makes of a submitted workflow: the defaults it fills  *)
(* in, what it accepts, and what the accepted workflow is for a run once   *)
(* its conditions are resolved.  The same validation runs again when a     *)
(* run is dispatched.  A field that may be missing is a set of at most one *)
(* value; a text is a member of a small set.                               *)
(***************************************************************************)
EXTENDS Integers, Sequences, FiniteSets, SequencesExt

CONSTANTS
    Catalog,        \* the runner tools a job may ask for
    CaseIds,        \* verify-case-01, verify-case-02, ...: the ids of bounded cases
    MinTimeout,     \* of a job, when it has one
    MaxTimeout,
    MaxCaseTimeout, \* of a bounded case
    MaxItems        \* of a dynamic group of steps

ASSUME RegistrationAssumption ==
    /\ {MinTimeout, MaxTimeout, MaxCaseTimeout, MaxItems} \subseteq Nat
    /\ MinTimeout <= MaxCaseTimeout /\ MaxCaseTimeout <= MaxTimeout

Unset == ""

\* What a client submits (PhaseSpec, RecyclePolicy, RunnerJobSpec, RunnerStepSpec): a term
\* of a condition, a policy, a step, a job, a phase. A trigger of another name is never
\* matched, and a negative number of attempts is one that is always used up, as 0 is.
TermForm == [ref : STRING, key : STRING]
ConditionForm == [left : TermForm, right : TermForm, negate : BOOLEAN]
PolicyForm ==
    [max : Nat, on : SUBSET {"verify_fail", "verify_malformed"}, landsAt : STRING]
StepForm ==
    [slug : STRING, primitive : STRING, type : STRING, run : BOOLEAN, agent : SUBSET STRING,
     group : STRING, dynamic : SUBSET Nat]
JobForm ==
    [id : STRING, primitive : STRING, managed : BOOLEAN, command : BOOLEAN, tools : Seq(STRING),
     checkout : SUBSET [repo : STRING, ref : TermForm], extras : SUBSET TermForm,
     when : SUBSET ConditionForm, timeout : SUBSET Nat, steps : Seq(StepForm)]
PhaseForm ==
    [name : STRING, kind : STRING, purpose : STRING, runOn : STRING, always : BOOLEAN,
     evidenceGate : BOOLEAN, skipWhenPreserved : BOOLEAN, verify : BOOLEAN,
     policy : SUBSET PolicyForm, inputs : SUBSET [input : STRING, phase : STRING, key : STRING],
     outputs : SUBSET STRING, depends : Seq(STRING), jobs : Seq(JobForm),
     when : SUBSET ConditionForm, workflowRef : SUBSET TermForm]

IsSubmission(wf) ==
    /\ DOMAIN wf = {"phases", "inputs", "vars", "shape", "cases"}
    /\ wf.phases \in Seq(PhaseForm) /\ wf.cases \in Nat
    /\ wf.inputs \in Seq([name : STRING, required : BOOLEAN, default : SUBSET STRING])

JobsOf(phase) == ToSet(phase.jobs)
HasPrimitive(phase, primitive) == \E j \in JobsOf(phase) : j.primitive = primitive
HasCheckout(phase) == \E j \in JobsOf(phase) : j.checkout # {}
IsFinalizer(step) == step.primitive = "verification_finalize"

-----------------------------------------------------------------------------
\* Conditions: a condition compares two terms; `true` and `false` compare a value with
\* itself. A text outside the grammar has a term that refers to nothing known.

RunFacts == {"preserve_test_env"}

Terms(e) == {e.left, e.right}

Parses(e) ==
    \A t \in Terms(e) :
        /\ t.ref \in {"value", "vars", "inputs", "run"}
        /\ t.ref = "run" => t.key \in RunFacts

InputNames(wf) == {i.name : i \in ToSet(wf.inputs)}

\* whenexpr.Validate
ConditionDeclared(wf, when) ==
    \A e \in when :
        /\ Parses(e)
        /\ \A t \in Terms(e) :
              /\ t.ref = "vars" => t.key \in DOMAIN wf.vars
              /\ t.ref = "inputs" => t.key \in InputNames(wf)

\* A reference that resolves to nothing is the empty text.
TermValue(t, ctx) ==
    CASE t.ref = "value" -> t.key
      [] t.ref = "vars" -> IF t.key \in DOMAIN ctx.vars THEN ctx.vars[t.key] ELSE ""
      [] t.ref = "inputs" -> IF t.key \in DOMAIN ctx.inputs THEN ctx.inputs[t.key] ELSE ""
      [] t.ref = "run" -> IF ctx.preserve THEN "true" ELSE "false"

\* Expr.Eval: no condition holds.
Holds(when, ctx) ==
    \A e \in when : (TermValue(e.left, ctx) = TermValue(e.right, ctx)) # e.negate

-----------------------------------------------------------------------------
\* normalizeWorkflowRegisterWithDefaultKind and the canonical form of managed jobs.

PurposeOf(phase) ==
    CASE phase.purpose # Unset -> phase.purpose
      [] phase.purpose = Unset /\ phase.evidenceGate -> "evidence_gate"
      [] phase.purpose = Unset /\ ~phase.evidenceGate /\ HasPrimitive(phase, "pr_review") -> "review"
      [] OTHER -> IF phase.verify THEN "verification" ELSE "work"

RunOnOf(phase) ==
    IF phase.runOn # Unset THEN phase.runOn
    ELSE IF PurposeOf(phase) = "teardown" THEN "always" ELSE "success"

\* CanonicalRunnerStep, and the type of a step that only has a script.
CanonicalStep(step) ==
    IF IsFinalizer(step)
    THEN [step EXCEPT !.slug = IF @ = Unset THEN "verification_finalize" ELSE @, !.type = "run",
                      !.run = TRUE, !.agent = {}, !.group = Unset, !.dynamic = {}]
    ELSE IF step.type = Unset /\ step.run THEN [step EXCEPT !.type = "run"] ELSE step

ManagedStep(slug) ==
    [slug |-> slug, primitive |-> Unset, type |-> "run", run |-> TRUE, agent |-> {},
     group |-> Unset, dynamic |-> {}]

\* canonicalPRReviewJob, canonicalPRMergeJob: of a managed job only its id and its
\* timeout are the author's.
ManagedJob(job) ==
    [id |-> IF job.id = Unset THEN job.primitive ELSE job.id, primitive |-> job.primitive,
     managed |-> TRUE, command |-> FALSE, tools |-> <<>>, checkout |-> {}, extras |-> {}, when |-> {},
     timeout |-> IF job.timeout = {} THEN {MinTimeout} ELSE job.timeout,
     steps |-> <<ManagedStep(job.primitive)>>]

CanonicalJob(job) ==
    IF job.primitive \in {"pr_review", "pr_merge"} THEN ManagedJob(job)
    ELSE [job EXCEPT !.steps = [i \in DOMAIN @ |-> CanonicalStep(@[i])]]

\* CanonicalRunnerPhase, for phases that are not the retired evidence gate: one of those
\* is rejected whatever its jobs are.
CanonicalPhase(phase) ==
    [phase EXCEPT !.jobs = [i \in DOMAIN @ |-> CanonicalJob(@[i])]]

GitRef == [ref |-> "inputs", key |-> "git_ref"]
Main == [ref |-> "value", key |-> "main"]

NormalPhase(phase) ==
    LET kept == [phase EXCEPT !.kind = IF @ = Unset THEN "k8s_job" ELSE @,
                    !.workflowRef = IF @ # {} THEN @
                                    ELSE IF HasCheckout(phase) THEN {GitRef} ELSE {Main}]
        canon == CanonicalPhase(kept)
    IN  [canon EXCEPT !.purpose = PurposeOf(canon), !.runOn = RunOnOf(canon)]

Normalised(wf) == [wf EXCEPT !.phases = [i \in DOMAIN @ |-> NormalPhase(@[i])]]

-----------------------------------------------------------------------------
\* The run inputs a workflow declares and refers to.

InputsValid(wf) ==
    /\ \A i \in DOMAIN wf.inputs :
           /\ wf.inputs[i].name # Unset
           /\ wf.inputs[i].required \/ wf.inputs[i].default # {}
    /\ Cardinality(InputNames(wf)) = Len(wf.inputs)

\* The refs the launcher resolves against the run's inputs.
Refs(job) == {c.ref : c \in job.checkout} \union job.extras

InputRefsDeclared(wf) ==
    \A phase \in ToSet(wf.phases) :
        \A r \in phase.workflowRef \union UNION {Refs(job) : job \in JobsOf(phase)} :
            r.ref = "inputs" => r.key \in InputNames(wf)

\* validateMandatoryGitRefFeature: a checkout follows the run's git_ref.
GitRefMandatory(wf) ==
    (\E phase \in ToSet(wf.phases) : HasCheckout(phase)) =>
        /\ \E i \in ToSet(wf.inputs) : i.name = "git_ref" /\ i.required /\ i.default # {}
        /\ \A phase \in ToSet(wf.phases) :
              /\ \A job \in JobsOf(phase) : \A c \in job.checkout : c.ref = GitRef
              /\ HasCheckout(phase) => phase.workflowRef = {GitRef}

\* mutant: a reference may name a phase that comes later
RefsSomewhere(wf) ==
    \A p \in DOMAIN wf.phases : \A in \in wf.phases[p].inputs :
        \E q \in DOMAIN wf.phases :
            q # p /\ wf.phases[q].name = in.phase /\ in.key \in wf.phases[q].outputs

\* phaserefs.Validate: an input of a phase is a declared output of an earlier one.
RefsBackwards(wf) ==
    \A p \in DOMAIN wf.phases : \A in \in wf.phases[p].inputs :
        \E q \in 1..(p - 1) :
            wf.phases[q].name = in.phase /\ in.key \in wf.phases[q].outputs

-----------------------------------------------------------------------------
\* The jobs of a phase, validateRunnerJobSpec.

StepValid(job, step) ==
    IF step.primitive # Unset THEN job.managed /\ IsFinalizer(step)
    ELSE IF ~job.managed THEN step.type # "agent"
    ELSE \/ step.type \in {Unset, "run"} /\ step.run /\ step.agent = {}
         \/ step.type = "agent" /\ ~step.run /\ step.agent # {}

\* A field that names the members of a sequence does so uniquely.
Unique(seq) == Cardinality(ToSet(seq)) = Len(seq) /\ Unset \notin ToSet(seq)

JobValid(job) ==
    /\ job.managed => ~job.command
    /\ job.tools # <<>> => job.managed /\ Unique(job.tools) /\ ToSet(job.tools) \subseteq Catalog
    /\ job.timeout \subseteq MinTimeout..MaxTimeout
    /\ \A c \in job.checkout : c.repo = Unset
    /\ Unique([i \in DOMAIN job.steps |-> job.steps[i].slug])
    /\ \A step \in ToSet(job.steps) : StepValid(job, step)

\* The primitive of a managed job and the phase it belongs to.
PrimitiveFits(phase, job) ==
    \/ job.primitive = Unset
    \/ job.primitive = "pr_review" /\ phase.purpose = "review" /\ phase.runOn = "success"
    \/ job.primitive = "pr_merge" /\ phase.purpose = "review_gate"

JobsValid(phase) ==
    /\ Unique([i \in DOMAIN phase.jobs |-> phase.jobs[i].id])
    /\ \A job \in JobsOf(phase) : PrimitiveFits(phase, job) /\ JobValid(job)

-----------------------------------------------------------------------------
\* The job or jobs of the verification phase, by the declared or inferred shape.

HasDynamic(job) == \E step \in ToSet(job.steps) : step.dynamic # {}

\* inferVerificationConstraintShape looks at the first verification phase.
ShapeOf(wf) ==
    LET verify == {p \in DOMAIN wf.phases : wf.phases[p].verify}
    IN  IF wf.shape # Unset THEN wf.shape
        ELSE IF verify = {} THEN "single_job"
        ELSE LET jobs == wf.phases[CHOOSE p \in verify : \A q \in verify : p <= q].jobs
             IN  IF Len(jobs) # 1 THEN "bounded_case_jobs"
                 ELSE IF HasDynamic(jobs[1]) THEN "dynamic_step_group" ELSE "single_job"

CasesOf(wf) ==
    IF ShapeOf(wf) = "bounded_case_jobs" /\ wf.cases = 0 THEN Len(CaseIds) ELSE wf.cases

ConstraintsValid(wf) ==
    /\ ShapeOf(wf) \in {"single_job", "bounded_case_jobs", "dynamic_step_group"}
    /\ CasesOf(wf) \in 0..Len(CaseIds)

\* validateSingleVerificationJob: the finalizer is its last step.
SingleJobValid(phase) ==
    /\ Len(phase.jobs) = 1
    /\ LET steps == phase.jobs[1].steps
       IN  {i \in DOMAIN steps : IsFinalizer(steps[i])} = {Len(steps)} /\ steps # <<>>

\* validateBoundedVerificationCaseJobs
CaseJobsValid(phase, cases) ==
    /\ Len(phase.jobs) = cases
    /\ \A i \in DOMAIN phase.jobs :
          /\ phase.jobs[i].id = CaseIds[i]
          /\ phase.jobs[i].timeout # {}
          /\ \A t \in phase.jobs[i].timeout : t <= MaxCaseTimeout

\* validateDynamicVerificationJob: one contiguous block of steps, of one group.
DynamicJobValid(phase) ==
    /\ Len(phase.jobs) = 1
    /\ LET steps == phase.jobs[1].steps
           block == {i \in DOMAIN steps : steps[i].dynamic # {}}
       IN  /\ block # {}
           /\ \A i, k \in block : i..k \subseteq block
           /\ \E group \in {steps[i].group : i \in block} \ {Unset}, max \in 1..MaxItems :
                 \A i \in block : steps[i].group = group /\ steps[i].dynamic = {max}

VerificationValid(wf, phase) ==
    CASE ShapeOf(wf) = "single_job" -> SingleJobValid(phase)
      [] ShapeOf(wf) = "bounded_case_jobs" -> CaseJobsValid(phase, CasesOf(wf))
      [] OTHER -> DynamicJobValid(phase)

-----------------------------------------------------------------------------
\* The phases, ValidateWorkflowRegister.

\* What purpose, run_on and the fields that were retired allow.
PurposeValid(wf, phase) ==
    /\ phase.kind = "k8s_job"
    /\ phase.purpose \in {"work", "verification", "teardown", "review", "review_gate"}
    /\ phase.runOn \in {"success", "failure", "always"}
    /\ ~phase.always /\ ~phase.evidenceGate /\ ~phase.skipWhenPreserved
    /\ phase.verify <=> phase.purpose = "verification"
    /\ phase.verify => phase.policy # {} /\ VerificationValid(wf, phase)
    /\ phase.purpose = "teardown" <=> phase.runOn # "success"
    /\ phase.purpose = "teardown" => phase.inputs = {}
    /\ phase.purpose = "review" => phase.name = "review" /\ HasPrimitive(phase, "pr_review")

\* The gate is one pr_merge job and has no retries of its own.
GateValid(phase) ==
    phase.purpose = "review_gate" =>
        /\ phase.name = "review_gate"
        /\ phase.policy = {}
        /\ Len(phase.jobs) = 1 /\ phase.jobs[1].primitive = "pr_merge"

Conditional(phase) == {i \in DOMAIN phase.jobs : phase.jobs[i].when # {}}

\* mutant: a phase may have a condition on every job
SomeConditionsValid(wf, phase) ==
    /\ phase.when # {} \/ Conditional(phase) # {} =>
           phase.purpose \notin {"verification", "review_gate"}
    /\ phase.when # {} => phase.depends # <<>> /\ ConditionDeclared(wf, phase.when)
    /\ \A job \in JobsOf(phase) : ConditionDeclared(wf, job.when)

\* A gate and an entry phase always run, and so does one job of every phase.
ConditionsValid(wf, phase) ==
    /\ phase.when # {} \/ Conditional(phase) # {} =>
           phase.purpose \notin {"verification", "review_gate"}
    /\ phase.when # {} => phase.depends # <<>> /\ ConditionDeclared(wf, phase.when)
    /\ \A job \in JobsOf(phase) : ConditionDeclared(wf, job.when)
    /\ phase.jobs # <<>> => Conditional(phase) # DOMAIN phase.jobs

\* The phases are a chain from "prepare".
Chained(wf) ==
    /\ Unique([p \in DOMAIN wf.phases |-> wf.phases[p].name])
    /\ wf.phases[1].name = "prepare" /\ wf.phases[1].depends = <<>>
    /\ \A p \in 2..Len(wf.phases) : wf.phases[p].depends = <<wf.phases[p - 1].name>>

OnePhase(wf, purpose) ==
    Cardinality({p \in DOMAIN wf.phases : wf.phases[p].purpose = purpose}) = 1

OneReviewJob(wf) ==
    Cardinality(UNION {{<<p, i>> : i \in {k \in DOMAIN wf.phases[p].jobs :
                                             wf.phases[p].jobs[k].primitive = "pr_review"}} :
                       p \in DOMAIN wf.phases}) = 1

Registrable(wf) ==
    /\ wf.phases # <<>>
    /\ InputsValid(wf) /\ InputRefsDeclared(wf) /\ Unset \notin DOMAIN wf.vars
    /\ ConstraintsValid(wf)
    /\ Chained(wf)
    /\ \A phase \in ToSet(wf.phases) :
          PurposeValid(wf, phase) /\ GateValid(phase) /\ ConditionsValid(wf, phase) /\ JobsValid(phase)
    /\ OnePhase(wf, "verification") /\ OnePhase(wf, "review_gate") /\ OneReviewJob(wf)
    /\ \E phase \in ToSet(wf.phases) : phase.purpose = "teardown"
    /\ RefsBackwards(wf)
    /\ GitRefMandatory(wf)

-----------------------------------------------------------------------------
\* The workflow of module Workflow that a registration is for a run whose conditions
\* are resolved in ctx. A policy that lands at no phase of the workflow lands nowhere.

Landing(wf, name) ==
    IF name \in {Unset, "self"} THEN 0
    ELSE LET found == {p \in DOMAIN wf.phases : wf.phases[p].name = name}
         IN  IF found = {} THEN Len(wf.phases) + 1 ELSE CHOOSE p \in found : TRUE

Resolved(wf, ctx) ==
    [p \in DOMAIN wf.phases |->
        LET phase == wf.phases[p] IN
        [purpose |-> phase.purpose, runOn |-> phase.runOn, verify |-> phase.verify,
         policy  |-> IF phase.policy = {} THEN [max |-> 0, on |-> {}, landsAt |-> 0]
                     ELSE LET policy == CHOOSE r \in phase.policy : TRUE
                          IN  [policy EXCEPT !.landsAt = Landing(wf, @)],
         jobs    |-> [i \in DOMAIN phase.jobs |-> phase.jobs[i].id],
         when    |-> Holds(phase.when, ctx),
         skips   |-> {job.id : job \in {j \in JobsOf(phase) : ~Holds(j.when, ctx)}}]]
=============================================================================
