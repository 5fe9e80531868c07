------------------------------ MODULE Workflow ------------------------------
(***************************************************************************)
(* The workflow graph a run cycle executes, as registration accepts it     *)
(* (ValidateWorkflowRegister), and the questions the engine asks of it.    *)
(* A workflow is a sequence of phases; a phase is named by its position.   *)
(***************************************************************************)
EXTENDS Integers, Sequences, FiniteSets

CONSTANTS
    JobIds,     \* the job ids that occur in the workflow
    Phases,     \* the sequence of phases, records of PhaseSpec
    Budget      \* wf.Budget.Total, in units of one costly job

Purposes == {"work", "verification", "evidence_gate", "teardown", "review", "review_gate"}

\* landsAt = 0: the policy names no phase, so a retry lands at the entry phase.
RecyclePolicies == [max : Nat, on : SUBSET {"verify_fail", "verify_malformed"}, landsAt : Nat]

NoPolicy == [max |-> 0, on |-> {}, landsAt |-> 0]

\* when: what the phase's condition evaluates to for this run; skips: the jobs
\* whose own condition evaluates to false.
PhaseSpec ==
    [purpose : Purposes, runOn : {"success", "failure", "always"}, verify : BOOLEAN,
     policy : RecyclePolicies, jobs : Seq(JobIds), when : BOOLEAN, skips : SUBSET JobIds]

PhaseIds == DOMAIN Phases

Purpose(p) == Phases[p].purpose
ExpectedJobs(p) == {Phases[p].jobs[i] : i \in DOMAIN Phases[p].jobs}
IsTeardown(p) == Purpose(p) = "teardown"
HasPolicy(p) == Phases[p].policy # NoPolicy

RunsOnSuccessPath(p) == Phases[p].runOn \in {"success", "always"}
RunsOnAbortPath(p) == IsTeardown(p) /\ Phases[p].runOn \in {"failure", "always"}

AbortPhases == {p \in PhaseIds : RunsOnAbortPath(p)}

\* dispatchRetry's search for the phase a retry lands at: "self" or no name is
\* the entry phase.
RetryTarget(p) == IF Phases[p].policy.landsAt = 0 THEN 1 ELSE Phases[p].policy.landsAt

\* The one phase with a verifier.
VerificationPhase == CHOOSE p \in PhaseIds : Phases[p].verify

\* evaluatePhaseWhen: the phase is skipped as a whole when its condition is
\* false or no job of it is left to launch.
PhaseRuns(p) ==
    /\ Phases[p].when
    /\ Phases[p].jobs = <<>> \/ ExpectedJobs(p) \ Phases[p].skips # {}

\* The jobs it tells the caller to skip; a condition of the phase that is false hides
\* those of its jobs.
SkippedJobs(p) == IF Phases[p].when THEN Phases[p].skips ELSE {}

\* What ValidateWorkflowRegister accepts. depends_on is the linear chain it
\* insists on, so a phase's only dependency is its predecessor.
ValidWorkflow ==
    /\ Phases \in Seq(PhaseSpec) /\ Len(Phases) > 0
    /\ Phases[1].when /\ Purpose(1) \notin {"review", "review_gate"}
    /\ \A p \in PhaseIds :
        /\ Purpose(p) # "evidence_gate"
        /\ IsTeardown(p) <=> Phases[p].runOn # "success"
        /\ Phases[p].verify <=> Purpose(p) = "verification"
        /\ Purpose(p) \in {"verification", "review_gate"} =>
               Phases[p].when /\ Phases[p].skips = {}
        /\ Phases[p].jobs # <<>> => ExpectedJobs(p) \ Phases[p].skips # {}
        /\ Len(Phases[p].jobs) = Cardinality(ExpectedJobs(p))
        /\ Purpose(p) = "review_gate" => ~HasPolicy(p) /\ Len(Phases[p].jobs) = 1
    /\ \A u \in {"verification", "review", "review_gate"} :
           Cardinality({p \in PhaseIds : Purpose(p) = u}) = 1
    /\ AbortPhases # {}

ASSUME WorkflowAssumption == IsFiniteSet(JobIds) /\ Budget \in Nat /\ ValidWorkflow
=============================================================================
