------------------------------- MODULE MCRun --------------------------------
(***************************************************************************)
(* Small workflows and job outcomes for model checking RunLifecycle.       *)
(***************************************************************************)
EXTENDS RunProperties, TLC

CONSTANT MaxAttempts    \* the recycle policy's attempts

ProcSymmetry == Permutations(Procs)

AnyPhase ==
    [purpose |-> "work", runOn |-> "success", verify |-> FALSE, policy |-> NoPolicy, jobs |-> <<>>,
     when |-> TRUE, skips |-> {}]

Work(jobs) == [AnyPhase EXCEPT !.jobs = jobs]
Verification(job, lands) ==
    [AnyPhase EXCEPT !.purpose = "verification", !.verify = TRUE, !.jobs = <<job>>,
                     !.policy = [max |-> MaxAttempts, on |-> {"verify_fail"}, landsAt |-> lands]]
Review(job) == [AnyPhase EXCEPT !.purpose = "review", !.jobs = <<job>>]
Gate(job) == [AnyPhase EXCEPT !.purpose = "review_gate", !.jobs = <<job>>]
Cleanup(job) == [AnyPhase EXCEPT !.purpose = "teardown", !.runOn = "always", !.jobs = <<job>>]

\* The gated workflow of docs/workflow-shape.md, with two jobs in its first phase and a
\* cleanup between verification and review.
GatedJobs == {"a", "b", "v", "e", "r", "g", "c"}
GatedWorkflow ==
    <<Work(<<"a", "b">>), Verification("v", 0), Cleanup("e"), Review("r"), Gate("g"), Cleanup("c")>>

\* A skipped job and a skipped cleanup, whose job id is that of the cleanup behind it.
StormJobs == {"a", "b", "v", "r", "g", "c"}
StormWorkflow ==
    <<[Work(<<"a", "b">>) EXCEPT !.skips = {"b"}], Verification("v", 2), Review("r"), Gate("g"),
      [Cleanup("c") EXCEPT !.when = FALSE], Cleanup("c")>>

\* A job, a phase of the work and a cleanup whose conditions are false; a retry lands at
\* the second phase; the last phase runs after failures only, and has no job to launch.
ConditionalJobs == {"p", "a", "b", "n", "v", "e", "r", "g", "c"}
ConditionalWorkflow ==
    <<Work(<<"p">>), [Work(<<"a", "b">>) EXCEPT !.skips = {"b"}],
      [Work(<<"n">>) EXCEPT !.when = FALSE], Verification("v", 2),
      [Cleanup("e") EXCEPT !.when = FALSE], Review("r"), Gate("g"), Cleanup("c"),
      [Cleanup("c") EXCEPT !.runOn = "failure", !.jobs = <<>>]>>

-----------------------------------------------------------------------------
Report(concl, verif) == [concl |-> concl, verif |-> verif, abort |-> FALSE, costly |-> FALSE]
Ok == Report("success", "none")
Failed == Report("failure", "none")
Costly(o) == [o EXCEPT !.costly = TRUE]
AskAbort(o) == [o EXCEPT !.abort = TRUE]

\* Work may fail, verification may pass, fail or publish nothing, and the review,
\* the merge and the cleanup may fail.
UsualOutcomes ==
    [p \in PhaseIds |->
        CASE Purpose(p) = "verification" -> {Report("success", "pass"), Report("success", "fail"), Ok}
          [] OTHER -> {Ok, Failed}]

\* Only verification has more than one way to end.
FewOutcomes ==
    [p \in PhaseIds |->
        IF Purpose(p) = "verification" THEN {Report("success", "pass"), Report("success", "fail")}
                                      ELSE {Ok}]

\* Work costs or does not, and may ask for an abort; verification may be malformed.
CostlyOutcomes ==
    [p \in PhaseIds |->
        CASE Purpose(p) = "verification" ->
                 {Report("success", "pass"), Costly(Report("success", "fail")), Report("failure", "error"), Ok}
          [] Purpose(p) = "work" -> {Ok, Costly(Ok), AskAbort(Costly(Ok))}
          [] OTHER -> {Ok, Costly(Failed)}]

-----------------------------------------------------------------------------
Events(some) == [k \in EventKinds |-> IF k \in DOMAIN some THEN some[k] ELSE 0]

QuietLimits == Events([poll |-> 1, approve |-> 1, cancel |-> 1, echo |-> 1, kill |-> 1])
ReviewLimits == Events([poll |-> 1, approve |-> 1, cancel |-> 1, kill |-> 1])
StormLimits == Events([poll |-> 1, approve |-> 1, crash |-> 1, abort |-> 1, fault |-> 1, sweep |-> 1])
\* At most one disturbance besides the crash.
Disturbances == {"abort", "fault", "sweep"}
CrashAndOneMore == Cardinality({k \in Disturbances : left[k] < Limits[k]}) <= 1
=============================================================================
