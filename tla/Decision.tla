------------------------------ MODULE Decision ------------------------------
(***************************************************************************)
(* Attempts and the pure functions over them: how the completions of the   *)
(* jobs of a phase are aggregated into one (aggregateRunnerPhaseCompletion)*)
(* and what the decision engine makes of it (decision.Decide).             *)
(***************************************************************************)
EXTENDS Workflow

Conclusions == {"success", "failure", "timed_out", "skipped", "cancelled"}
Verifications == {"none", "pass", "fail", "error"}
AbortDecisions == {"abort_budget_attempts", "abort_budget_cost", "abort_malformed", "abort_requested"}
Decisions == {"retry", "advance"} \union AbortDecisions

\* What a job reports when it ends. abort: it published abort_reason; costly: it
\* spent one unit of the budget.
Outcome == [concl : Conclusions, verif : Verifications, abort : BOOLEAN, costly : BOOLEAN]

\* A job that has not reported.
NoReport == [concl |-> "none", verif |-> "none", abort |-> FALSE, costly |-> FALSE]

Attempt ==
    [phase : PhaseIds, report : [JobIds -> Outcome \union {NoReport}], completed : BOOLEAN,
     concl : Conclusions \union {"none"}, verif : Verifications, abort : BOOLEAN,
     decision : Decisions \union {"none"}, carry : BOOLEAN]

NewAttempt(p) ==
    [phase |-> p, report |-> [j \in JobIds |-> NoReport], completed |-> FALSE, concl |-> "none",
     verif |-> "none", abort |-> FALSE, decision |-> "none", carry |-> FALSE]

AdvanceConclusion(c) == c \in {"success", "skipped"}

Reported(a) == {j \in JobIds : a.report[j] # NoReport}
AllReported(a) == ExpectedJobs(a.phase) \subseteq Reported(a)
InFlight(a) == ~a.completed /\ a.decision = "none"

-----------------------------------------------------------------------------
\* The phase completion a full set of job reports adds up to.

FailingAt(a) ==
    {i \in DOMAIN Phases[a.phase].jobs :
        LET r == a.report[Phases[a.phase].jobs[i]]
        IN  r # NoReport /\ ~AdvanceConclusion(r.concl)}

\* combineVerificationStatus over the jobs: error wins, then fail, then pass.
CombinedVerification(a) ==
    LET seen == {a.report[j].verif : j \in Reported(a)}
    IN  CASE "error" \in seen -> "error"
          [] "error" \notin seen /\ "fail" \in seen -> "fail"
          [] seen \intersect {"error", "fail"} = {} /\ "pass" \in seen -> "pass"
          [] OTHER -> "none"

\* The first failure in the workflow's job order names the conclusion; a skipped
\* job is neutral; a failed verification turns a success into a failure.
AggregateConclusion(a) ==
    IF FailingAt(a) # {}
    THEN LET first == CHOOSE i \in FailingAt(a) : \A k \in FailingAt(a) : i <= k
         IN  a.report[Phases[a.phase].jobs[first]].concl
    ELSE IF CombinedVerification(a) \in {"fail", "error"} THEN "failure" ELSE "success"

Payload == [concl : Conclusions, verif : Verifications, abort : BOOLEAN, cost : Nat]

Aggregate(a) ==
    [concl |-> AggregateConclusion(a),
     verif |-> CombinedVerification(a),
     abort |-> \E j \in Reported(a) : a.report[j].abort,
     cost  |-> Cardinality({j \in Reported(a) : a.report[j].costly})]

-----------------------------------------------------------------------------
\* Mutant: every cycle counts its own attempts only.
AttemptsOfCycle(attempts, p, cycle) == Cardinality({i \in DOMAIN attempts : attempts[i].phase = p})

\* decisionAttemptsForRun: each earlier cycle of the run counts as one failed
\* attempt of the phase being decided, on top of the attempts of this cycle.
AttemptsInPhase(attempts, p, cycle) ==
    (cycle - 1) + Cardinality({i \in DOMAIN attempts : attempts[i].phase = p})

\* The verdict when another attempt is wanted for trigger: the cost budget first,
\* then the policy, then the number of attempts already made.
RetryOrAbort(attempts, p, cycle, cost, trigger) ==
    IF cost >= Budget THEN "abort_budget_cost"
    ELSE IF trigger \notin Phases[p].policy.on
         THEN IF trigger = "verify_malformed" THEN "abort_malformed" ELSE "abort_budget_attempts"
    ELSE IF AttemptsInPhase(attempts, p, cycle) >= Phases[p].policy.max
         THEN "abort_budget_attempts"
    ELSE "retry"

\* decision.Decide on the latest attempt.
Decide(attempts, cycle, cost) ==
    LET last == attempts[Len(attempts)]
        p    == last.phase
    IN  IF last.abort THEN "abort_requested"
        ELSE IF Phases[p].verify
             THEN IF last.verif = "pass" THEN "advance"
                  ELSE RetryOrAbort(attempts, p, cycle, cost,
                           IF last.verif = "none" THEN "verify_malformed" ELSE "verify_fail")
        ELSE IF AdvanceConclusion(last.concl) \/ IsTeardown(p) THEN "advance"
        ELSE "abort_malformed"
=============================================================================
