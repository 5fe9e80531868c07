------------------------------ MODULE Routing -------------------------------
(***************************************************************************)
(* Which phase a run dispatches next: allReadyDispatchTargets and the      *)
(* predicates on attempts it is built from.                                *)
(***************************************************************************)
EXTENDS Decision

\* A phase that must be dispatched, or none. The lists the code returns hold at
\* most one phase: the chain is linear.
NoPhase == 0

Attempted(attempts) == {attempts[i].phase : i \in DOMAIN attempts}

HasInFlight(attempts) == \E i \in DOMAIN attempts : InFlight(attempts[i])

HasAbort(attempts) == \E i \in DOMAIN attempts : attempts[i].decision \in AbortDecisions

LatestOf(attempts, p) ==
    CHOOSE i \in DOMAIN attempts :
        /\ attempts[i].phase = p
        /\ \A k \in DOMAIN attempts : attempts[k].phase = p => k <= i

\* The phases whose latest attempt went forward (completedAdvancePhases).
Advanced(attempts) ==
    {p \in Attempted(attempts) :
        LET a == attempts[LatestOf(attempts, p)]
        IN  \/ a.decision = "advance"
            \/ a.decision = "none" /\ a.completed /\ AdvanceConclusion(a.concl)}

First(phases) ==
    IF phases = {} THEN NoPhase ELSE CHOOSE p \in phases : \A q \in phases : p <= q

\* The first phase of the success path whose predecessor advanced (listReadyPhases).
ReadyPhase(attempts, includeAlways) ==
    First({p \in PhaseIds \ Attempted(attempts) :
              /\ RunsOnSuccessPath(p)
              /\ RunsOnAbortPath(p) => includeAlways
              /\ p - 1 \in Advanced(attempts)})

\* Mutant: a teardown phase waits for its predecessor whatever that is for.
AbortPathInOrder(attempts) ==
    First({p \in AbortPhases \ Attempted(attempts) : p - 1 \in Advanced(attempts)})

\* The first teardown phase not tried yet; the dependency counts only when it is
\* itself a teardown phase (firstUnattemptedAbortPhase).
AbortPathPhase(attempts) ==
    First({p \in AbortPhases \ Attempted(attempts) :
              p - 1 \in AbortPhases => p - 1 \in Advanced(attempts)})

\* Mutant: only the latest verdict counts, an earlier abort is forgotten.
ForgetfulTarget(attempts, verdict) ==
    IF attempts = <<>> THEN NoPhase
    ELSE IF verdict # "advance"
         THEN IF HasInFlight(attempts) THEN NoPhase ELSE AbortPathPhase(attempts)
    ELSE IF RunsOnAbortPath(attempts[Len(attempts)].phase) THEN ReadyPhase(attempts, TRUE)
    ELSE IF ReadyPhase(attempts, FALSE) # NoPhase THEN ReadyPhase(attempts, FALSE)
    ELSE IF HasInFlight(attempts) THEN NoPhase
    ELSE ReadyPhase(attempts, TRUE)

DispatchTarget(attempts, verdict) ==
    IF attempts = <<>> THEN NoPhase
    ELSE IF verdict # "advance" \/ HasAbort(attempts)
         THEN IF HasInFlight(attempts) THEN NoPhase ELSE AbortPathPhase(attempts)
    ELSE IF RunsOnAbortPath(attempts[Len(attempts)].phase) THEN ReadyPhase(attempts, TRUE)
    ELSE IF ReadyPhase(attempts, FALSE) # NoPhase THEN ReadyPhase(attempts, FALSE)
    ELSE IF HasInFlight(attempts) THEN NoPhase
    ELSE ReadyPhase(attempts, TRUE)

\* The phase that comes at place i in the order of the workflow.
Nth(phases, i) == CHOOSE p \in phases : Cardinality({q \in phases : q <= p}) = i

\* retryCarryForwardAttempts: a recycled cycle starts with the phases before its
\* landing phase counted as done.
CarriedForward(attempts, target) ==
    LET carried == {p \in 1..(target - 1) :
                       \E i \in DOMAIN attempts : attempts[i].phase = p /\ ~InFlight(attempts[i])}
        Carry(p) == [NewAttempt(p) EXCEPT !.completed = TRUE, !.concl = "success",
                                          !.decision = "advance", !.carry = TRUE]
    IN  [i \in 1..Cardinality(carried) |-> Carry(Nth(carried, i))]
=============================================================================
