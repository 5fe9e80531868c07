---------------------------- MODULE RunContract -----------------------------
(***************************************************************************)
(* What a run of an issue promises its users, without cycles, attempts,    *)
(* pods or goroutines: it is admitted, works in a bounded number of tries, *)
(* asks for one review, merges only what was approved, and ends once.      *)
(***************************************************************************)
EXTENDS Integers

CONSTANT MaxTries   \* a natural number

VARIABLES
    stage,      \* where the run is
    tries,      \* cycles so far
    review,     \* what the reviewer said
    merged,     \* the pull request
    locked,     \* the issue lock
    closed      \* the issue

contractVars == <<stage, tries, review, merged, locked, closed>>

Init ==
    /\ stage = "queued" /\ tries = 1 /\ review = "pending"
    /\ merged = FALSE /\ locked = TRUE /\ closed = FALSE

Admit ==
    /\ stage = "queued"
    /\ stage' = "active"
    /\ UNCHANGED <<tries, review, merged, locked, closed>>

\* Another try is possible only before the review.
Retry ==
    /\ stage = "active" /\ review = "pending" /\ tries < MaxTries
    /\ tries' = tries + 1
    /\ UNCHANGED <<stage, review, merged, locked, closed>>

AskForReview ==
    /\ stage = "active" /\ review = "pending"
    /\ stage' = "review"
    /\ UNCHANGED <<tries, review, merged, locked, closed>>

Decide(verdict) ==
    /\ stage = "review"
    /\ stage' = "active" /\ review' = verdict
    /\ UNCHANGED <<tries, merged, locked, closed>>

Merge ==
    /\ stage = "active" /\ review = "approved" /\ ~merged
    /\ merged' = TRUE
    /\ UNCHANGED <<stage, tries, review, locked, closed>>

Pass ==
    /\ stage = "active" /\ merged
    /\ stage' = "passed"
    /\ UNCHANGED <<tries, review, merged, locked, closed>>

Abort ==
    /\ stage = "active"
    /\ stage' = "aborted"
    /\ UNCHANGED <<tries, review, merged, locked, closed>>

Unlock ==
    /\ stage \in {"passed", "aborted"} /\ locked
    /\ locked' = FALSE
    /\ UNCHANGED <<stage, tries, review, merged, closed>>

Close ==
    /\ stage = "passed" /\ ~locked /\ ~closed
    /\ closed' = TRUE
    /\ UNCHANGED <<stage, tries, review, merged, locked>>

Next ==
    \/ Admit \/ Retry \/ AskForReview \/ Decide("approved") \/ Decide("cancelled")
    \/ Merge \/ Pass \/ Abort \/ Unlock \/ Close

Spec == Init /\ [][Next]_contractVars
=============================================================================
