------------------------------- MODULE Reviews -------------------------------
(* The operator-visible reviews of a project: EnsureReview (postgres.go,     *)
(* pg/reviews.go), called by the materialization of pull requests            *)
(* (pr_syndication.go) and by clients.  The key of a row is the number of    *)
(* its pull request; a run that is recycled may open another one for the     *)
(* same issue, or go on with the one there is.                               *)
EXTENDS Naturals, Sequences, FiniteSets

CONSTANTS Runs,        \* the runs of the project
          IssueOf,     \* [Runs -> the issues]
          Numbers,     \* the pull requests
          Ensurers,    \* the requests that may be on the way at a time
          MaxEnsures

VARIABLES reviews,     \* the rows: partial function of the numbers
          touched,     \* the numbers in the order their rows were last updated
          ensure,      \* the requests on the way
          done,        \* ghost: the numbers a request was answered for
          ensures

reviewVars == <<reviews, touched, ensure, done, ensures>>

NotEnsuring == [pc |-> "idle"]
Request(r, n) == [number |-> n, issue |-> IssueOf[r], run |-> r]
Within(e, pc) == ensure[e].pc = pc
EnsureGoes(e, pc) == ensure' = [ensure EXCEPT ![e].pc = pc]
EnsureEnds(e) == ensure' = [ensure EXCEPT ![e] = NotEnsuring]

\* materializePRPrimitive with the number GitHub has given the run's branch, or
\* POST /v1/reviews.
Materialize(e, r, n) ==
  /\ Within(e, "idle") /\ ensures > 0
  /\ ensure' = [ensure EXCEPT ![e] = [pc |-> "by issue", req |-> Request(r, n)]]
  /\ ensures' = ensures - 1
  /\ UNCHANGED <<reviews, touched, done>>

\* FindByLinkedIssueID: the row of the issue that was updated last.
OfIssue(i) == {n \in DOMAIN reviews : reviews[n].issue = i}
LastTouched(ns) ==
  {n \in ns : \A m \in ns : \E j, k \in DOMAIN touched :
                touched[j] = n /\ touched[k] = m /\ j >= k}

\* Mutant: the row of the issue is taken whatever its pull request.
MatchesAnyPR(n, req) == TRUE

\* reviewDocMatchesRequestPR
MatchesRequestPR(n, req) == reviews[n].number = req.number

FindByIssue(e) ==
  /\ Within(e, "by issue")
  /\ LET req == ensure[e].req
         found == {n \in LastTouched(OfIssue(req.issue)) : MatchesRequestPR(n, req)} IN
     \/ found = {} /\ EnsureGoes(e, "by number")
     \/ \E n \in found :
          ensure' = [ensure EXCEPT ![e] = [pc |-> "patch", req |-> req, row |-> n]]
  /\ UNCHANGED <<reviews, touched, done, ensures>>

\* FindByRepoNumber
FindByNumber(e) ==
  /\ Within(e, "by number")
  /\ LET req == ensure[e].req IN
     IF req.number \in DOMAIN reviews
       THEN ensure' = [ensure EXCEPT ![e] = [pc |-> "patch", req |-> req, row |-> req.number]]
       ELSE EnsureGoes(e, "create")
  /\ UNCHANGED <<reviews, touched, done, ensures>>

Touch(n) == touched' = Append(SelectSeq(touched, LAMBDA m : m # n), n)

\* patchReviewDocPayload, when patchReviewDocPayloadNeeded.
PatchReview(e) ==
  /\ Within(e, "patch")
  /\ LET n == ensure[e].row
         req == ensure[e].req IN
     IF reviews[n] = req THEN UNCHANGED <<reviews, touched>>
     ELSE reviews' = [reviews EXCEPT ![n] = req] /\ Touch(n)
  /\ done' = done \cup {ensure[e].req.number}
  /\ EnsureEnds(e)
  /\ UNCHANGED <<ensures>>

\* Create does nothing on a conflict, and the request fails.
CreateReview(e) ==
  /\ Within(e, "create")
  /\ LET req == ensure[e].req IN
     IF req.number \in DOMAIN reviews THEN UNCHANGED <<reviews, touched, done>>
     ELSE /\ reviews' = [n \in DOMAIN reviews \cup {req.number} |->
                           IF n = req.number THEN req ELSE reviews[n]]
          /\ Touch(req.number)
          /\ done' = done \cup {req.number}
  /\ EnsureEnds(e)
  /\ UNCHANGED <<ensures>>
-----------------------------------------------------------------------------
ReviewsInit ==
  /\ reviews = [n \in {} |-> 0] /\ touched = <<>>
  /\ ensure = [e \in Ensurers |-> NotEnsuring]
  /\ done = {} /\ ensures = MaxEnsures

ReviewsNext ==
  \E e \in Ensurers :
    \/ \E r \in Runs, n \in Numbers : Materialize(e, r, n)
    \/ FindByIssue(e) \/ FindByNumber(e) \/ PatchReview(e) \/ CreateReview(e)
-----------------------------------------------------------------------------
(* Every pull request a review was ensured for has a row of its own that     *)
(* carries its number, also when an issue is recycled and opens another pull *)
(* request, and when two requests come at once (EnsureReview).               *)
EachPRHasItsReview ==
  \A n \in done : n \in DOMAIN reviews /\ reviews[n].number = n
=============================================================================
