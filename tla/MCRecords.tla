----------------------------- MODULE MCRecords -----------------------------
(* The records that share nothing but the database: one of them moves in a   *)
(* behaviour.                                                                *)
EXTENDS Inspections, Reviews, Issues, RunView, InnerJobs

CONSTANTS c1, c2, c3, q1, i1, i2, k1
VARIABLE part

MCRequestOf == [c \in Calls |-> IF c = c3 THEN NoRequest ELSE q1]
MCRunScoped == {c3}
MCJobsOf == <<{"x"}, {"a", "b"}, {"m"}, {"z"}>>
MCRouteOf == (1 :> "/" @@ 2 :> "/cart")
MCRefOf == (1 :> "root" @@ 2 :> "root")
MCIssueOf == [r \in Runs |-> IF r = 3 THEN i2 ELSE i1]

Init ==
  /\ part \in {"inspections", "reviews", "issues", "ledger", "inner"}
  /\ InspectionsInit /\ ReviewsInit /\ IssuesInit /\ ViewInit /\ InnerInit
  /\ part # "ledger" => run.attempts = <<>>
  /\ part # "issues" => issues = <<>>
  /\ part # "inner" => tries = <<1>>

Next ==
  /\ UNCHANGED part
  /\ \/ part = "inspections" /\ InspectionsNext /\ UNCHANGED <<reviewVars, issueVars, viewVars, innerVars>>
     \/ part = "reviews" /\ ReviewsNext /\ UNCHANGED <<inspectionVars, issueVars, viewVars, innerVars>>
     \/ part = "issues" /\ IssuesNext /\ UNCHANGED <<inspectionVars, reviewVars, viewVars, innerVars>>
     \/ part = "ledger" /\ ViewNext /\ UNCHANGED <<inspectionVars, reviewVars, issueVars, innerVars>>
     \/ part = "inner" /\ InnerNext /\ UNCHANGED <<inspectionVars, reviewVars, issueVars, viewVars>>

Spec == Init /\ [][Next]_<<part, inspectionVars, reviewVars, issueVars, viewVars, innerVars>>

\* Two events of the runners are explored with two attempts, and more attempts with fewer.
ShortWithEvents == Len(run.attempts) + Sent <= 4

\* Comments and the portfolio share only the requests: they are explored apart.
CommentsOrElements == comments = <<>> \/ elements = <<>>
=============================================================================
