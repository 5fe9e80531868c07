------------------------------- MODULE MCWork -------------------------------
(* Instances of module IssueWork for model checking.                         *)
EXTENDS IssueWork

ApproveReject == [s \in Signals |-> IF s = 1 THEN "approve" ELSE "reject"]
OnFirst == [s \in Signals |-> CHOOSE i \in Issues : TRUE]
=============================================================================
