----------------------------- MODULE MCPlaybook -----------------------------
(* Instances of module Playbook for model checking.                          *)
EXTENDS Playbook

\* The second entry waits for the first, the third for none.
SecondAfterFirst == [e \in Entries |-> IF e = 2 THEN {1} ELSE {}]
=============================================================================
