----------------------------- MODULE MCPreviews -----------------------------
(***************************************************************************)
(* The two ways a session sees its build: the live preview lane of a       *)
(* project, or a test slot whose image it replaces.  They share nothing; a *)
(* behaviour is of one of them.                                            *)
(***************************************************************************)
EXTENDS Previews, SlotUse

VARIABLE part
mcVars == <<part, vars, useVars>>

MCInit == part \in {"lane", "slot"} /\ Init /\ UseInit

MCNext ==
    /\ UNCHANGED part
    /\ \/ part = "lane" /\ Next /\ UNCHANGED useVars
       \/ part = "slot" /\ UseNext /\ UNCHANGED vars

\* Fair to the lane's steps, in the lane's behaviours.
MCSpec == MCInit /\ [][MCNext]_mcVars /\ (part = "lane" => Fairness)
=============================================================================
