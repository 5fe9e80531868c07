----------------------------- MODULE MCRegistry -----------------------------
(***************************************************************************)
(* The rows of a registration, of a workflow with its budget, the lane of  *)
(* its verification phase and the lane of a phase that comes and goes, or  *)
(* what is registered and the runs of it: one of the two moves.            *)
(***************************************************************************)
EXTENDS Registry, MCFlow

VARIABLE part

Lanes == {"verify", "extra"}
Given == {"budget", "verify"}

Content(budget, verify, extra, vars_) ==
    [controls |-> [t \in Controls |-> CASE t = "budget" -> budget [] t = "verify" -> verify
                                        [] OTHER -> extra],
     vars |-> vars_, deleted |-> FALSE]

Sent == {Content(1, 1, NoSuchPhase, "old"), Content(1, 2, 1, "old"), Content(2, 2, NoLane, "old"),
         Content(1, 1, NoSuchPhase, "new")}

Config(count, mirror, slots, status) ==
    [count |-> count, mirror |-> mirror, ttl |-> NoValue, slots |-> slots, status |-> status]
FromBefore == {Config(1, NoValue, TRUE, TRUE)}
Registered == {Config(1, 1, FALSE, TRUE), Config(2, NoValue, FALSE, FALSE)}

PinsAlone == {"pin", "unpin", "patch"}

MCInit ==
    /\ part \in {"rows", "flow"}
    /\ RegistryInit /\ FlowInit

MCNext ==
    /\ UNCHANGED part
    /\ \/ part = "rows" /\ RegistryNext /\ UNCHANGED flowVars
       \/ part = "flow" /\ FlowNext /\ UNCHANGED allVars

MCSpec == MCInit /\ [][MCNext]_<<part, allVars, flowVars>>
=============================================================================
