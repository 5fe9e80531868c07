------------------------------- MODULE MCSlots -------------------------------
(* One slot, two leases and one server for TLC.                              *)
EXTENDS SlotLease

\* Two restarts, cancels or failed calls, or one repair or scaling alone.
TwoOrOne == [kind \in Disturbances |-> IF kind \in {"scale", "repair"} THEN 2 ELSE 1]
=============================================================================
