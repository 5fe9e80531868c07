----------------------------- MODULE SlotOwners -----------------------------
(* What the allocator promises (docs/test-slot-lifecycle.md, "Checkout" and  *)
(* "Return"): a lease is for one slot, a slot is for one lease at a time, a  *)
(* slot that is taken is taken until its lease ends, and an ended lease      *)
(* never comes back.                                                         *)
CONSTANTS Slots, Leases

VARIABLES holders, \* the leases a slot is taken by
          past     \* the leases that have ended

vars == <<holders, past>>

Init == holders = [s \in Slots |-> {}] /\ past = {}

Grant(s, l) ==
  /\ holders[s] = {} /\ l \notin past
  /\ \A r \in Slots : l \notin holders[r]
  /\ holders' = [holders EXCEPT ![s] = {l}]
  /\ UNCHANGED past

End(s, l) ==
  /\ l \in holders[s]
  /\ holders' = [holders EXCEPT ![s] = @ \ {l}]
  /\ past' = past \cup {l}

Next == \E s \in Slots, l \in Leases : Grant(s, l) \/ End(s, l)

Spec == Init /\ [][Next]_vars
=============================================================================
