-------------------------------- MODULE MCClient -------------------------------
(* Model values for Client: a relay list and a profile; batches are alike. *)
EXTENDS Client, TLC
CONSTANTS list, profile, r1, r2, s1, s2
TwoLists == [k \in Keys |-> IF k = list THEN 2 ELSE 1]
SlotPerms == Permutations(Slots)
=============================================================================
