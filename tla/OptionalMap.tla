----------------------------- MODULE OptionalMap -----------------------------
(***************************************************************************)
(* What C structures of optional fields promise their user: a map from the *)
(* fields to values in which a field may be missing.  A step puts a value  *)
(* in one field and touches no other; or one field goes missing, or all    *)
(* the fields of a structure do.                                           *)
(***************************************************************************)
CONSTANTS
    Slots,      \* the fields
    Parts,      \* the sets of fields that are freed together
    Values,     \* what a field can hold
    Missing     \* the field is not there

VARIABLE map

Init == map = [s \in Slots |-> Missing]

Put(s) == map'[s] \in Values /\ map' = [map EXCEPT ![s] = map'[s]]

Drop(P) == map' = [s \in Slots |-> IF s \in P THEN Missing ELSE map[s]]

Next == (\E s \in Slots : Put(s) \/ Drop({s})) \/ (\E P \in Parts : Drop(P))

Spec == Init /\ [][Next]_map
=============================================================================
