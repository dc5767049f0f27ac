------------------------- MODULE MCCustomerAccounts -------------------------
(* Two requests at a time.                                                   *)
EXTENDS CustomerAccounts, TLC

CONSTANTS s1, s2

MCSlots == {s1, s2}

Symmetry == Permutations(MCSlots)

=============================================================================
