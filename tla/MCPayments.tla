----------------------------- MODULE MCPayments -----------------------------
(* A small instance of Payments for TLC.                                   *)
EXTENDS Payments, TLC

CONSTANTS first, split, c1, c2, r1, r2, g1, g2, failed, captured, captured2

\* The first gateway order fails and is then paid; the second is paid too.
MCEventOrder == failed :> g1 @@ captured :> g1 @@ captured2 :> g2

\* The calls of a kind are interchangeable.
Symmetry == Permutations(Collectors) \cup Permutations(Refunds)

=============================================================================
