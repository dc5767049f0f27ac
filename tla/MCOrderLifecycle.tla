-------------------------- MODULE MCOrderLifecycle --------------------------
(* A small instance of OrderLifecycle for TLC.                              *)
EXTENDS OrderLifecycle, TLC

CONSTANTS kitchen, owner, cod, upi

\* The kitchen role may only move orders forward; the owner may do anything.
MCGrants == kitchen :> {"order.accept"} @@ owner :> Permissions

\* Enough for the longest path of the table on one order, and for a
\* cancellation racing an acceptance or a capture on the other.
MCMaxRows == cod :> 6 @@ upi :> 3

=============================================================================
