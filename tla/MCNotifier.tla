----------------------------- MODULE MCNotifier -----------------------------
(* A small instance of Notifier for TLC.                                    *)
EXTENDS Notifier, TLC

CONSTANTS r1, r2, d1, d2, owner

\* The event is for the owner's devices.
MCConcerns == [e \in Events |-> {owner}]

=============================================================================
