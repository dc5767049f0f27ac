---------------------------- MODULE OrderMachine ----------------------------
(***************************************************************************)
(* What the order state machine promises: an order is created PENDING and  *)
(* then moves only along the table of order-status.ts, one listed edge at  *)
(* a time.  An order two writers contended for is given up as CONTESTED:   *)
(* nothing is promised of it from then on.                                 *)
(***************************************************************************)
EXTENDS OrderStatus

CONSTANT Orders

VARIABLE state      \* [Orders -> Statuses \cup {"NONE", "CONTESTED"}]

Init == state = [o \in Orders |-> "NONE"]

Create(o) ==
    /\ state[o] = "NONE"
    /\ state' = [state EXCEPT ![o] = "PENDING"]

Move(o, t) ==
    /\ <<state[o], t>> \in Transitions
    /\ state' = [state EXCEPT ![o] = t]

Contest(o) ==
    /\ state[o] # "NONE"
    /\ state' = [state EXCEPT ![o] = "CONTESTED"]

Next == \E o \in Orders : Create(o) \/ (\E t \in Statuses : Move(o, t)) \/ Contest(o)

Spec == Init /\ [][Next]_state

=============================================================================
