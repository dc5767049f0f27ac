---------------------------- MODULE MCLiveOrders ----------------------------
(* A small instance of LiveOrders for TLC: one order; the list of the        *)
(* kitchen's queue that has the new orders, which is polled, and the detail  *)
(* of the order on the customer's screen, which listens but is not polled.   *)
EXTENDS LiveOrders, TLC

CONSTANTS kitchen, customer, online

MCGrants == kitchen :> {"order.accept"}
MCMaxRows == online :> 3

Bucket(st) == [of |-> kitchen, kind |-> "list", orders |-> {online}, statuses |-> {st}]
Screen(s) == [of |-> s, kind |-> "order", orders |-> {online}, statuses |-> Statuses]

MCPolled == {Bucket("PENDING")}
MCViews == MCPolled \cup {Screen(customer)}
MCHears == "created" :> MCPolled @@ "updated" :> MCViews

=============================================================================
