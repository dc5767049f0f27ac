---------------------------- MODULE OrderStatus ----------------------------
(***************************************************************************)
(* The order statuses and the table of their transitions                   *)
(* (packages/shared-types/src/enums/order-status.ts).                      *)
(***************************************************************************)

\* OrderStatus
Statuses == {"PENDING", "ACCEPTED", "PREPARING", "READY", "OUT_FOR_DELIVERY",
             "DELIVERED", "REJECTED", "CANCELLED"}

\* TERMINAL_ORDER_STATUSES
Terminal == {"DELIVERED", "REJECTED", "CANCELLED"}

\* ORDER_STATUS_TRANSITIONS, as the pairs isValidOrderStatusTransition accepts.
Transitions ==
    ({"PENDING"} \X {"ACCEPTED", "REJECTED", "CANCELLED"})
    \cup ({"ACCEPTED"} \X {"PREPARING", "CANCELLED"})
    \cup ({"PREPARING"} \X {"READY", "CANCELLED"})
    \cup ({"READY"} \X {"OUT_FOR_DELIVERY", "DELIVERED", "CANCELLED"})
    \cup ({"OUT_FOR_DELIVERY"} \X {"DELIVERED", "CANCELLED"})

============================================================================
