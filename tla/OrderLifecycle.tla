--------------------------- MODULE OrderLifecycle ---------------------------
(***************************************************************************)
(* Orders after checkout: staff and customers moving them along the status *)
(* table (services/api/src/orders/orders.service.ts, updateStatus,         *)
(* cancelOwnOrder, transition, restockCancelledOrder).                     *)
(*                                                                         *)
(* updateStatus and cancelOwnOrder read the order and check the table      *)
(* outside any transaction; the transaction that follows writes the new    *)
(* status by id, whatever the status is by then.  A request is therefore   *)
(* two steps, ReadOrder and CommitMove, with any other step in between.    *)
(*                                                                         *)
(* The rows one such transaction appends to the status history, the order  *)
(* events, the outbox and the audit log all carry the same pair, so one    *)
(* entry of history stands for the four.  Not modelled: who placed an      *)
(* order, reasons, notes, and the realtime broadcast after the commit      *)
(* (every client refetches on it).                                         *)
(***************************************************************************)
EXTENDS OrderStatus, Integers, Sequences, FiniteSets

CONSTANTS
    Orders,
    OfflineOrders,  \* paid on delivery or in the store: sold at checkout
    Staff,          \* members of staff with a request in hand
    Grants,         \* [Staff -> SUBSET Permissions]
    Customer,       \* the customer of the order at hand
    MaxRows         \* [Orders -> Nat], bound on the history of each order

Permissions == {"order.accept", "order.reject", "order.cancel"}

ASSUME LifecycleAssumption ==
    /\ OfflineOrders \in SUBSET Orders
    /\ Grants \in [Staff -> SUBSET Permissions]
    /\ Customer \notin Staff
    /\ MaxRows \in [Orders -> Nat]

VARIABLES
    status,         \* orders.status, "NONE" before checkout
    history,        \* order_status_history: <<previousStatus, newStatus>> pairs
    sold,           \* orders whose SALE rows are in the ledger
    restored,       \* how many times an order's sale was given back
    inHand,         \* requests that read and checked: <<actor, order, read, new>>
    contested       \* history: orders written on a status no longer current

vars == <<status, history, sold, restored, inHand, contested>>

Actors == Staff \cup {Customer}

TypeOK ==
    /\ status \in [Orders -> Statuses \cup {"NONE"}]
    /\ history \in [Orders -> Seq((Statuses \cup {"NONE"}) \X Statuses)]
    /\ sold \in SUBSET Orders
    /\ restored \in [Orders -> Nat]
    /\ inHand \in SUBSET (Actors \X Orders \X Statuses \X Statuses)
    /\ contested \in SUBSET Orders

Init ==
    /\ status = [o \in Orders |-> "NONE"]
    /\ history = [o \in Orders |-> <<>>]
    /\ sold = {}
    /\ restored = [o \in Orders |-> 0]
    /\ inHand = {}
    /\ contested = {}

-----------------------------------------------------------------------------
(* STATUS_PERMISSION; PENDING is never a target.                             *)

Permission(t) ==
    CASE t \in {"ACCEPTED", "PREPARING", "READY", "OUT_FOR_DELIVERY", "DELIVERED"}
           -> "order.accept"
      [] t = "REJECTED"  -> "order.reject"
      [] t = "CANCELLED" -> "order.cancel"
      [] OTHER           -> "none"

\* A member of staff needs the permission; the customer may only cancel.
MayAsk(a, t) ==
    IF a = Customer THEN t = "CANCELLED" ELSE Permission(t) \in Grants[a]

\* Mutant: transition() accepts any pair the table mentions on either side.
ValidMutant(f, t) == f \notin Terminal /\ t # "PENDING"

\* isValidOrderStatusTransition
Valid(f, t) == <<f, t>> \in Transitions

-----------------------------------------------------------------------------
\* createOrder commits: PENDING, and for an offline method the sale with it.
Place(o) ==
    /\ status[o] = "NONE"
    /\ status' = [status EXCEPT ![o] = "PENDING"]
    /\ history' = [history EXCEPT ![o] = Append(@, <<"NONE", "PENDING">>)]
    /\ sold' = IF o \in OfflineOrders THEN sold \cup {o} ELSE sold
    /\ UNCHANGED <<restored, inHand, contested>>

\* The webhook consumes an online order's hold, whatever its status by then:
\* cancelling an order leaves the hold ACTIVE.
Capture(o) ==
    /\ status[o] # "NONE"
    /\ o \notin OfflineOrders \cup sold
    /\ sold' = sold \cup {o}
    /\ UNCHANGED <<status, history, restored, inHand, contested>>

\* Bound: MaxRows counts the moves in hand as well.
ReadOrder(a, o, t) ==
    /\ status[o] # "NONE"
    /\ MayAsk(a, t)
    /\ Valid(status[o], t)
    /\ \A r \in inHand : r[1] # a
    /\ Len(history[o]) + Cardinality({r \in inHand : r[2] = o}) < MaxRows[o]
    /\ inHand' = inHand \cup {<<a, o, status[o], t>>}
    /\ UNCHANGED <<status, history, sold, restored, contested>>

\* Mutant: any terminal status gives the stock back.
RestockMutant(o, t) ==
    restored' = IF t \in Terminal /\ o \in sold
                THEN [restored EXCEPT ![o] = @ + 1] ELSE restored

\* restockCancelledOrder, when the new status is CANCELLED.
Restock(o, t) ==
    restored' = IF t = "CANCELLED" /\ o \in sold
                THEN [restored EXCEPT ![o] = @ + 1] ELSE restored

\* Mutant: the history row is lost when the status does not change.
CommitMoveMutant(a, o, f, t) ==
    /\ <<a, o, f, t>> \in inHand
    /\ inHand' = inHand \ {<<a, o, f, t>>}
    /\ status' = [status EXCEPT ![o] = t]
    /\ history' = IF status[o] = f THEN [history EXCEPT ![o] = Append(@, <<f, t>>)]
                                   ELSE history
    /\ Restock(o, t)
    /\ contested' = IF status[o] = f THEN contested ELSE contested \cup {o}
    /\ UNCHANGED sold

CommitMove(a, o, f, t) ==
    /\ <<a, o, f, t>> \in inHand
    /\ inHand' = inHand \ {<<a, o, f, t>>}
    /\ status' = [status EXCEPT ![o] = t]
    /\ history' = [history EXCEPT ![o] = Append(@, <<f, t>>)]
    /\ Restock(o, t)
    /\ contested' = IF status[o] = f THEN contested ELSE contested \cup {o}
    /\ UNCHANGED sold

\* The transaction fails or the process dies: nothing was written.
DropMove(a, o, f, t) ==
    /\ <<a, o, f, t>> \in inHand
    /\ inHand' = inHand \ {<<a, o, f, t>>}
    /\ UNCHANGED <<status, history, sold, restored, contested>>

Next ==
    \E o \in Orders :
        \/ Place(o)
        \/ Capture(o)
        \/ \E a \in Actors, t \in Statuses : ReadOrder(a, o, t)
        \/ \E a \in Actors, f, t \in Statuses :
              CommitMove(a, o, f, t) \/ DropMove(a, o, f, t)

Spec == Init /\ [][Next]_vars

-----------------------------------------------------------------------------
(* Properties.                                                               *)

\* orders.status is always what the last history row says, however the
\* requests interleave: the two are written by one transaction.
HistoryTellsStatus ==
    \A o \in Orders :
        IF history[o] = <<>> THEN status[o] = "NONE"
                             ELSE status[o] = history[o][Len(history[o])][2]

\* The history of an order no two writers contended for is one path through
\* the table from PENDING: every row starts where the row before it ended.
HistoryIsPath ==
    \A o \in Orders \ contested : \A k \in 1..Len(history[o]) :
        IF k = 1 THEN history[o][k] = <<"NONE", "PENDING">>
                 ELSE /\ history[o][k][1] = history[o][k - 1][2]
                      /\ history[o][k] \in Transitions

\* "Terminal states - no further transitions are permitted from these"
\* (order-status.ts:36), for orders no two writers contended for.
TerminalIsLast ==
    \A o \in Orders \ contested : \A k \in 1..Len(history[o]) :
        history[o][k][2] \in Terminal => k = Len(history[o])

\* "Cancellation restores the exact stock the order consumed"
\* (orders.service.integration.spec.ts): once, for a cancelled offline order
\* without contention, and never for an order that is not cancelled.
RestoredExactly ==
    \A o \in Orders \ contested :
        /\ restored[o] <= IF status[o] = "CANCELLED" THEN 1 ELSE 0
        /\ o \in OfflineOrders /\ status[o] = "CANCELLED" => restored[o] = 1

CancelRows(o) == {k \in 1..Len(history[o]) : history[o][k][2] = "CANCELLED"}

\* Even under contention every restoration has a CANCELLED row to account for
\* it, so a double restoration can be found in the history.
RestoresAccounted == \A o \in Orders : restored[o] <= Cardinality(CancelRows(o))

\* The code implements the state machine, up to orders two writers contended for.
Machine == INSTANCE OrderMachine WITH
    state <- [o \in Orders |-> IF o \in contested THEN "CONTESTED" ELSE status[o]]

FollowsMachine == Machine!Spec

=============================================================================
