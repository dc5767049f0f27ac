----------------------------- MODULE Inventory -----------------------------
(***************************************************************************)
(* The stock of one branch and the holds that orders place on it           *)
(* (services/api/src/inventory/).                                          *)
(*                                                                         *)
(* A row of stock_reservations stands for one tracked line of one order,   *)
(* so a line IS its reservation: OrderOf, ItemOf and QtyOf are the columns *)
(* of that row that never change after the insert.  A database transaction *)
(* is one step; code that reads, leaves the database and writes later is   *)
(* two steps with any other step in between.                               *)
(*                                                                         *)
(* Not modelled: branches (every row belongs to one), batches, the audit   *)
(* log, and pagination, none of which is read back by this code.           *)
(***************************************************************************)
EXTENDS Integers, FiniteSets

CONSTANTS
    Items,          \* rows of inventory_items, one per (branch, variant)
    Orders,         \* orders that may be placed
    Lines,          \* their tracked lines
    OrderOf,        \* [Lines -> Orders]
    ItemOf,         \* [Lines -> Items]
    QtyOf,          \* [Lines -> 1..MaxQty], in the item's unit
    MaxQty,         \* the largest quantity a line may ask for
    Threshold,      \* [Items -> Nat], lowStockThreshold
    TTL,            \* DEFAULT_RESERVATION_TTL_MINUTES, in clock ticks
    Admins,         \* staff requests to adjust or to record wastage in flight
    Amounts,        \* the quantities staff enter
    MaxTime,        \* bound on the clock
    MaxAdminOps,    \* bound on the staff's restocks, adjustments and wastages
    MaxRestores     \* bound on the times a line's sale is restored

ASSUME LinesAssumption ==
    /\ IsFiniteSet(Lines)
    /\ MaxQty \in Nat
    /\ OrderOf \in [Lines -> Orders]
    /\ ItemOf \in [Lines -> Items]
    /\ QtyOf \in [Lines -> 1..MaxQty]

ASSUME AmountsAssumption ==
    /\ Threshold \in [Items -> Nat]
    /\ Amounts \in SUBSET (Nat \ {0})
    /\ TTL \in Nat \ {0}
    /\ MaxTime \in Nat
    /\ MaxAdminOps \in Nat
    /\ MaxRestores \in Nat

VARIABLES
    tracked,        \* items that have a row
    stock,          \* inventory_items.stockQuantity
    booked,         \* per item, the sum of the ledger's rows other than SALE
    lowStock,       \* items an INVENTORY_LOW event has been appended for
    hold,           \* stock_reservations.status, "NONE" before the insert
    expiresAt,      \* stock_reservations.expiresAt
    sold,           \* per line, the number of SALE rows the ledger holds
    restored,       \* per line, the ADJUSTMENT rows that give a sale back
    placed,         \* orders whose transaction committed
    capturing,      \* per order, the holds an open webhook transaction has read
    pending,        \* staff requests <<who, item, delta>> that passed their check
    unbacked,       \* history: stock taken without a live hold covering it
    adminOps,       \* history: staff operations so far
    now             \* the clock

vars == <<tracked, stock, booked, lowStock, hold, expiresAt, sold, restored,
          placed, capturing, pending, unbacked, adminOps, now>>

Statuses == {"NONE", "ACTIVE", "CONSUMED", "RELEASED", "EXPIRED"}

\* An adjustment may go either way; a wastage is a negative delta.
Deltas == Amounts \cup {-a : a \in Amounts}

TypeOK ==
    /\ tracked \in SUBSET Items
    /\ stock \in [Items -> Int]
    /\ booked \in [Items -> Int]
    /\ lowStock \in SUBSET Items
    /\ hold \in [Lines -> Statuses]
    /\ expiresAt \in [Lines -> Nat]
    /\ sold \in [Lines -> Nat]
    /\ restored \in [Lines -> Nat]
    /\ placed \in SUBSET Orders
    /\ capturing \in [Orders -> SUBSET Lines]
    /\ pending \in SUBSET (Admins \X Items \X Deltas)
    /\ unbacked \in [Items -> Nat]
    /\ adminOps \in Nat
    /\ now \in Nat

-----------------------------------------------------------------------------
(* Quantities.  The quantity of a set of lines is counted in units, so that  *)
(* its laws are those of Cardinality.                                        *)

Units(L) == {u \in L \X (1..MaxQty) : u[2] <= QtyOf[u[1]]}

Quantity(L) == Cardinality(Units(L))

LinesOf(o) == {l \in Lines : OrderOf[l] = o}

On(L, i) == {l \in L : ItemOf[l] = i}

\* The holds that reserve() and getAvailableQuantity() count.
Live == {l \in Lines : hold[l] = "ACTIVE" /\ expiresAt[l] > now}

Held(i) == Quantity(On(Live, i))

\* Mutant: availability forgets the holds.
AvailableMutant(i) == stock[i]

Available(i) == stock[i] - Held(i)

\* Mutant: flags only below the threshold, not at it.
FlagLowMutant(touched, newStock) ==
    lowStock' = lowStock \cup {i \in touched : newStock[i] < Threshold[i]}

\* maybeFlagLowStock for the items a step takes from.
FlagLow(touched, newStock) ==
    lowStock' = lowStock \cup {i \in touched : newStock[i] <= Threshold[i]}

Init ==
    /\ tracked = {}
    /\ stock = [i \in Items |-> 0]
    /\ booked = [i \in Items |-> 0]
    /\ lowStock = {}
    /\ hold = [l \in Lines |-> "NONE"]
    /\ expiresAt = [l \in Lines |-> 0]
    /\ sold = [l \in Lines |-> 0]
    /\ restored = [l \in Lines |-> 0]
    /\ placed = {}
    /\ capturing = [o \in Orders |-> {}]
    /\ pending = {}
    /\ unbacked = [i \in Items |-> 0]
    /\ adminOps = 0
    /\ now = 0

-----------------------------------------------------------------------------
(* Orders: createOrder reserves every tracked line in its transaction, and   *)
(* rolls the whole transaction back when one of them does not fit.           *)

TrackedLines(o) == {l \in LinesOf(o) : ItemOf[l] \in tracked}

\* reserve() succeeds on each of these lines in turn.
Fits(L) == \A l \in L : Quantity(On(L, ItemOf[l])) <= Available(ItemOf[l])

\* consume() on each of these holds: CONSUMED, a SALE row, less stock.
Consume(L) ==
    /\ hold' = [l \in Lines |-> IF l \in L THEN "CONSUMED" ELSE hold[l]]
    /\ sold' = [l \in Lines |-> IF l \in L THEN sold[l] + 1 ELSE sold[l]]
    /\ stock' = [i \in Items |-> stock[i] - Quantity(On(L, i))]
    /\ FlagLow({ItemOf[l] : l \in L}, stock')

\* An online method: the holds wait for the payment webhook.
\* Bound: every hold's expiry falls before the clock stops.
PlaceOnline(o) ==
    /\ o \notin placed
    /\ now + TTL < MaxTime
    /\ Fits(TrackedLines(o))
    /\ placed' = placed \cup {o}
    /\ hold' = [l \in Lines |-> IF l \in TrackedLines(o) THEN "ACTIVE" ELSE hold[l]]
    /\ expiresAt' = [l \in Lines |-> IF l \in TrackedLines(o) THEN now + TTL
                                                            ELSE expiresAt[l]]
    /\ UNCHANGED <<tracked, stock, booked, lowStock, sold, restored, capturing,
                   pending, unbacked, adminOps, now>>

\* Cash on delivery, pay at store: reserved and consumed in one transaction.
PlaceOffline(o) ==
    /\ o \notin placed
    /\ Fits(TrackedLines(o))
    /\ placed' = placed \cup {o}
    /\ Consume(TrackedLines(o))
    /\ expiresAt' = [l \in Lines |-> IF l \in TrackedLines(o) THEN now + TTL
                                                            ELSE expiresAt[l]]
    /\ UNCHANGED <<tracked, booked, restored, capturing, pending, unbacked,
                   adminOps, now>>

-----------------------------------------------------------------------------
(* The payment webhook.  Its transaction lists the order's ACTIVE holds and  *)
(* then consumes them; the rows are not locked in between, so the sweep may  *)
(* run.  It holds the payment's row lock, so one order has one at a time.    *)

\* Mutant: consume() no longer insists on ACTIVE.
ActiveLinesMutant(o) == {l \in LinesOf(o) : hold[l] \in {"ACTIVE", "CONSUMED"}}

ActiveLines(o) == {l \in LinesOf(o) : hold[l] = "ACTIVE"}

CaptureRead(o) ==
    /\ capturing[o] = {}
    /\ ActiveLines(o) # {}
    /\ capturing' = [capturing EXCEPT ![o] = ActiveLines(o)]
    /\ UNCHANGED <<tracked, stock, booked, lowStock, hold, expiresAt, sold,
                   restored, placed, pending, unbacked, adminOps, now>>

CaptureCommit(o) ==
    /\ capturing[o] # {}
    /\ Consume(capturing[o])
    /\ capturing' = [capturing EXCEPT ![o] = {}]
    /\ unbacked' = [i \in Items |->
                        unbacked[i] + Quantity(On(capturing[o] \ Live, i))]
    /\ UNCHANGED <<tracked, booked, expiresAt, restored, placed, pending,
                   adminOps, now>>

\* consume() finds a hold no longer ACTIVE and throws, or the process dies.
CaptureAbort(o) ==
    /\ capturing[o] # {}
    /\ capturing' = [capturing EXCEPT ![o] = {}]
    /\ UNCHANGED <<tracked, stock, booked, lowStock, hold, expiresAt, sold,
                   restored, placed, pending, unbacked, adminOps, now>>

\* payment.failed: release() on each ACTIVE hold of the order.
Release(o) ==
    /\ capturing[o] = {}
    /\ ActiveLines(o) # {}
    /\ hold' = [l \in Lines |-> IF l \in ActiveLines(o) THEN "RELEASED" ELSE hold[l]]
    /\ UNCHANGED <<tracked, stock, booked, lowStock, expiresAt, sold, restored,
                   placed, capturing, pending, unbacked, adminOps, now>>

\* Mutant: the restored quantity never reaches the ledger.
RestoreSalesMutant(o) ==
    LET L == {l \in LinesOf(o) : sold[l] > 0} IN
    /\ L # {}
    /\ \A l \in L : restored[l] < MaxRestores
    /\ restored' = [l \in Lines |-> IF l \in L THEN restored[l] + 1 ELSE restored[l]]
    /\ stock' = [i \in Items |-> stock[i] + Quantity(On(L, i))]
    /\ UNCHANGED <<tracked, booked, lowStock, hold, expiresAt, sold, placed,
                   capturing, pending, unbacked, adminOps, now>>

\* restockCancelledOrder: every SALE row of the order is given back.  A line
\* has at most one (SaleIffConsumed).  Bound: MaxRestores.
RestoreSales(o) ==
    LET L == {l \in LinesOf(o) : sold[l] > 0} IN
    /\ L # {}
    /\ \A l \in L : restored[l] < MaxRestores
    /\ restored' = [l \in Lines |-> IF l \in L THEN restored[l] + 1 ELSE restored[l]]
    /\ stock' = [i \in Items |-> stock[i] + Quantity(On(L, i))]
    /\ booked' = [i \in Items |-> booked[i] + Quantity(On(L, i))]
    /\ UNCHANGED <<tracked, lowStock, hold, expiresAt, sold, placed, capturing,
                   pending, unbacked, adminOps, now>>

-----------------------------------------------------------------------------
(* Staff.  adjust() and recordWastage() check the stock they read before the *)
(* transaction that applies the delta.                                       *)

CreateItem(i, q) ==
    /\ i \notin tracked
    /\ tracked' = tracked \cup {i}
    /\ stock' = [stock EXCEPT ![i] = q]
    /\ booked' = [booked EXCEPT ![i] = q]
    /\ UNCHANGED <<lowStock, hold, expiresAt, sold, restored, placed, capturing,
                   pending, unbacked, adminOps, now>>

Restock(i, q) ==
    /\ i \in tracked
    /\ adminOps < MaxAdminOps
    /\ adminOps' = adminOps + 1
    /\ stock' = [stock EXCEPT ![i] = @ + q]
    /\ booked' = [booked EXCEPT ![i] = @ + q]
    /\ UNCHANGED <<tracked, lowStock, hold, expiresAt, sold, restored, placed,
                   capturing, pending, unbacked, now>>

\* A positive or negative adjustment, or a wastage (negative).
AdjustCheck(a, i, d) ==
    /\ i \in tracked
    /\ \A p \in pending : p[1] # a
    /\ adminOps < MaxAdminOps
    /\ stock[i] + d >= 0
    /\ adminOps' = adminOps + 1
    /\ pending' = pending \cup {<<a, i, d>>}
    /\ UNCHANGED <<tracked, stock, booked, lowStock, hold, expiresAt, sold,
                   restored, placed, capturing, unbacked, now>>

AdjustCommit(a, i, d) ==
    /\ <<a, i, d>> \in pending
    /\ pending' = pending \ {<<a, i, d>>}
    /\ stock' = [stock EXCEPT ![i] = @ + d]
    /\ booked' = [booked EXCEPT ![i] = @ + d]
    /\ FlagLow({i}, stock')
    /\ unbacked' = [unbacked EXCEPT ![i] = IF d < 0 THEN @ - d ELSE @]
    /\ UNCHANGED <<tracked, hold, expiresAt, sold, restored, placed, capturing,
                   adminOps, now>>

-----------------------------------------------------------------------------
(* The clock and the every-minute job.                                       *)

\* Mutant: the sweep expires whatever is overdue, settled or not.
OverdueAnyMutant == {l \in Lines : hold[l] # "NONE" /\ expiresAt[l] < now}

\* Mutant: the sweep compares the wrong way round.
OverdueMutant == {l \in Lines : hold[l] = "ACTIVE" /\ expiresAt[l] > now}

Overdue == {l \in Lines : hold[l] = "ACTIVE" /\ expiresAt[l] < now}

Sweep ==
    /\ Overdue # {}
    /\ hold' = [l \in Lines |-> IF l \in Overdue THEN "EXPIRED" ELSE hold[l]]
    /\ UNCHANGED <<tracked, stock, booked, lowStock, expiresAt, sold, restored,
                   placed, capturing, pending, unbacked, adminOps, now>>

Tick ==
    /\ now < MaxTime
    /\ now' = now + 1
    /\ UNCHANGED <<tracked, stock, booked, lowStock, hold, expiresAt, sold,
                   restored, placed, capturing, pending, unbacked, adminOps>>

OrderNext(o) ==
    \/ PlaceOnline(o)
    \/ PlaceOffline(o)
    \/ CaptureRead(o)
    \/ CaptureCommit(o)
    \/ CaptureAbort(o)
    \/ Release(o)
    \/ RestoreSales(o)

StaffNext(i) ==
    \/ \E q \in Amounts \cup {0} : CreateItem(i, q)
    \/ \E q \in Amounts : Restock(i, q)
    \/ \E a \in Admins, d \in Deltas : AdjustCheck(a, i, d) \/ AdjustCommit(a, i, d)

Next ==
    \/ \E o \in Orders : OrderNext(o)
    \/ \E i \in Items : StaffNext(i)
    \/ Sweep
    \/ Tick

Spec == Init /\ [][Next]_vars

\* Time passes, and the cron job runs again and again.
FairSpec == Spec /\ WF_vars(Tick) /\ WF_vars(Sweep)

-----------------------------------------------------------------------------
(* Properties.                                                               *)

\* The holds reserve() counts never exceed the stock by more than what was
\* taken behind their back: by staff, or by a capture whose hold had lapsed.
\* While unbacked is zero this is "no two orders consume stock that does not
\* exist" (inventory-reservation.service.ts:21-39).
HoldsBacked == \A i \in Items : Held(i) <= stock[i] + unbacked[i]

ConsumedOn(i) == {l \in On(Lines, i) : hold[l] = "CONSUMED"}

\* An item's stock is what the ledger's other rows say, less exactly the
\* quantity of the holds marked CONSUMED: consume() changes both or neither.
StockConserved ==
    \A i \in Items :
        stock[i] = booked[i] - Quantity(ConsumedOn(i))

\* consume() marks a hold and writes its SALE row together, and never twice
\* for one hold, whatever the sweep and other orders do in between.
SaleIffConsumed ==
    \A l \in Lines : sold[l] = IF hold[l] = "CONSUMED" THEN 1 ELSE 0

\* What the four invariants above and below rest on: a hold belongs to a
\* placed order, an open capture lists its own order's unconsumed holds, and
\* nothing concerns an item before it has a row.
StatusInv ==
    /\ \A l \in Lines : hold[l] # "NONE" => OrderOf[l] \in placed
    /\ \A o \in Orders : \A l \in capturing[o] :
          OrderOf[l] = o /\ hold[l] \in {"ACTIVE", "EXPIRED"}
    /\ \A p \in pending : p[2] \in tracked
    /\ \A i \in Items \ tracked : stock[i] = 0 /\ booked[i] = 0
    /\ \A l \in Lines : hold[l] # "NONE" => ItemOf[l] \in tracked
    /\ SaleIffConsumed

\* Stock that fell to its threshold has been announced: an item that sold
\* something and was never flagged is still above the threshold.
LowStockAnnounced ==
    \A l \in Lines : sold[l] > 0 /\ ItemOf[l] \notin lowStock
                         => stock[ItemOf[l]] > Threshold[ItemOf[l]]

\* A hold is settled once.  CONSUMED and RELEASED are final; EXPIRED is left
\* only by a capture that had read the hold while it was ACTIVE.
SettleStep ==
    \A l \in Lines :
        /\ hold[l] \in {"CONSUMED", "RELEASED"} => hold'[l] = hold[l]
        /\ hold[l] = "EXPIRED" /\ hold'[l] # "EXPIRED"
             => hold'[l] = "CONSUMED" /\ l \in capturing[OrderOf[l]]

SettledOnce == [][SettleStep]_vars

\* An abandoned checkout gives its hold up: no hold stays ACTIVE for ever.
HoldsEnd == \A l \in Lines : hold[l] = "ACTIVE" ~> hold[l] # "ACTIVE"

=============================================================================
