------------------------------ MODULE Payments ------------------------------
(***************************************************************************)
(* The payments of one order (services/api/src/payments/): the payment of  *)
(* the checkout, paid through the gateway or collected by staff, payments  *)
(* staff add to it, the gateway's webhooks, and refunds.                   *)
(*                                                                         *)
(* The database runs at READ COMMITTED.  A transaction that changes a      *)
(* payment or a refund recomputes orders.paymentStatus from the rows other *)
(* transactions have committed and its own; what it computed is written    *)
(* when it commits.  It is therefore two steps: the reading step, named    *)
(* for the work it does, and Commit.  The payment row it has updated stays *)
(* locked between them.  Whatever the code reads before its transaction is *)
(* a step of its own.                                                      *)
(*                                                                         *)
(* The gateway is external: it creates orders, moves money, and delivers   *)
(* each event any number of times, late and in any order.  Not modelled:   *)
(* stock (Inventory), signatures, events of other types (recorded and      *)
(* ignored), the audit log and the reports.                                *)
(***************************************************************************)
EXTENDS Integers, FiniteSets

CONSTANTS
    First,          \* the payment createOrder creates
    Splits,         \* calls of addManualPayment; a payment is named by its call
    Collectors,     \* calls of collect on the first payment
    Refunds,        \* calls of createRefund; a refund is named by its call
    GatewayOrders,  \* calls of initiatePayment, named by the order they create
    NoOrder,        \* a null providerOrderId
    Events,         \* events of the gateway, named by their event id
    EventOrder,     \* [Events -> GatewayOrders]
    Captured,       \* the events that report a capture; the others a failure
    Redelivered,    \* the events whose redelivery is looked at (a bound)
    Total,          \* orders.totalInPaise
    Amounts         \* the amounts staff enter

Payments == {First} \cup Splits

\* Whoever may have a transaction open.
Actors == Events \cup Collectors \cup Splits \cup Refunds

ASSUME PaymentsAssumption ==
    /\ IsFiniteSet(Refunds)
    /\ IsFiniteSet(Splits)
    /\ First \notin Splits
    /\ NoOrder \notin GatewayOrders
    /\ EventOrder \in [Events -> GatewayOrders]
    /\ Captured \in SUBSET Events
    /\ Redelivered \in SUBSET Events
    /\ Total \in Nat \ {0}
    /\ Amounts \in SUBSET (1..Total)

\* The four kinds of call are told apart.
ASSUME ActorsAssumption ==
    /\ Events \cap (Collectors \cup Splits \cup Refunds) = {}
    /\ Collectors \cap (Splits \cup Refunds) = {}
    /\ Splits \cap Refunds = {}

VARIABLES
    online,         \* whether the first payment's provider is the gateway
    pay,            \* payments.status, "NONE" before the insert
    amount,         \* payments.amountInPaise
    captures,       \* per event, the CAPTURE rows it wrote
    call,           \* how far each call of collect and addManualPayment has come
    initiation,     \* how far each call of initiatePayment has come
    providerOrder,  \* the first payment's providerOrderId
    webhook,        \* per event: its row, and whether a handler still works on it
    duplicates,     \* events whose redelivery was answered "duplicate"
    refund,         \* refunds.status and, while PENDING, what its handler knows
    refundOf,       \* refunds.paymentId
    refundAmount,   \* refunds.amountInPaise
    moved,          \* refunds whose money went back to the customer
    summary,        \* orders.paymentStatus
    view,           \* per open transaction, the summary it computed
    overlapped,     \* history: open transactions another was open beside
    raced,          \* history: the last commit was of such a transaction
    atCheck,        \* history: the collections a collect knew of when it checked,
    atRequest       \* the successful refunds of its payment a refund was checked with

gatewayVars == <<online, initiation, providerOrder>>
webhookVars == <<captures, webhook, duplicates>>
refundVars == <<refund, refundOf, refundAmount, moved, atRequest>>
callVars == <<call, amount, atCheck>>
txVars == <<summary, view, overlapped, raced>>
vars == <<gatewayVars, webhookVars, refundVars, callVars, txVars, pay>>

Summaries == {"PENDING", "PAID", "FAILED", "REFUNDED", "PARTIALLY_REFUNDED"}

TypeOK ==
    /\ online \in BOOLEAN
    /\ pay \in [Payments -> {"NONE", "PENDING", "PAID", "FAILED"}]
    /\ amount \in [Payments -> 1..Total]
    /\ captures \in [Events -> Nat]
    /\ call \in [Collectors \cup Splits -> {"NEW", "CHECKED", "COMMITTED", "DROPPED"}]
    /\ initiation \in [GatewayOrders -> {"NEW", "CREATED", "SAVED"}]
    /\ providerOrder \in GatewayOrders \cup {NoOrder}
    /\ webhook \in [Events -> {"NONE", "RECORDED", "FOUND", "DROPPED", "PROCESSED", "IGNORED"}]
    /\ duplicates \in SUBSET Redelivered
    /\ refund \in [Refunds -> {"NONE", "PENDING", "APPROVED", "STUCK", "SUCCESS"}]
    /\ refundOf \in [Refunds -> Payments]
    /\ refundAmount \in [Refunds -> 1..Total]
    /\ moved \in SUBSET Refunds
    /\ summary \in Summaries
    /\ view \in [Actors -> Summaries \cup {"none"}]
    /\ overlapped \in SUBSET Actors
    /\ raced \in BOOLEAN
    /\ atCheck \in [Collectors -> SUBSET Collectors]
    /\ atRequest \in [Refunds -> SUBSET Refunds]

Init ==
    /\ online \in BOOLEAN
    /\ pay = [p \in Payments |-> IF p = First THEN "PENDING" ELSE "NONE"]
    /\ amount = [p \in Payments |-> Total]
    /\ captures = [e \in Events |-> 0]
    /\ call = [c \in Collectors \cup Splits |-> "NEW"]
    /\ initiation = [g \in GatewayOrders |-> "NEW"]
    /\ providerOrder = NoOrder
    /\ webhook = [e \in Events |-> "NONE"]
    /\ duplicates = {}
    /\ refund = [r \in Refunds |-> "NONE"]
    /\ refundOf = [r \in Refunds |-> First]
    /\ refundAmount = [r \in Refunds |-> Total]
    /\ moved = {}
    /\ summary = "PENDING"
    /\ view = [a \in Actors |-> "none"]
    /\ overlapped = {}
    /\ raced = FALSE
    /\ atCheck = [c \in Collectors |-> {}]
    /\ atRequest = [r \in Refunds |-> {}]

-----------------------------------------------------------------------------
(* Sums are counted in units, so that their laws are those of Cardinality.   *)

Units(S, amt) == {u \in S \X (1..Total) : u[2] <= amt[u[1]]}

Sum(S, amt) == Cardinality(Units(S, amt))

Successful == {r \in Refunds : refund[r] = "SUCCESS"}

RefundsOf(p, S) == {r \in S : refundOf[r] = p}

\* recomputeOrderPaymentStatus, of payments with statuses P and amounts amt
\* and successful refunds R with amounts ramt.
Summarise(P, R, amt, ramt) ==
    LET paid == Sum({p \in Payments : P[p] = "PAID"}, amt)
        refunded == Sum(R, ramt)
        existing == {p \in Payments : P[p] # "NONE"}
    IN  CASE refunded > 0 -> IF refunded >= paid THEN "REFUNDED" ELSE "PARTIALLY_REFUNDED"
          [] refunded = 0 /\ paid >= Total -> "PAID"
          [] refunded = 0 /\ paid < Total ->
               IF paid = 0 /\ \A p \in existing : P[p] = "FAILED" THEN "FAILED" ELSE "PENDING"

-----------------------------------------------------------------------------
(* Transactions.                                                             *)

Open == {a \in Actors : view[a] # "none"}

\* The row lock of the first payment.
FirstLocked == Open \cap (Events \cup Collectors) # {}

\* An actor has done its writes and computed the summary s.
Work(a, s) ==
    /\ a \notin Open
    /\ view' = [view EXCEPT ![a] = s]
    /\ overlapped' = IF Open = {} THEN overlapped ELSE overlapped \cup Open \cup {a}
    /\ UNCHANGED <<summary, raced>>

\* Its writes and its summary become visible.
Commit(a) ==
    /\ a \in Open
    /\ summary' = view[a]
    /\ raced' = (a \in overlapped)
    /\ view' = [view EXCEPT ![a] = "none"]
    /\ overlapped' = overlapped \ {a}

\* Its transaction fails or its process dies: nothing becomes visible.
Rollback(a) ==
    /\ view' = [view EXCEPT ![a] = "none"]
    /\ overlapped' = overlapped \ {a}
    /\ UNCHANGED <<summary, raced>>

-----------------------------------------------------------------------------
(* What the open transaction of each kind does to the rows.                  *)

\* The payment an event, a collection or a split is about.
Target(a) == IF a \in Splits THEN a ELSE First

\* Mutant: any event of the gateway order confirms the payment.
OutcomeMutant(a) == "PAID"

Outcome(a) == IF a \in Events \ Captured THEN "FAILED" ELSE "PAID"

PayAfter(a) == IF a \in Refunds THEN pay ELSE [pay EXCEPT ![Target(a)] = Outcome(a)]

\* Mutant: the summary is recomputed before the refund is recorded.
RefundsAfterMutant(a) == Successful

RefundsAfter(a) == Successful \cup ({a} \cap Refunds)

Recompute(a) ==
    Work(a, Summarise(PayAfter(a), RefundsAfter(a), amount, refundAmount))

-----------------------------------------------------------------------------
(* initiatePayment: each call creates an order at the gateway and writes its *)
(* id to the payment, over the one before.                                   *)

Initiate(g) ==
    /\ online
    /\ initiation[g] = "NEW"
    /\ pay[First] = "PENDING"
    /\ initiation' = [initiation EXCEPT ![g] = "CREATED"]
    /\ UNCHANGED <<online, providerOrder, webhookVars, refundVars, callVars, txVars, pay>>

\* Only now does the customer learn which order to pay.
SaveOrder(g) ==
    /\ initiation[g] = "CREATED"
    /\ ~FirstLocked
    /\ initiation' = [initiation EXCEPT ![g] = "SAVED"]
    /\ providerOrder' = g
    /\ UNCHANGED <<online, webhookVars, refundVars, callVars, txVars, pay>>

-----------------------------------------------------------------------------
(* handleWebhook.  The row of the event is committed first, by itself.       *)

\* Mutant: the handler goes by processedAt instead of by the unique key.
DeliverMutant(e) ==
    /\ initiation[EventOrder[e]] = "SAVED"
    /\ webhook[e] \in {"NONE", "DROPPED", "PROCESSED"}
    /\ webhook' = [webhook EXCEPT ![e] = "RECORDED"]
    /\ UNCHANGED <<gatewayVars, captures, duplicates, refundVars, callVars, txVars, pay>>

Deliver(e) ==
    /\ initiation[EventOrder[e]] = "SAVED"
    /\ webhook[e] = "NONE"
    /\ webhook' = [webhook EXCEPT ![e] = "RECORDED"]
    /\ UNCHANGED <<gatewayVars, captures, duplicates, refundVars, callVars, txVars, pay>>

\* P2002 on (provider, eventId): "duplicate".
Redeliver(e) ==
    /\ e \in Redelivered
    /\ webhook[e] # "NONE"
    /\ duplicates' = duplicates \cup {e}
    /\ UNCHANGED <<gatewayVars, captures, webhook, refundVars, callVars, txVars, pay>>

\* The payment is looked for by the event's providerOrderId, outside the
\* transaction that will update it by its id.
Lookup(e) ==
    /\ webhook[e] = "RECORDED"
    /\ webhook' = [webhook EXCEPT ![e] =
                    IF EventOrder[e] = providerOrder THEN "FOUND" ELSE "IGNORED"]
    /\ UNCHANGED <<gatewayVars, captures, duplicates, refundVars, callVars, txVars, pay>>

EventWork(e) ==
    /\ webhook[e] = "FOUND"
    /\ ~FirstLocked
    /\ Recompute(e)
    /\ UNCHANGED <<gatewayVars, webhookVars, refundVars, callVars, pay>>

EventCommit(e) ==
    /\ Commit(e)
    /\ pay' = PayAfter(e)
    /\ captures' = IF e \in Captured THEN [captures EXCEPT ![e] = @ + 1] ELSE captures
    /\ webhook' = [webhook EXCEPT ![e] = "PROCESSED"]
    /\ UNCHANGED <<gatewayVars, duplicates, refundVars, callVars>>

\* The transaction fails (a hold was swept under it) or the process dies: the
\* row of the event stays, and no delivery will handle it again.
EventDrop(e) ==
    /\ webhook[e] \in {"RECORDED", "FOUND"}
    /\ Rollback(e)
    /\ webhook' = [webhook EXCEPT ![e] = "DROPPED"]
    /\ UNCHANGED <<gatewayVars, captures, duplicates, refundVars, callVars, pay>>

-----------------------------------------------------------------------------
(* collect and addManualPayment check before their transaction.              *)

\* The collections that have happened.
Collected == {c \in Collectors : call[c] = "COMMITTED"}

\* Mutant: a payment may be collected again.
CollectCheckMutant(c) ==
    /\ ~online
    /\ call[c] = "NEW"
    /\ call' = [call EXCEPT ![c] = "CHECKED"]
    /\ atCheck' = [atCheck EXCEPT ![c] = Collected]
    /\ UNCHANGED <<gatewayVars, webhookVars, refundVars, amount, txVars, pay>>

CollectCheck(c) ==
    /\ ~online
    /\ call[c] = "NEW"
    /\ pay[First] # "PAID"
    /\ call' = [call EXCEPT ![c] = "CHECKED"]
    /\ atCheck' = [atCheck EXCEPT ![c] = Collected]
    /\ UNCHANGED <<gatewayVars, webhookVars, refundVars, amount, txVars, pay>>

\* The amount is within what the PAID payments leave of the total.
SplitCheck(p, q) ==
    /\ call[p] = "NEW"
    /\ Sum({x \in Payments : pay[x] = "PAID"}, amount) + q <= Total
    /\ call' = [call EXCEPT ![p] = "CHECKED"]
    /\ amount' = [amount EXCEPT ![p] = q]
    /\ UNCHANGED <<gatewayVars, webhookVars, refundVars, atCheck, txVars, pay>>

CallWork(c) ==
    /\ call[c] = "CHECKED"
    /\ c \in Collectors => ~FirstLocked
    /\ Recompute(c)
    /\ UNCHANGED <<gatewayVars, webhookVars, refundVars, callVars, pay>>

CallCommit(c) ==
    /\ Commit(c)
    /\ pay' = PayAfter(c)
    /\ call' = [call EXCEPT ![c] = "COMMITTED"]
    /\ UNCHANGED <<gatewayVars, webhookVars, refundVars, amount, atCheck>>

CallDrop(c) ==
    /\ call[c] = "CHECKED"
    /\ Rollback(c)
    /\ call' = [call EXCEPT ![c] = "DROPPED"]
    /\ UNCHANGED <<gatewayVars, webhookVars, refundVars, amount, atCheck, pay>>

-----------------------------------------------------------------------------
(* createRefund: a check, a row, a call to the gateway, a transaction.       *)

\* Mutant: the amount is compared with the whole payment.
RefundableMutant(p) == amount[p]

\* Only the refunds that are SUCCESS count.
Refundable(p) == amount[p] - Sum(RefundsOf(p, Successful), refundAmount)

\* The check and the PENDING row, which no check counts.
RequestRefund(r, p, q) ==
    /\ refund[r] = "NONE"
    /\ pay[p] = "PAID"
    /\ q <= Refundable(p)
    /\ refund' = [refund EXCEPT ![r] = "PENDING"]
    /\ refundOf' = [refundOf EXCEPT ![r] = p]
    /\ refundAmount' = [refundAmount EXCEPT ![r] = q]
    /\ atRequest' = [atRequest EXCEPT ![r] = RefundsOf(p, Successful)]
    /\ UNCHANGED <<moved, gatewayVars, webhookVars, callVars, txVars, pay>>

\* The gateway refunds, or staff hand cash back, and the handler knows.
RefundAccepted(r) ==
    /\ refund[r] = "PENDING"
    /\ refund' = [refund EXCEPT ![r] = "APPROVED"]
    /\ moved' = moved \cup {r}
    /\ UNCHANGED <<refundOf, refundAmount, atRequest, gatewayVars, webhookVars,
                   callVars, txVars, pay>>

\* The gateway refuses, or its answer is lost.  The transaction that would
\* record FAILED throws and rolls back, so the row stays PENDING.
RefundRefused(r) ==
    /\ refund[r] = "PENDING"
    /\ refund' = [refund EXCEPT ![r] = "STUCK"]
    /\ online /\ refundOf[r] = First
    /\ moved' \in {moved, moved \cup {r}}
    /\ UNCHANGED <<refundOf, refundAmount, atRequest, gatewayVars, webhookVars,
                   callVars, txVars, pay>>

RefundWork(r) ==
    /\ refund[r] = "APPROVED"
    /\ Recompute(r)
    /\ UNCHANGED <<gatewayVars, webhookVars, refundVars, callVars, pay>>

RefundCommit(r) ==
    /\ Commit(r)
    /\ refund' = [refund EXCEPT ![r] = "SUCCESS"]
    /\ UNCHANGED <<refundOf, refundAmount, moved, atRequest, gatewayVars,
                   webhookVars, callVars, pay>>

\* The process dies after the money went back.
RefundDrop(r) ==
    /\ refund[r] = "APPROVED"
    /\ Rollback(r)
    /\ refund' = [refund EXCEPT ![r] = "STUCK"]
    /\ UNCHANGED <<refundOf, refundAmount, moved, atRequest, gatewayVars,
                   webhookVars, callVars, pay>>

-----------------------------------------------------------------------------

GatewayNext(g) == Initiate(g) \/ SaveOrder(g)

EventNext(e) ==
    \/ Deliver(e)
    \/ Redeliver(e)
    \/ Lookup(e)
    \/ EventWork(e)
    \/ EventCommit(e)
    \/ EventDrop(e)

CallNext(c) == CallWork(c) \/ CallCommit(c) \/ CallDrop(c)

RefundNext(r) ==
    \/ \E p \in Payments, q \in Amounts : RequestRefund(r, p, q)
    \/ RefundAccepted(r)
    \/ RefundRefused(r)
    \/ RefundWork(r)
    \/ RefundCommit(r)
    \/ RefundDrop(r)

Next ==
    \/ \E g \in GatewayOrders : GatewayNext(g)
    \/ \E e \in Events : EventNext(e)
    \/ \E c \in Collectors : CollectCheck(c)
    \/ \E p \in Splits, q \in Amounts : SplitCheck(p, q)
    \/ \E c \in Collectors \cup Splits : CallNext(c)
    \/ \E r \in Refunds : RefundNext(r)

Spec == Init /\ [][Next]_vars

-----------------------------------------------------------------------------
(* Properties.                                                               *)

\* "A duplicate webhook cannot create a duplicate PaymentTransaction"
\* (payment-architecture.md:99-101): an event writes its CAPTURE row once,
\* exactly when it is processed, however often and late it is delivered.
CapturedOnce ==
    \A e \in Events :
        captures[e] = IF e \in Captured /\ webhook[e] = "PROCESSED" THEN 1 ELSE 0

\* The status of a payment has its cause on record: a capture or a collection
\* for PAID, a failure for FAILED; and a capture no failure came beside
\* leaves the payment PAID, in whatever order the events were delivered.
StatusHasCause ==
    LET Processed == {e \in Events : webhook[e] = "PROCESSED"} IN
    /\ pay[First] = "PAID" => Collected \cup (Processed \cap Captured) # {}
    /\ pay[First] = "FAILED" => Processed \ Captured # {}
    /\ Collected \cup Processed # {} /\ Processed \subseteq Captured => pay[First] = "PAID"
    /\ \A p \in Splits : pay[p] = IF call[p] = "COMMITTED" THEN "PAID" ELSE "NONE"

\* A gateway event is ignored only when its order has been superseded for
\* good: the payment never goes back to the providerOrderId it was ignored for.
IgnoredAreSuperseded ==
    \A e \in Events : webhook[e] = "IGNORED" => providerOrder # EventOrder[e]

\* Cash is collected twice only by two calls that both checked before either
\* had committed.
CollectedOnce == \A c \in Collected : atCheck[c] \cap Collected = {}

\* Two refunds of one payment, neither counted when the other was checked.
Uncounted(r, s) ==
    /\ r # s
    /\ refundOf[r] = refundOf[s]
    /\ r \notin atRequest[s]
    /\ s \notin atRequest[r]

\* More money goes back than a payment brought only through refunds that did
\* not count each other: concurrent ones, or one repeated because its row was
\* left PENDING.
RefundsCounted ==
    \A p \in Payments :
        LET M == RefundsOf(p, moved) IN
        Sum(M, refundAmount) > amount[p] => \E r, s \in M : Uncounted(r, s)

\* orders.paymentStatus is what its rows say (payments.service.ts:440-442),
\* unless the last transaction to write it overlapped another.
SummaryAgrees == raced \/ summary = Summarise(pay, Successful, amount, refundAmount)

\* "This exact event was already processed" (payment-architecture.md:92-94):
\* an event is answered "duplicate" only when it was handled or is about to be.
DuplicateMeansHandled ==
    [][\A e \in duplicates' \ duplicates : webhook[e] # "DROPPED"]_vars

=============================================================================
