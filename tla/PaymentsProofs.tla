--------------------------- MODULE PaymentsProofs ---------------------------
(***************************************************************************)
(* Theorems about Payments, for every number of events, calls and refunds. *)
(* CallInv ties an open transaction to the progress of its call and an     *)
(* event to its gateway order; RefundInv says what a refund was checked    *)
(* with; ViewInv that a transaction alone in the database has computed the *)
(* summary of the rows it will leave behind.                               *)
(***************************************************************************)
EXTENDS Payments, FiniteSetTheorems, TLAPS

-----------------------------------------------------------------------------
(* The laws of Sum.                                                          *)

\* A finite set has finitely many units.
LEMMA UnitsFinite ==
    ASSUME NEW S, IsFiniteSet(S), NEW amt
    PROVE  IsFiniteSet(Units(S, amt))
<1>1. Total \in Nat /\ IsFiniteSet(1..Total)
    BY PaymentsAssumption, FS_Interval
<1>2. IsFiniteSet(S \X (1..Total))
    BY <1>1, FS_Product
<1>3. Units(S, amt) \in SUBSET (S \X (1..Total))
    BY DEF Units
<1>4. QED
    BY <1>2, <1>3, FS_Subset

\* A sum is a natural number.
LEMMA SumNat ==
    ASSUME NEW S, IsFiniteSet(S), NEW amt
    PROVE  Sum(S, amt) \in Nat
BY UnitsFinite, FS_CardinalityType DEF Sum

\* Nothing sums to nothing.
LEMMA SumEmpty == ASSUME NEW amt PROVE Sum({}, amt) = 0
<1>1. Units({}, amt) = {}
    BY DEF Units
<1>2. QED
    BY <1>1, FS_EmptySet DEF Sum

\* A sum depends on the amounts of its members only.
LEMMA SumSame ==
    ASSUME NEW S, NEW amt, NEW bmt, \A x \in S : amt[x] = bmt[x]
    PROVE  Sum(S, amt) = Sum(S, bmt)
<1>1. Units(S, amt) = Units(S, bmt)
    BY DEF Units
<1>2. QED
    BY <1>1 DEF Sum

\* A part never sums to more than the whole.
LEMMA SumMonotone ==
    ASSUME NEW T, IsFiniteSet(T), NEW S \in SUBSET T, NEW amt
    PROVE  Sum(S, amt) <= Sum(T, amt)
<1>1. IsFiniteSet(Units(T, amt)) /\ Units(S, amt) \in SUBSET Units(T, amt)
    BY UnitsFinite DEF Units
<1>2. QED
    BY <1>1, FS_Subset DEF Sum

\* One member more adds its amount.
LEMMA SumAdd ==
    ASSUME NEW S, IsFiniteSet(S), NEW x, x \notin S, NEW amt, amt[x] \in 1..Total
    PROVE  Sum(S \cup {x}, amt) = Sum(S, amt) + amt[x]
<1> DEFINE New == {x} \X (1..amt[x])
<1>1. Units(S \cup {x}, amt) = Units(S, amt) \cup New
  <2>1. ASSUME NEW u \in Units(S \cup {x}, amt)
        PROVE  u \in Units(S, amt) \cup New
    BY <2>1, PaymentsAssumption DEF Units
  <2>2. ASSUME NEW u \in New
        PROVE  u \in Units(S \cup {x}, amt)
    BY <2>2, PaymentsAssumption DEF Units
  <2>3. Units(S, amt) \subseteq Units(S \cup {x}, amt)
    BY DEF Units
  <2>4. QED
    BY <2>1, <2>2, <2>3
<1>2. Units(S, amt) \cap New = {}
    BY DEF Units
<1>3. IsFiniteSet(New) /\ Cardinality(New) = amt[x]
  <2>1. IsFiniteSet(1..amt[x]) /\ Cardinality(1..amt[x]) = amt[x]
    BY PaymentsAssumption, FS_Interval
  <2>2. IsFiniteSet({x}) /\ Cardinality({x}) = 1
    BY FS_Singleton
  <2>3. IsFiniteSet(New) /\ Cardinality(New) = Cardinality({x}) * Cardinality(1..amt[x])
    BY <2>1, <2>2, FS_Product
  <2>4. QED
    BY <2>1, <2>2, <2>3, PaymentsAssumption
<1>4. Cardinality(Units(S, amt) \cup New)
        = Cardinality(Units(S, amt)) + Cardinality(New)
            - Cardinality(Units(S, amt) \cap New)
    BY <1>3, UnitsFinite, FS_Union
<1>5. Cardinality(Units(S, amt)) \in Nat
    BY UnitsFinite, FS_CardinalityType
<1>6. Cardinality(Units(S, amt) \cap New) = 0
    BY <1>2, FS_EmptySet
<1>7. amt[x] \in Nat
    BY PaymentsAssumption
<1>8. Cardinality(Units(S, amt) \cup New) = Cardinality(Units(S, amt)) + amt[x]
    BY <1>3, <1>4, <1>5, <1>6, <1>7
<1>9. QED
    BY <1>1, <1>8 DEF Sum

\* Payments and refunds are finitely many.
LEMMA RowsFinite ==
    ASSUME NEW P \in SUBSET Payments, NEW R \in SUBSET Refunds
    PROVE  IsFiniteSet(P) /\ IsFiniteSet(R)
<1>1. IsFiniteSet(Payments)
    BY PaymentsAssumption, FS_Singleton, FS_Union DEF Payments
<1>2. QED
    BY <1>1, PaymentsAssumption, FS_Subset

\* The recomputation yields one of the five statuses of an order.
LEMMA SummariseType ==
    ASSUME NEW P, NEW R \in SUBSET Refunds, NEW amt, NEW ramt
    PROVE  Summarise(P, R, amt, ramt) \in Summaries
<1>1. Sum({p \in Payments : P[p] = "PAID"}, amt) \in Nat
    BY RowsFinite, SumNat
<1>2. Sum(R, ramt) \in Nat
    BY RowsFinite, SumNat
<1>3. QED
    BY <1>1, <1>2, PaymentsAssumption DEF Summarise, Summaries

\* It depends on the amounts of the paid payments and counted refunds only.
LEMMA SummariseSame ==
    ASSUME NEW P, NEW R, NEW amt, NEW ramt, NEW bmt, NEW rbmt,
           \A p \in Payments : P[p] = "PAID" => amt[p] = bmt[p],
           \A r \in R : ramt[r] = rbmt[r]
    PROVE  Summarise(P, R, amt, ramt) = Summarise(P, R, bmt, rbmt)
<1>1. Sum({p \in Payments : P[p] = "PAID"}, amt) = Sum({p \in Payments : P[p] = "PAID"}, bmt)
    BY SumSame
<1>2. Sum(R, ramt) = Sum(R, rbmt)
    BY SumSame
<1>3. QED
    BY <1>1, <1>2 DEF Summarise

-----------------------------------------------------------------------------
(* Type correctness.                                                         *)

TxType ==
    /\ summary \in Summaries
    /\ view \in [Actors -> Summaries \cup {"none"}]
    /\ overlapped \in SUBSET Actors
    /\ raced \in BOOLEAN

\* Beginning, committing and rolling back a transaction keep its types.
LEMMA TxTypes ==
    ASSUME TypeOK, NEW a \in Actors, Recompute(a) \/ Commit(a) \/ Rollback(a)
    PROVE  TxType'
<1> USE DEF TypeOK, TxType, Open
<1>1. CASE Recompute(a)
  <2>1. RefundsAfter(a) \in SUBSET Refunds
    BY DEF RefundsAfter, Successful
  <2>2. Summarise(PayAfter(a), RefundsAfter(a), amount, refundAmount) \in Summaries
    BY <2>1, SummariseType
  <2>3. QED
    BY <1>1, <2>2 DEF Recompute, Work
<1>2. CASE Commit(a)
  <2>1. view[a] \in Summaries
    BY <1>2 DEF Commit
  <2>2. QED
    BY <1>2, <2>1 DEF Commit
<1>3. CASE Rollback(a)
  BY <1>3 DEF Rollback
<1>4. QED
  BY <1>1, <1>2, <1>3

\* The statuses an open transaction writes are statuses of a payment.
LEMMA PayAfterType ==
    ASSUME TypeOK, NEW a \in Actors
    PROVE  PayAfter(a) \in [Payments -> {"NONE", "PENDING", "PAID", "FAILED"}]
<1>1. Outcome(a) \in {"PAID", "FAILED"}
    BY DEF Outcome
<1>2. QED
    BY <1>1 DEF TypeOK, PayAfter

\* Every variable keeps its type.
THEOREM TypeCorrect == Spec => []TypeOK
<1>1. Init => TypeOK
  <2>1. Total \in 1..Total /\ First \in Payments /\ "PENDING" \in Summaries
    BY PaymentsAssumption DEF Payments, Summaries
  <2>2. SUFFICES ASSUME Init
                 PROVE  TypeOK
    OBVIOUS
  <2>3. /\ pay \in [Payments -> {"NONE", "PENDING", "PAID", "FAILED"}]
        /\ amount \in [Payments -> 1..Total]
        /\ captures \in [Events -> Nat]
        /\ refundOf \in [Refunds -> Payments]
        /\ refundAmount \in [Refunds -> 1..Total]
        /\ view \in [Actors -> Summaries \cup {"none"}]
    BY <2>1, <2>2 DEF Init
  <2>4. /\ atCheck \in [Collectors -> SUBSET Collectors]
        /\ atRequest \in [Refunds -> SUBSET Refunds]
        /\ duplicates \in SUBSET Redelivered
        /\ moved \in SUBSET Refunds
        /\ overlapped \in SUBSET Actors
    BY <2>2 DEF Init
  <2>5. QED
    BY <2>1, <2>2, <2>3, <2>4 DEF Init, TypeOK
<1>2. TypeOK /\ [Next]_vars => TypeOK'
  <2> SUFFICES ASSUME TypeOK, [Next]_vars
               PROVE  TypeOK'
    OBVIOUS
  <2> USE DEF TypeOK, TxType
  <2>1. ASSUME NEW g \in GatewayOrders, GatewayNext(g)
        PROVE  TypeOK'
    BY <2>1 DEF GatewayNext, Initiate, SaveOrder, webhookVars, refundVars, callVars, txVars
  <2>2. ASSUME NEW e \in Events, Deliver(e) \/ Redeliver(e) \/ Lookup(e)
        PROVE  TypeOK'
    BY <2>2 DEF Deliver, Redeliver, Lookup, gatewayVars, refundVars, callVars, txVars
  <2>3. ASSUME NEW e \in Events, EventWork(e) \/ EventCommit(e) \/ EventDrop(e)
        PROVE  TypeOK'
    <3>1. e \in Actors
      BY DEF Actors
    <3>2. TxType'
      BY <2>3, <3>1, TxTypes DEF EventWork, EventCommit, EventDrop
    <3>3. pay' \in [Payments -> {"NONE", "PENDING", "PAID", "FAILED"}]
      BY <2>3, <3>1, PayAfterType DEF EventWork, EventCommit, EventDrop
    <3>4. QED
      BY <2>3, <3>2, <3>3 DEF EventWork, EventCommit, EventDrop,
                              gatewayVars, webhookVars, refundVars, callVars
  <2>4. ASSUME NEW c \in Collectors, CollectCheck(c)
        PROVE  TypeOK'
    BY <2>4 DEF CollectCheck, Collected, gatewayVars, webhookVars, refundVars, txVars
  <2>5. ASSUME NEW p \in Splits, NEW q \in Amounts, SplitCheck(p, q)
        PROVE  TypeOK'
    BY <2>5, PaymentsAssumption DEF SplitCheck, Payments, gatewayVars, webhookVars,
                                    refundVars, txVars
  <2>6. ASSUME NEW c \in Collectors \cup Splits, CallNext(c)
        PROVE  TypeOK'
    <3>1. c \in Actors
      BY DEF Actors
    <3>2. TxType'
      BY <2>6, <3>1, TxTypes DEF CallNext, CallWork, CallCommit, CallDrop
    <3>3. pay' \in [Payments -> {"NONE", "PENDING", "PAID", "FAILED"}]
      BY <2>6, <3>1, PayAfterType DEF CallNext, CallWork, CallCommit, CallDrop
    <3>4. QED
      BY <2>6, <3>2, <3>3 DEF CallNext, CallWork, CallCommit, CallDrop,
                              gatewayVars, webhookVars, refundVars, callVars
  <2>7. ASSUME NEW r \in Refunds, NEW p \in Payments, NEW q \in Amounts,
               RequestRefund(r, p, q)
        PROVE  TypeOK'
    BY <2>7, PaymentsAssumption DEF RequestRefund, RefundsOf, Successful,
                                    gatewayVars, webhookVars, callVars, txVars
  <2>8. ASSUME NEW r \in Refunds, RefundAccepted(r) \/ RefundRefused(r)
        PROVE  TypeOK'
    BY <2>8 DEF RefundAccepted, RefundRefused, gatewayVars, webhookVars, callVars, txVars
  <2>9. ASSUME NEW r \in Refunds, RefundWork(r) \/ RefundCommit(r) \/ RefundDrop(r)
        PROVE  TypeOK'
    <3>1. r \in Actors
      BY DEF Actors
    <3>2. TxType'
      BY <2>9, <3>1, TxTypes DEF RefundWork, RefundCommit, RefundDrop
    <3>3. QED
      BY <2>9, <3>2 DEF RefundWork, RefundCommit, RefundDrop,
                        gatewayVars, webhookVars, refundVars, callVars
  <2>10. CASE UNCHANGED vars
    BY <2>10 DEF vars, gatewayVars, webhookVars, refundVars, callVars, txVars
  <2>11. QED
    BY <2>1, <2>2, <2>3, <2>4, <2>5, <2>6, <2>7, <2>8, <2>9, <2>10
       DEF Next, EventNext, RefundNext
<1>3. QED
    BY <1>1, <1>2, PTL DEF Spec

-----------------------------------------------------------------------------
(* Calls, events and their transactions.                                     *)

CallInv ==
    /\ \A e \in Events : view[e] # "none" => webhook[e] = "FOUND"
    /\ \A c \in Collectors \cup Splits : view[c] # "none" => call[c] = "CHECKED"
    /\ \A r \in Refunds : view[r] # "none" => refund[r] = "APPROVED"
    /\ \A e \in Events : webhook[e] # "NONE" => initiation[EventOrder[e]] = "SAVED"
    /\ \A g \in GatewayOrders : initiation[g] # "NEW" => online
    /\ \A c \in Collectors : call[c] # "NEW" => ~online

\* A transaction touches the view of no actor but its own.
LEMMA OtherViews ==
    ASSUME TypeOK, NEW a \in Actors, Recompute(a) \/ Commit(a) \/ Rollback(a)
    PROVE  /\ \A b \in Actors : b # a => view'[b] = view[b]
           /\ ~ Recompute(a) => view'[a] = "none"
BY DEF TypeOK, Recompute, Work, Commit, Rollback

\* Calls and events progress as their transactions do.
LEMMA CallInvariant == Spec => []CallInv
<1>1. Init => CallInv
    BY PaymentsAssumption DEF Init, CallInv, Actors
<1>2. TypeOK /\ CallInv /\ [Next]_vars => CallInv'
  <2> SUFFICES ASSUME TypeOK, CallInv, [Next]_vars
               PROVE  CallInv'
    OBVIOUS
  <2> USE PaymentsAssumption DEF TypeOK, CallInv
  <2>1. ASSUME NEW g \in GatewayOrders, GatewayNext(g)
        PROVE  CallInv'
    BY <2>1 DEF GatewayNext, Initiate, SaveOrder, webhookVars, refundVars, callVars, txVars
  <2>2. ASSUME NEW e \in Events, Deliver(e) \/ Redeliver(e) \/ Lookup(e)
        PROVE  CallInv'
    BY <2>2 DEF Deliver, Redeliver, Lookup, gatewayVars, refundVars, callVars, txVars
  <2>3. ASSUME NEW e \in Events, EventWork(e) \/ EventCommit(e) \/ EventDrop(e)
        PROVE  CallInv'
    <3>1. e \in Actors /\ e \notin Collectors \cup Splits \cup Refunds
      BY ActorsAssumption DEF Actors
    <3>2. (\A b \in Actors : b # e => view'[b] = view[b])
          /\ (~ Recompute(e) => view'[e] = "none")
      BY <2>3, <3>1, OtherViews DEF EventWork, EventCommit, EventDrop
    <3>3. EventCommit(e) => ~ Recompute(e)
      BY DEF EventCommit, Recompute, Work, Commit
    <3>4. EventDrop(e) => view'[e] = "none"
      BY <3>1 DEF EventDrop, Rollback
    <3>5. CASE EventWork(e)
      BY <3>1, <3>2, <3>3, <3>4, <3>5 DEF EventWork, Actors,
                 gatewayVars, webhookVars, refundVars, callVars
    <3>6. CASE EventCommit(e)
      BY <3>1, <3>2, <3>3, <3>4, <3>6 DEF EventCommit, Commit, Open, Actors,
                 gatewayVars, webhookVars, refundVars, callVars
    <3>7. CASE EventDrop(e)
      BY <3>1, <3>2, <3>3, <3>4, <3>7 DEF EventDrop, Actors,
                 gatewayVars, webhookVars, refundVars, callVars
    <3>8. QED
      BY <2>3, <3>5, <3>6, <3>7
  <2>4. ASSUME NEW c \in Collectors, CollectCheck(c)
        PROVE  CallInv'
    BY <2>4 DEF CollectCheck, gatewayVars, webhookVars, refundVars, txVars
  <2>5. ASSUME NEW p \in Splits, NEW q \in Amounts, SplitCheck(p, q)
        PROVE  CallInv'
    BY <2>5, ActorsAssumption DEF SplitCheck, gatewayVars, webhookVars, refundVars, txVars
  <2>6. ASSUME NEW c \in Collectors \cup Splits, CallNext(c)
        PROVE  CallInv'
    <3>1. c \in Actors /\ c \notin Events \cup Refunds
      BY ActorsAssumption DEF Actors
    <3>2. (\A b \in Actors : b # c => view'[b] = view[b])
          /\ (~ Recompute(c) => view'[c] = "none")
      BY <2>6, <3>1, OtherViews DEF CallNext, CallWork, CallCommit, CallDrop
    <3>3. CallCommit(c) => ~ Recompute(c)
      BY DEF CallCommit, Recompute, Work, Commit
    <3>4. CallDrop(c) => view'[c] = "none"
      BY <3>1 DEF CallDrop, Rollback
    <3>5. CASE CallWork(c)
      BY <3>1, <3>2, <3>3, <3>4, <3>5 DEF CallWork, Actors,
                 gatewayVars, webhookVars, refundVars, callVars
    <3>6. CASE CallCommit(c)
      BY <3>1, <3>2, <3>3, <3>4, <3>6 DEF CallCommit, Commit, Open, Actors,
                 gatewayVars, webhookVars, refundVars, callVars
    <3>7. CASE CallDrop(c)
      BY <3>1, <3>2, <3>3, <3>4, <3>7 DEF CallDrop, Actors,
                 gatewayVars, webhookVars, refundVars, callVars
    <3>8. QED
      BY <2>6, <3>5, <3>6, <3>7 DEF CallNext
  <2>7. ASSUME NEW r \in Refunds, NEW p \in Payments, NEW q \in Amounts,
               RequestRefund(r, p, q)
        PROVE  CallInv'
    BY <2>7 DEF RequestRefund, gatewayVars, webhookVars, callVars, txVars
  <2>8. ASSUME NEW r \in Refunds, RefundAccepted(r) \/ RefundRefused(r)
        PROVE  CallInv'
    BY <2>8 DEF RefundAccepted, RefundRefused, gatewayVars, webhookVars, callVars, txVars
  <2>9. ASSUME NEW r \in Refunds, RefundWork(r) \/ RefundCommit(r) \/ RefundDrop(r)
        PROVE  CallInv'
    <3>1. r \in Actors /\ r \notin Events \cup Collectors \cup Splits
      BY ActorsAssumption DEF Actors
    <3>2. (\A b \in Actors : b # r => view'[b] = view[b])
          /\ (~ Recompute(r) => view'[r] = "none")
      BY <2>9, <3>1, OtherViews DEF RefundWork, RefundCommit, RefundDrop
    <3>3. RefundCommit(r) => ~ Recompute(r)
      BY DEF RefundCommit, Recompute, Work, Commit
    <3>4. RefundDrop(r) => view'[r] = "none"
      BY <3>1 DEF RefundDrop, Rollback
    <3>5. QED
      BY <2>9, <3>1, <3>2, <3>3, <3>4
         DEF RefundWork, RefundCommit, RefundDrop, Actors,
             gatewayVars, webhookVars, refundVars, callVars
  <2>10. CASE UNCHANGED vars
    BY <2>10 DEF vars, gatewayVars, webhookVars, refundVars, callVars, txVars
  <2>11. QED
    BY <2>1, <2>2, <2>3, <2>4, <2>5, <2>6, <2>7, <2>8, <2>9, <2>10
       DEF Next, EventNext, RefundNext
<1>3. QED
    BY <1>1, <1>2, TypeCorrect, PTL DEF Spec

-----------------------------------------------------------------------------
(* What a payment's status has on record.                                    *)

\* Nothing is committed for a payment, a call or an event.
Quiet ==
    /\ pay' = pay
    /\ captures' = captures
    /\ \A e \in Events : webhook'[e] = "PROCESSED" <=> webhook[e] = "PROCESSED"
    /\ \A c \in Collectors \cup Splits :
          call'[c] = "COMMITTED" <=> call[c] = "COMMITTED"

\* Every step but the commit of an event or of a call is quiet.
LEMMA QuietSteps ==
    ASSUME TypeOK, [Next]_vars,
           \A e \in Events : ~ EventCommit(e),
           \A c \in Collectors \cup Splits : ~ CallCommit(c)
    PROVE  Quiet
<1> USE DEF TypeOK, Quiet
<1>1. ASSUME NEW g \in GatewayOrders, GatewayNext(g)
      PROVE  Quiet
  BY <1>1 DEF GatewayNext, Initiate, SaveOrder, webhookVars, callVars
<1>2. ASSUME NEW e \in Events, EventNext(e)
      PROVE  Quiet
  BY <1>2 DEF EventNext, Deliver, Redeliver, Lookup, EventWork, EventDrop, webhookVars, callVars
<1>3. ASSUME NEW c \in Collectors, CollectCheck(c)
      PROVE  Quiet
  BY <1>3 DEF CollectCheck, webhookVars
<1>4. ASSUME NEW p \in Splits, NEW q \in Amounts, SplitCheck(p, q)
      PROVE  Quiet
  BY <1>4 DEF SplitCheck, webhookVars
<1>5. ASSUME NEW c \in Collectors \cup Splits, CallNext(c)
      PROVE  Quiet
  BY <1>5 DEF CallNext, CallWork, CallDrop, webhookVars, callVars
<1>6. ASSUME NEW r \in Refunds, RefundNext(r)
      PROVE  Quiet
  BY <1>6 DEF RefundNext, RequestRefund, RefundAccepted, RefundRefused, RefundWork,
              RefundCommit, RefundDrop, webhookVars, callVars
<1>7. CASE UNCHANGED vars
  BY <1>7 DEF vars, webhookVars, callVars
<1>8. QED
  BY <1>1, <1>2, <1>3, <1>4, <1>5, <1>6, <1>7 DEF Next

\* What the commit of an event changes.
LEMMA EventCommits ==
    ASSUME TypeOK, CallInv, NEW e \in Events, EventCommit(e)
    PROVE  /\ webhook[e] = "FOUND"
           /\ webhook' = [webhook EXCEPT ![e] = "PROCESSED"]
           /\ pay' = [pay EXCEPT ![First] = IF e \in Captured THEN "PAID" ELSE "FAILED"]
           /\ call' = call
<1>1. e \notin Refunds \cup Splits
    BY ActorsAssumption
<1>2. QED
    BY <1>1 DEF EventCommit, Commit, Open, CallInv, PayAfter, Target, Outcome, callVars

\* What the commit of a collection or of a split changes.
LEMMA CallCommits ==
    ASSUME TypeOK, CallInv, NEW c \in Collectors \cup Splits, CallCommit(c)
    PROVE  /\ call[c] = "CHECKED"
           /\ call' = [call EXCEPT ![c] = "COMMITTED"]
           /\ pay' = [pay EXCEPT ![IF c \in Splits THEN c ELSE First] = "PAID"]
           /\ webhook' = webhook
           /\ captures' = captures
<1>1. c \notin Refunds \cup Events
    BY ActorsAssumption
<1>2. QED
    BY <1>1 DEF CallCommit, Commit, Open, CallInv, PayAfter, Target, Outcome, webhookVars

\* "A duplicate webhook cannot create a duplicate PaymentTransaction": for any
\* number of deliveries of any events.
THEOREM CapturesAreOnce == Spec => []CapturedOnce
<1>1. Init => CapturedOnce
    BY DEF Init, CapturedOnce
<1>2. TypeOK /\ CallInv /\ CapturedOnce /\ [Next]_vars => CapturedOnce'
  <2> SUFFICES ASSUME TypeOK, CallInv, CapturedOnce, [Next]_vars
               PROVE  CapturedOnce'
    OBVIOUS
  <2> USE DEF CapturedOnce
  <2>1. ASSUME NEW e \in Events, EventCommit(e)
        PROVE  CapturedOnce'
    <3>1. captures' = IF e \in Captured THEN [captures EXCEPT ![e] = @ + 1] ELSE captures
      BY <2>1 DEF EventCommit
    <3>2. QED
      BY <2>1, <3>1, EventCommits DEF TypeOK
  <2>2. ASSUME NEW c \in Collectors \cup Splits, CallCommit(c)
        PROVE  CapturedOnce'
    BY <2>2, CallCommits
  <2>3. CASE Quiet
    BY <2>3 DEF Quiet
  <2>4. QED
    BY <2>1, <2>2, <2>3, QuietSteps
<1>3. QED
    BY <1>1, <1>2, TypeCorrect, CallInvariant, PTL DEF Spec

\* A payment is PAID or FAILED for a reason on record, and a capture that no
\* failure came beside leaves it PAID.
THEOREM StatusesHaveCauses == Spec => []StatusHasCause
<1>1. Init => StatusHasCause
    BY PaymentsAssumption DEF Init, StatusHasCause, Collected, Payments
<1>2. TypeOK /\ CallInv /\ StatusHasCause /\ [Next]_vars => StatusHasCause'
  <2> SUFFICES ASSUME TypeOK, CallInv, StatusHasCause, [Next]_vars
               PROVE  StatusHasCause'
    OBVIOUS
  <2> DEFINE Processed == {e \in Events : webhook[e] = "PROCESSED"}
  <2>0. First \in Payments \ Splits /\ Splits \subseteq Payments
    BY PaymentsAssumption DEF Payments
  <2>1. ASSUME NEW e \in Events, EventCommit(e)
        PROVE  StatusHasCause'
    <3>1. Processed' = Processed \cup {e} /\ Collected' = Collected
      BY <2>1, EventCommits DEF TypeOK, Collected
    <3>2. pay'[First] = (IF e \in Captured THEN "PAID" ELSE "FAILED")
          /\ \A p \in Splits : pay'[p] = pay[p] /\ call'[p] = call[p]
      BY <2>0, <2>1, EventCommits DEF TypeOK
    <3>3. QED
      BY <3>1, <3>2 DEF StatusHasCause
  <2>2. ASSUME NEW c \in Collectors, CallCommit(c)
        PROVE  StatusHasCause'
    <3>1. Processed' = Processed /\ Collected' = Collected \cup {c}
      BY <2>2, CallCommits DEF TypeOK, Collected
    <3>2. pay'[First] = "PAID"
          /\ \A p \in Splits : pay'[p] = pay[p] /\ call'[p] = call[p]
      BY <2>0, <2>2, CallCommits, ActorsAssumption DEF TypeOK
    <3>3. QED
      BY <3>1, <3>2 DEF StatusHasCause
  <2>3. ASSUME NEW c \in Splits, CallCommit(c)
        PROVE  StatusHasCause'
    <3>1. Processed' = Processed /\ Collected' = Collected
      BY <2>3, CallCommits, ActorsAssumption DEF TypeOK, Collected
    <3>2. pay'[First] = pay[First]
          /\ \A p \in Splits : IF p = c THEN pay'[p] = "PAID" /\ call'[p] = "COMMITTED"
                                         ELSE pay'[p] = pay[p] /\ call'[p] = call[p]
      BY <2>0, <2>3, CallCommits DEF TypeOK
    <3>3. QED
      BY <3>1, <3>2 DEF StatusHasCause
  <2>4. CASE Quiet
    <3>1. Processed' = Processed /\ Collected' = Collected
      BY <2>4 DEF Quiet, Collected
    <3>2. QED
      BY <2>4, <3>1 DEF Quiet, StatusHasCause
  <2>5. QED
    BY <2>1, <2>2, <2>3, <2>4, QuietSteps
<1>3. QED
    BY <1>1, <1>2, TypeCorrect, CallInvariant, PTL DEF Spec

-----------------------------------------------------------------------------
(* Superseded gateway orders, and collections.                               *)

\* A gateway order an event was ignored for never becomes the payment's again.
THEOREM IgnoredStaySuperseded == Spec => []IgnoredAreSuperseded
<1>1. Init => IgnoredAreSuperseded
    BY DEF Init, IgnoredAreSuperseded
<1>2. TypeOK /\ CallInv /\ IgnoredAreSuperseded /\ [Next]_vars => IgnoredAreSuperseded'
  <2> SUFFICES ASSUME TypeOK, CallInv, IgnoredAreSuperseded, [Next]_vars
               PROVE  IgnoredAreSuperseded'
    OBVIOUS
  <2> USE DEF TypeOK, IgnoredAreSuperseded
  <2>1. ASSUME NEW g \in GatewayOrders, GatewayNext(g)
        PROVE  IgnoredAreSuperseded'
    BY <2>1 DEF GatewayNext, Initiate, SaveOrder, webhookVars, CallInv
  <2>2. ASSUME NEW e \in Events, EventNext(e)
        PROVE  IgnoredAreSuperseded'
    BY <2>2 DEF EventNext, Deliver, Redeliver, Lookup, EventWork, EventCommit, EventDrop,
                gatewayVars, webhookVars
  <2>3. ASSUME webhook' = webhook, providerOrder' = providerOrder
        PROVE  IgnoredAreSuperseded'
    BY <2>3
  <2>4. ASSUME NEW c \in Collectors, CollectCheck(c)
        PROVE  IgnoredAreSuperseded'
    BY <2>3, <2>4 DEF CollectCheck, gatewayVars, webhookVars
  <2>5. ASSUME NEW p \in Splits, NEW q \in Amounts, SplitCheck(p, q)
        PROVE  IgnoredAreSuperseded'
    BY <2>3, <2>5 DEF SplitCheck, gatewayVars, webhookVars
  <2>6. ASSUME NEW c \in Collectors \cup Splits, CallNext(c)
        PROVE  IgnoredAreSuperseded'
    BY <2>3, <2>6 DEF CallNext, CallWork, CallCommit, CallDrop, gatewayVars, webhookVars
  <2>7. ASSUME NEW r \in Refunds, RefundNext(r)
        PROVE  IgnoredAreSuperseded'
    BY <2>3, <2>7 DEF RefundNext, RequestRefund, RefundAccepted, RefundRefused, RefundWork,
                      RefundCommit, RefundDrop, gatewayVars, webhookVars
  <2>8. CASE UNCHANGED vars
    BY <2>3, <2>8 DEF vars, gatewayVars, webhookVars
  <2>9. QED
    BY <2>1, <2>2, <2>4, <2>5, <2>6, <2>7, <2>8 DEF Next
<1>3. QED
    BY <1>1, <1>2, TypeCorrect, CallInvariant, PTL DEF Spec

\* No collection ever passes its check once another has happened: an offline
\* payment that was collected stays PAID.
CollectInv == \A c \in Collectors : atCheck[c] = {}

LEMMA CollectInvariant == Spec => []CollectInv
<1>1. Init => CollectInv
    BY DEF Init, CollectInv
<1>2. TypeOK /\ CallInv /\ StatusHasCause /\ CollectInv /\ [Next]_vars => CollectInv'
  <2> SUFFICES ASSUME TypeOK, CallInv, StatusHasCause, CollectInv, [Next]_vars
               PROVE  CollectInv'
    OBVIOUS
  <2>1. ASSUME NEW c \in Collectors, CollectCheck(c)
        PROVE  CollectInv'
    <3>1. {e \in Events : webhook[e] = "PROCESSED"} = {}
      BY <2>1, PaymentsAssumption DEF CollectCheck, CallInv
    <3>2. Collected = {}
      BY <2>1, <3>1 DEF CollectCheck, StatusHasCause
    <3>3. QED
      BY <2>1, <3>2 DEF CollectCheck, CollectInv, TypeOK
  <2>2. ASSUME atCheck' = atCheck
        PROVE  CollectInv'
    BY <2>2 DEF CollectInv
  <2>3. ASSUME NEW g \in GatewayOrders, GatewayNext(g)
        PROVE  CollectInv'
    BY <2>2, <2>3 DEF GatewayNext, Initiate, SaveOrder, callVars
  <2>4. ASSUME NEW e \in Events, EventNext(e)
        PROVE  CollectInv'
    BY <2>2, <2>4 DEF EventNext, Deliver, Redeliver, Lookup, EventWork, EventCommit,
                      EventDrop, callVars
  <2>5. ASSUME NEW p \in Splits, NEW q \in Amounts, SplitCheck(p, q)
        PROVE  CollectInv'
    BY <2>2, <2>5 DEF SplitCheck
  <2>6. ASSUME NEW c \in Collectors \cup Splits, CallNext(c)
        PROVE  CollectInv'
    BY <2>2, <2>6 DEF CallNext, CallWork, CallCommit, CallDrop, callVars
  <2>7. ASSUME NEW r \in Refunds, RefundNext(r)
        PROVE  CollectInv'
    BY <2>2, <2>7 DEF RefundNext, RequestRefund, RefundAccepted, RefundRefused, RefundWork,
                      RefundCommit, RefundDrop, callVars
  <2>8. CASE UNCHANGED vars
    BY <2>2, <2>8 DEF vars, callVars
  <2>9. QED
    BY <2>1, <2>3, <2>4, <2>5, <2>6, <2>7, <2>8 DEF Next
<1>3. QED
    BY <1>1, <1>2, TypeCorrect, CallInvariant, StatusesHaveCauses, PTL DEF Spec

\* Cash is collected twice only by calls that both checked before either
\* had committed.
THEOREM CollectionsDoNotRepeat == Spec => []CollectedOnce
<1>1. CollectInv => CollectedOnce
    BY DEF CollectInv, CollectedOnce, Collected
<1>2. QED
    BY <1>1, CollectInvariant, PTL

-----------------------------------------------------------------------------
(* Refunds.                                                                  *)

RefundInv ==
    /\ \A r \in moved : refund[r] \in {"APPROVED", "STUCK", "SUCCESS"}
    /\ \A r \in Refunds : \A s \in atRequest[r] :
          refund[s] = "SUCCESS" /\ refundOf[s] = refundOf[r]
    /\ \A r \in Refunds : refund[r] # "NONE" =>
          /\ refundOf[r] \in Splits => call[refundOf[r]] = "COMMITTED"
          /\ r \notin atRequest[r]
          /\ Sum(atRequest[r] \cup {r}, refundAmount) <= amount[refundOf[r]]

\* Requests keep RefundInv: the check compares with the refunds it counts.
LEMMA RequestKeepsRefundInv ==
    ASSUME TypeOK, StatusHasCause, RefundInv,
           NEW r \in Refunds, NEW p \in Payments, NEW q \in Amounts, RequestRefund(r, p, q)
    PROVE  RefundInv'
<1> DEFINE A == RefundsOf(p, Successful)
<1> USE PaymentsAssumption
<1>1. /\ r \notin A /\ A \in SUBSET Refunds
      /\ \A s \in Refunds : r \notin atRequest[s]
      /\ r \notin moved
    BY DEF RequestRefund, RefundInv, RefundsOf, Successful
<1>2. /\ refund' = [refund EXCEPT ![r] = "PENDING"]
      /\ refundOf' = [refundOf EXCEPT ![r] = p]
      /\ refundAmount' = [refundAmount EXCEPT ![r] = q]
      /\ atRequest' = [atRequest EXCEPT ![r] = A]
      /\ moved' = moved /\ amount' = amount /\ call' = call
    BY DEF RequestRefund, callVars
<1>3. \A x \in moved' : refund'[x] \in {"APPROVED", "STUCK", "SUCCESS"}
    BY <1>1, <1>2 DEF RefundInv, TypeOK
<1>4. ASSUME NEW x \in Refunds, NEW s \in atRequest'[x]
      PROVE  refund'[s] = "SUCCESS" /\ refundOf'[s] = refundOf'[x]
    BY <1>1, <1>2, <1>4 DEF RefundInv, TypeOK, RefundsOf, Successful
<1>5. Sum(A \cup {r}, refundAmount') <= amount[p]
  <2>1. IsFiniteSet(A)
    BY <1>1, RowsFinite
  <2>2. refundAmount'[r] = q /\ q \in 1..Total
    BY <1>2 DEF TypeOK
  <2>3. Sum(A, refundAmount') = Sum(A, refundAmount)
    BY <1>1, <1>2, SumSame DEF TypeOK
  <2>4. Sum(A \cup {r}, refundAmount') = Sum(A, refundAmount') + q
    BY <1>1, <2>1, <2>2, SumAdd
  <2>5. q <= amount[p] - Sum(A, refundAmount)
    BY DEF RequestRefund, Refundable
  <2>6. Sum(A, refundAmount) \in Nat /\ amount[p] \in Nat /\ q \in Nat
    BY <2>1, <2>2, SumNat DEF TypeOK
  <2>7. QED
    BY <2>3, <2>4, <2>5, <2>6
<1>6. ASSUME NEW x \in Refunds \ {r}, refund'[x] # "NONE"
      PROVE  Sum(atRequest'[x] \cup {x}, refundAmount') <= amount'[refundOf'[x]]
  <2>1. refund[x] # "NONE" /\ atRequest'[x] = atRequest[x] /\ refundOf'[x] = refundOf[x]
    BY <1>2, <1>6 DEF TypeOK
  <2>2. \A s \in atRequest[x] \cup {x} : refundAmount'[s] = refundAmount[s]
    BY <1>1, <1>2 DEF TypeOK
  <2>3. Sum(atRequest[x] \cup {x}, refundAmount') = Sum(atRequest[x] \cup {x}, refundAmount)
    BY <2>2, SumSame
  <2>4. QED
    BY <1>2, <2>1, <2>3 DEF RefundInv
<1>7. p \in Splits => call[p] = "COMMITTED"
    BY DEF RequestRefund, StatusHasCause
<1>8. ASSUME NEW x \in Refunds, refund'[x] # "NONE"
      PROVE  /\ refundOf'[x] \in Splits => call'[refundOf'[x]] = "COMMITTED"
             /\ x \notin atRequest'[x]
             /\ Sum(atRequest'[x] \cup {x}, refundAmount') <= amount'[refundOf'[x]]
  <2>1. CASE x = r
    <3>1. refundOf'[r] = p /\ atRequest'[r] = A
      BY <1>2 DEF TypeOK
    <3>2. QED
      BY <1>1, <1>2, <1>5, <1>7, <2>1, <3>1
  <2>2. CASE x # r
    <3>1. refund[x] # "NONE" /\ atRequest'[x] = atRequest[x] /\ refundOf'[x] = refundOf[x]
      BY <1>2, <1>8, <2>2 DEF TypeOK
    <3>2. /\ refundOf[x] \in Splits => call[refundOf[x]] = "COMMITTED"
          /\ x \notin atRequest[x]
      BY <3>1 DEF RefundInv
    <3>3. QED
      BY <1>2, <1>6, <1>8, <2>2, <3>1, <3>2
  <2>3. QED
    BY <2>1, <2>2
<1>9. QED
    BY <1>3, <1>4, <1>8 DEF RefundInv

\* Steps that leave the refunds and their amounts alone keep RefundInv.
LEMMA FrameKeepsRefundInv ==
    ASSUME TypeOK, RefundInv, UNCHANGED refundVars,
           \A p \in Splits : call[p] = "COMMITTED" => call'[p] = "COMMITTED",
           \A p \in Payments : (p \in Splits /\ call[p] # "COMMITTED") \/ amount'[p] = amount[p]
    PROVE  RefundInv'
<1>1. refund' = refund /\ refundOf' = refundOf /\ refundAmount' = refundAmount
      /\ moved' = moved /\ atRequest' = atRequest
    BY DEF refundVars
<1>2. ASSUME NEW r \in Refunds, refund[r] # "NONE"
      PROVE  /\ refundOf[r] \in Splits => call'[refundOf[r]] = "COMMITTED"
             /\ amount'[refundOf[r]] = amount[refundOf[r]]
    BY <1>2 DEF RefundInv, TypeOK
<1>3. QED
    BY <1>1, <1>2 DEF RefundInv

\* RefundInv holds in every reachable state.
LEMMA RefundInvariant == Spec => []RefundInv
<1>1. Init => RefundInv
    BY DEF Init, RefundInv
<1>2. TypeOK /\ CallInv /\ StatusHasCause /\ RefundInv /\ [Next]_vars => RefundInv'
  <2> SUFFICES ASSUME TypeOK, CallInv, StatusHasCause, RefundInv, [Next]_vars
               PROVE  RefundInv'
    OBVIOUS
  <2>1. ASSUME NEW g \in GatewayOrders, GatewayNext(g)
        PROVE  RefundInv'
    BY <2>1, FrameKeepsRefundInv DEF GatewayNext, Initiate, SaveOrder, callVars
  <2>2. ASSUME NEW e \in Events, EventNext(e)
        PROVE  RefundInv'
    BY <2>2, FrameKeepsRefundInv DEF EventNext, Deliver, Redeliver, Lookup, EventWork,
                                     EventCommit, EventDrop, callVars
  <2>3. ASSUME NEW c \in Collectors, CollectCheck(c)
        PROVE  RefundInv'
    <3>1. c \notin Splits
      BY ActorsAssumption
    <3>2. QED
      BY <2>3, <3>1, FrameKeepsRefundInv DEF CollectCheck, TypeOK
  <2>4. ASSUME NEW p \in Splits, NEW q \in Amounts, SplitCheck(p, q)
        PROVE  RefundInv'
    BY <2>4, FrameKeepsRefundInv DEF SplitCheck, TypeOK
  <2>5. ASSUME NEW c \in Collectors \cup Splits, CallNext(c)
        PROVE  RefundInv'
    BY <2>5, FrameKeepsRefundInv DEF CallNext, CallWork, CallCommit, CallDrop, callVars, TypeOK
  <2>6. ASSUME NEW r \in Refunds, NEW p \in Payments, NEW q \in Amounts,
               RequestRefund(r, p, q)
        PROVE  RefundInv'
    BY <2>6, RequestKeepsRefundInv
  <2>7. ASSUME NEW r \in Refunds, RefundWork(r)
        PROVE  RefundInv'
    BY <2>7, FrameKeepsRefundInv DEF RefundWork, callVars
  <2>8. ASSUME NEW r \in Refunds,
               RefundAccepted(r) \/ RefundRefused(r) \/ RefundCommit(r) \/ RefundDrop(r)
        PROVE  RefundInv'
    <3>1. /\ refundOf' = refundOf /\ refundAmount' = refundAmount
          /\ atRequest' = atRequest /\ amount' = amount /\ call' = call
      BY <2>8 DEF RefundAccepted, RefundRefused, RefundCommit, RefundDrop, callVars
    <3>2. refund[r] \in {"PENDING", "APPROVED"}
      BY <2>8 DEF RefundAccepted, RefundRefused, RefundCommit, RefundDrop, Commit, Open, CallInv
    <3>3. /\ \A s \in Refunds \ {r} : refund'[s] = refund[s]
          /\ refund'[r] \in {"APPROVED", "STUCK", "SUCCESS"}
          /\ moved' \subseteq moved \cup {r}
      BY <2>8 DEF RefundAccepted, RefundRefused, RefundCommit, RefundDrop, TypeOK
    <3>4. \A s \in moved' : refund'[s] \in {"APPROVED", "STUCK", "SUCCESS"}
      <4>1. \A s \in moved \ {r} : refund'[s] \in {"APPROVED", "STUCK", "SUCCESS"}
        BY <3>3 DEF RefundInv, TypeOK
      <4>2. QED
        BY <4>1, <3>3
    <3>5. ASSUME NEW s \in Refunds, NEW t \in atRequest[s]
          PROVE  refund'[t] = "SUCCESS" /\ refundOf[t] = refundOf[s]
      <4>1. t \in Refunds /\ refund[t] = "SUCCESS" /\ refundOf[t] = refundOf[s]
        BY DEF RefundInv, TypeOK
      <4>2. t # r
        BY <4>1, <3>2
      <4>3. QED
        BY <4>1, <4>2, <3>3
    <3>6. ASSUME NEW s \in Refunds, refund'[s] # "NONE"
          PROVE  refund[s] # "NONE"
      BY <3>2, <3>3, <3>6
    <3>7. ASSUME NEW s \in Refunds, refund'[s] # "NONE"
          PROVE  /\ refundOf[s] \in Splits => call[refundOf[s]] = "COMMITTED"
                 /\ s \notin atRequest[s]
                 /\ Sum(atRequest[s] \cup {s}, refundAmount) <= amount[refundOf[s]]
      BY <3>6, <3>7 DEF RefundInv
    <3>8. QED
      BY <3>1, <3>4, <3>5, <3>7 DEF RefundInv
  <2>9. CASE UNCHANGED vars
    BY <2>9, FrameKeepsRefundInv DEF vars, callVars
  <2>10. QED
    BY <2>1, <2>2, <2>3, <2>4, <2>5, <2>6, <2>7, <2>8, <2>9 DEF Next, RefundNext
<1>3. QED
    BY <1>1, <1>2, TypeCorrect, CallInvariant, StatusesHaveCauses, PTL DEF Spec

\* A refund whose money moves was checked with all that moved before it, or
\* does not count with one of them.
LEMMA MoveKeepsCounted ==
    ASSUME TypeOK, RefundInv, RefundsCounted, NEW r \in Refunds, refund[r] = "PENDING",
           moved' = moved \cup {r}, refundOf' = refundOf, refundAmount' = refundAmount,
           atRequest' = atRequest, amount' = amount
    PROVE  RefundsCounted'
<1> SUFFICES ASSUME NEW p \in Payments,
                    Sum(RefundsOf(p, moved)', refundAmount) > amount[p]
             PROVE  \E x, s \in RefundsOf(p, moved)' : Uncounted(x, s)'
    BY DEF RefundsCounted
<1> DEFINE M == RefundsOf(p, moved)
<1>1. \A x, s : Uncounted(x, s)' <=> Uncounted(x, s)
    BY DEF Uncounted
<1>2. CASE refundOf[r] # p
  <2>1. RefundsOf(p, moved)' = M
    BY <1>2 DEF RefundsOf
  <2>2. QED
    BY <1>1, <2>1 DEF RefundsCounted
<1>3. CASE refundOf[r] = p /\ M \subseteq atRequest[r]
  <2>1. RefundsOf(p, moved)' \in SUBSET (atRequest[r] \cup {r})
    BY <1>3 DEF RefundsOf
  <2>2. IsFiniteSet(atRequest[r] \cup {r})
    BY RowsFinite DEF TypeOK
  <2>3. Sum(RefundsOf(p, moved)', refundAmount) <= Sum(atRequest[r] \cup {r}, refundAmount)
    BY <2>1, <2>2, SumMonotone
  <2>4. Sum(atRequest[r] \cup {r}, refundAmount) <= amount[p]
    BY <1>3 DEF RefundInv
  <2>5. /\ Sum(RefundsOf(p, moved)', refundAmount) \in Nat
        /\ Sum(atRequest[r] \cup {r}, refundAmount) \in Nat
        /\ amount[p] \in Nat
    <3>1. IsFiniteSet(RefundsOf(p, moved)')
      BY <2>1, <2>2, FS_Subset
    <3>2. amount[p] \in Nat
      BY PaymentsAssumption DEF TypeOK
    <3>3. QED
      BY <2>2, <3>1, <3>2, SumNat
  <2>6. QED
    BY <2>3, <2>4, <2>5
<1>4. ASSUME refundOf[r] = p, NEW s \in M, s \notin atRequest[r]
      PROVE  Uncounted(r, s) /\ r \in RefundsOf(p, moved)' /\ s \in RefundsOf(p, moved)'
  <2>1. refund[s] # "PENDING" /\ s \in Refunds /\ refundOf[s] = p
    BY <1>4 DEF RefundInv, RefundsOf, TypeOK
  <2>2. r \notin atRequest[s]
    BY <2>1 DEF RefundInv
  <2>3. QED
    BY <1>4, <2>1, <2>2 DEF Uncounted, RefundsOf
<1>5. QED
    BY <1>1, <1>2, <1>3, <1>4

\* Steps that move no money keep RefundsCounted.
LEMMA FrameKeepsCounted ==
    ASSUME TypeOK', RefundsCounted, moved' = moved,
           \A r \in moved : refundOf'[r] = refundOf[r] /\ refundAmount'[r] = refundAmount[r]
                              /\ atRequest'[r] = atRequest[r],
           \A p \in Payments : RefundsOf(p, moved) = {} \/ amount'[p] = amount[p]
    PROVE  RefundsCounted'
<1> SUFFICES ASSUME NEW p \in Payments,
                    Sum(RefundsOf(p, moved)', refundAmount') > amount'[p]
             PROVE  \E x, s \in RefundsOf(p, moved)' : Uncounted(x, s)'
    BY DEF RefundsCounted
<1>1. RefundsOf(p, moved)' = RefundsOf(p, moved)
    BY DEF RefundsOf
<1>2. Sum(RefundsOf(p, moved), refundAmount') = Sum(RefundsOf(p, moved), refundAmount)
    BY SumSame DEF RefundsOf
<1>3. \A x, s \in RefundsOf(p, moved) : Uncounted(x, s) => Uncounted(x, s)'
    BY DEF Uncounted, RefundsOf
<1>4. CASE amount'[p] = amount[p]
    BY <1>1, <1>2, <1>3, <1>4 DEF RefundsCounted
<1>5. CASE RefundsOf(p, moved) = {} /\ amount'[p] # amount[p]
  <2>1. Sum(RefundsOf(p, moved)', refundAmount') = 0
    BY <1>1, <1>5, SumEmpty
  <2>2. amount'[p] \in 1..Total
    BY DEF TypeOK
  <2>3. QED
    BY <2>1, <2>2, PaymentsAssumption
<1>6. QED
    BY <1>4, <1>5

\* For any number of refunds and any amounts: more goes back than a payment
\* brought only through two refunds that did not count each other.
THEOREM ExcessNeedsOverlap == Spec => []RefundsCounted
<1>1. Init => RefundsCounted
  <2> SUFFICES ASSUME Init, NEW p \in Payments
               PROVE  ~ (Sum(RefundsOf(p, moved), refundAmount) > amount[p])
    BY DEF RefundsCounted
  <2>1. RefundsOf(p, moved) = {} /\ amount[p] = Total
    BY DEF Init, RefundsOf
  <2>2. QED
    BY <2>1, SumEmpty, PaymentsAssumption
<1>2. TypeOK /\ TypeOK' /\ CallInv /\ RefundInv /\ RefundsCounted /\ [Next]_vars
        => RefundsCounted'
  <2> SUFFICES ASSUME TypeOK, TypeOK', CallInv, RefundInv, RefundsCounted, [Next]_vars
               PROVE  RefundsCounted'
    OBVIOUS
  <2>1. ASSUME UNCHANGED <<moved, refundOf, refundAmount, atRequest, amount>>
        PROVE  RefundsCounted'
    BY <2>1, FrameKeepsCounted
  <2>2. ASSUME NEW g \in GatewayOrders, GatewayNext(g)
        PROVE  RefundsCounted'
    BY <2>1, <2>2 DEF GatewayNext, Initiate, SaveOrder, refundVars, callVars
  <2>3. ASSUME NEW e \in Events, EventNext(e)
        PROVE  RefundsCounted'
    BY <2>1, <2>3 DEF EventNext, Deliver, Redeliver, Lookup, EventWork, EventCommit,
                      EventDrop, refundVars, callVars
  <2>4. ASSUME NEW c \in Collectors, CollectCheck(c)
        PROVE  RefundsCounted'
    BY <2>1, <2>4 DEF CollectCheck, refundVars
  <2>5. ASSUME NEW p \in Splits, NEW q \in Amounts, SplitCheck(p, q)
        PROVE  RefundsCounted'
    <3>1. ASSUME NEW r \in RefundsOf(p, moved)
          PROVE  FALSE
      <4>1. r \in Refunds /\ r \in moved /\ refundOf[r] = p
        BY DEF RefundsOf, TypeOK
      <4>2. refund[r] # "NONE"
        BY <4>1 DEF RefundInv
      <4>3. call[p] = "COMMITTED"
        BY <4>1, <4>2 DEF RefundInv
      <4>4. QED
        BY <2>5, <4>3 DEF SplitCheck
    <3>2. \A x \in Payments \ {p} : amount'[x] = amount[x]
      BY <2>5 DEF SplitCheck, TypeOK
    <3>3. UNCHANGED <<moved, refundOf, refundAmount, atRequest>>
      BY <2>5 DEF SplitCheck, refundVars
    <3>4. QED
      BY <3>1, <3>2, <3>3, FrameKeepsCounted
  <2>6. ASSUME NEW c \in Collectors \cup Splits, CallNext(c)
        PROVE  RefundsCounted'
    BY <2>1, <2>6 DEF CallNext, CallWork, CallCommit, CallDrop, refundVars, callVars
  <2>7. ASSUME NEW r \in Refunds, NEW p \in Payments, NEW q \in Amounts,
               RequestRefund(r, p, q)
        PROVE  RefundsCounted'
    <3>1. r \notin moved
      BY <2>7 DEF RequestRefund, RefundInv
    <3>2. /\ moved' = moved /\ amount' = amount
          /\ \A s \in Refunds \ {r} : refundOf'[s] = refundOf[s]
                /\ refundAmount'[s] = refundAmount[s] /\ atRequest'[s] = atRequest[s]
      BY <2>7 DEF RequestRefund, callVars, TypeOK
    <3>3. QED
      BY <3>1, <3>2, FrameKeepsCounted DEF TypeOK
  <2>8. ASSUME NEW r \in Refunds, RefundAccepted(r) \/ RefundRefused(r)
        PROVE  RefundsCounted'
    <3>1. refund[r] = "PENDING" /\ (moved' = moved \/ moved' = moved \cup {r})
      BY <2>8 DEF RefundAccepted, RefundRefused
    <3>2. UNCHANGED <<refundOf, refundAmount, atRequest, amount>>
      BY <2>8 DEF RefundAccepted, RefundRefused, callVars
    <3>3. QED
      BY <2>1, <3>1, <3>2, MoveKeepsCounted
  <2>9. ASSUME NEW r \in Refunds, RefundWork(r) \/ RefundCommit(r) \/ RefundDrop(r)
        PROVE  RefundsCounted'
    BY <2>1, <2>9 DEF RefundWork, RefundCommit, RefundDrop, refundVars, callVars
  <2>10. CASE UNCHANGED vars
    BY <2>1, <2>10 DEF vars, refundVars, callVars
  <2>11. QED
    BY <2>2, <2>3, <2>4, <2>5, <2>6, <2>7, <2>8, <2>9, <2>10 DEF Next, RefundNext
<1>3. QED
    BY <1>1, <1>2, TypeCorrect, CallInvariant, RefundInvariant, PTL DEF Spec

-----------------------------------------------------------------------------
(* The summary of an order.                                                  *)

\* The summary actor a would leave behind, and the one there should be.
After(a) == Summarise(PayAfter(a), RefundsAfter(a), amount, refundAmount)
Current == Summarise(pay, Successful, amount, refundAmount)

ViewInv ==
    /\ \A a \in Open \ overlapped : Open = {a} /\ view[a] = After(a)
    /\ SummaryAgrees

\* A transaction that begins alone has computed its summary; two that are
\* open together are both recorded as overlapping.
LEMMA RecomputeKeepsView ==
    ASSUME TypeOK, ViewInv, NEW a \in Actors, Recompute(a),
           UNCHANGED <<pay, refund, amount, refundAmount>>
    PROVE  ViewInv'
<1>1. Successful' = Successful
    BY DEF Successful
<1>2. \A b : After(b)' = After(b)
    BY <1>1 DEF After, PayAfter, RefundsAfter, Target, Outcome
<1>3. Current' = Current
    BY <1>1 DEF Current
<1>4. summary' = summary /\ raced' = raced
    BY DEF Recompute, Work
<1>5. view' = [view EXCEPT ![a] = After(a)] /\ After(a) # "none" /\ a \notin Open
  <2>1. RefundsAfter(a) \in SUBSET Refunds
    BY DEF RefundsAfter, Successful
  <2>2. After(a) \in Summaries
    BY <2>1, SummariseType DEF After
  <2>3. QED
    BY <2>2 DEF Recompute, Work, After, Summaries
<1>6. Open' = Open \cup {a}
    BY <1>5 DEF Open, TypeOK
<1>7. CASE Open = {}
  <2>1. Open' = {a} /\ view'[a] = After(a)
    BY <1>5, <1>6, <1>7 DEF TypeOK
  <2>2. QED
    BY <1>2, <1>3, <1>4, <2>1 DEF ViewInv, SummaryAgrees, Current
<1>8. CASE Open # {}
  <2>1. Open' \ overlapped' = {}
    BY <1>6, <1>8 DEF Recompute, Work
  <2>2. QED
    BY <1>3, <1>4, <2>1 DEF ViewInv, SummaryAgrees, Current
<1>9. QED
    BY <1>7, <1>8

\* A transaction that overlapped none commits the summary of the rows it leaves.
LEMMA CommitKeepsView ==
    ASSUME TypeOK, ViewInv, NEW a \in Actors, Commit(a), amount' = amount,
           refundAmount' = refundAmount, pay' = PayAfter(a), Successful' = RefundsAfter(a)
    PROVE  ViewInv'
<1>1. Open' = Open \ {a} /\ overlapped' = overlapped \ {a} /\ a \in Open
    BY DEF Commit, Open, TypeOK
<1>2. Open' \ overlapped' = {}
    BY <1>1 DEF ViewInv
<1>3. CASE a \in overlapped
    BY <1>2, <1>3 DEF Commit, ViewInv, SummaryAgrees
<1>4. CASE a \notin overlapped
  <2>1. summary' = After(a)
    BY <1>1, <1>4 DEF Commit, ViewInv
  <2>2. After(a) = Current'
    BY DEF After, Current
  <2>3. QED
    BY <1>2, <2>1, <2>2 DEF ViewInv, SummaryAgrees, Current
<1>5. QED
    BY <1>3, <1>4

\* Steps that change only what no summary counts keep ViewInv, a rollback
\* among them.
LEMMA FrameKeepsView ==
    ASSUME TypeOK, ViewInv, pay' = pay, Successful' = Successful,
           summary' = summary, raced' = raced,
           \/ UNCHANGED <<view, overlapped>>
           \/ \E a \in Actors : Rollback(a),
           \A p \in Payments : pay[p] = "PAID" => amount'[p] = amount[p],
           \A r \in Successful : refundAmount'[r] = refundAmount[r],
           \A a \in Open : /\ \A p \in Payments :
                                 PayAfter(a)[p] = "PAID" => amount'[p] = amount[p]
                           /\ \A r \in RefundsAfter(a) : refundAmount'[r] = refundAmount[r]
    PROVE  ViewInv'
<1>1. Current' = Current
  <2>1. Summarise(pay, Successful, amount, refundAmount)
          = Summarise(pay, Successful, amount', refundAmount')
    BY SummariseSame
  <2>2. QED
    BY <2>1 DEF Current
<1>2. \A a : PayAfter(a)' = PayAfter(a) /\ RefundsAfter(a)' = RefundsAfter(a)
    BY DEF PayAfter, RefundsAfter, Target, Outcome
<1>3. ASSUME NEW a \in Open
      PROVE  After(a)' = After(a)
  <2>1. Summarise(PayAfter(a), RefundsAfter(a), amount, refundAmount)
          = Summarise(PayAfter(a), RefundsAfter(a), amount', refundAmount')
    BY SummariseSame
  <2>2. QED
    BY <1>2, <2>1 DEF After
<1>4. ASSUME NEW a \in Open' \ overlapped'
      PROVE  Open' = {a} /\ view'[a] = After(a)
  <2>1. CASE UNCHANGED <<view, overlapped>>
    BY <1>4, <2>1 DEF ViewInv, Open
  <2>2. ASSUME NEW b \in Actors, Rollback(b)
        PROVE  Open' = {a} /\ view'[a] = After(a)
    <3>1. Open' = Open \ {b} /\ overlapped' = overlapped \ {b}
      BY <2>2 DEF Rollback, Open, TypeOK
    <3>2. a \in Open \ overlapped /\ a # b
      BY <1>4, <3>1
    <3>3. Open = {a} /\ view[a] = After(a)
      BY <3>2 DEF ViewInv
    <3>4. view'[a] = view[a]
      BY <2>2, <3>2 DEF Rollback, TypeOK, Open
    <3>5. QED
      BY <3>1, <3>2, <3>3, <3>4
  <2>3. QED
    BY <2>1, <2>2
<1>5. Open' \subseteq Open
    BY DEF Open, Rollback, TypeOK
<1>6. QED
    BY <1>1, <1>3, <1>4, <1>5 DEF ViewInv, SummaryAgrees, Current

\* orders.paymentStatus is what the rows say, for any number of payments and
\* refunds, unless the last transaction to write it overlapped another.
THEOREM SummaryFollowsRows == Spec => []SummaryAgrees
<1>1. Init => ViewInv
  <2> SUFFICES ASSUME Init
               PROVE  ViewInv
    OBVIOUS
  <2>1. Open = {} /\ Successful = {}
    BY DEF Init, Open, Successful
  <2>2. {p \in Payments : pay[p] = "PAID"} = {}
    BY DEF Init
  <2>3. First \in Payments /\ pay[First] = "PENDING"
    BY PaymentsAssumption DEF Init, Payments
  <2>4. Current = "PENDING"
    BY <2>1, <2>2, <2>3, SumEmpty, PaymentsAssumption DEF Current, Summarise
  <2>5. QED
    BY <2>1, <2>4 DEF Init, ViewInv, SummaryAgrees, Current
<1>2. TypeOK /\ CallInv /\ StatusHasCause /\ ViewInv /\ [Next]_vars => ViewInv'
  <2> SUFFICES ASSUME TypeOK, CallInv, StatusHasCause, ViewInv, [Next]_vars
               PROVE  ViewInv'
    OBVIOUS
  <2>0. ASSUME amount' = amount, refundAmount' = refundAmount, pay' = pay,
               Successful' = Successful, summary' = summary, raced' = raced,
               UNCHANGED <<view, overlapped>> \/ \E a \in Actors : Rollback(a)
        PROVE  ViewInv'
    BY <2>0, FrameKeepsView
  <2>1. ASSUME NEW g \in GatewayOrders, GatewayNext(g)
        PROVE  ViewInv'
    BY <2>0, <2>1 DEF GatewayNext, Initiate, SaveOrder, refundVars, callVars, txVars, Successful
  <2>2. ASSUME NEW e \in Events, Deliver(e) \/ Redeliver(e) \/ Lookup(e) \/ EventDrop(e)
        PROVE  ViewInv'
    <3>1. e \in Actors
      BY DEF Actors
    <3>2. QED
      BY <2>0, <2>2, <3>1 DEF Deliver, Redeliver, Lookup, EventDrop, Rollback,
                              refundVars, callVars, txVars, Successful
  <2>3. ASSUME NEW a \in Actors, Recompute(a), UNCHANGED <<pay, refundVars, callVars>>
        PROVE  ViewInv'
    BY <2>3, RecomputeKeepsView DEF refundVars, callVars
  <2>4. ASSUME NEW e \in Events, EventWork(e)
        PROVE  ViewInv'
    BY <2>3, <2>4 DEF EventWork, Actors
  <2>5. ASSUME NEW e \in Events, EventCommit(e)
        PROVE  ViewInv'
    <3>1. RefundsAfter(e) = Successful /\ e \in Actors
      BY ActorsAssumption DEF RefundsAfter, Actors
    <3>2. QED
      BY <2>5, <3>1, CommitKeepsView DEF EventCommit, refundVars, callVars, Successful
  <2>6. ASSUME NEW c \in Collectors, CollectCheck(c)
        PROVE  ViewInv'
    BY <2>0, <2>6 DEF CollectCheck, refundVars, txVars, Successful
  <2>7. ASSUME NEW p \in Splits, NEW q \in Amounts, SplitCheck(p, q)
        PROVE  ViewInv'
    <3>1. /\ UNCHANGED <<pay, summary, raced, view, overlapped, refundAmount>>
          /\ Successful' = Successful
      BY <2>7 DEF SplitCheck, refundVars, txVars, Successful
    <3>2. pay[p] = "NONE" /\ p \notin Open /\ \A x \in Payments \ {p} : amount'[x] = amount[x]
      BY <2>7 DEF SplitCheck, StatusHasCause, CallInv, Open, TypeOK
    <3>3. First # p /\ First \in Payments /\ Splits \subseteq Payments
      BY PaymentsAssumption DEF Payments
    <3>4. \A a \in Open : PayAfter(a)[p] = "NONE"
      BY <3>2, <3>3 DEF PayAfter, Target, TypeOK
    <3>5. QED
      BY <3>1, <3>2, <3>4, FrameKeepsView
  <2>8. ASSUME NEW c \in Collectors \cup Splits, CallNext(c)
        PROVE  ViewInv'
    <3>1. RefundsAfter(c) = Successful /\ c \in Actors
      BY ActorsAssumption DEF RefundsAfter, Actors
    <3>2. CASE CallWork(c)
      BY <2>3, <3>1, <3>2 DEF CallWork
    <3>3. CASE CallCommit(c)
      BY <3>1, <3>3, CommitKeepsView DEF CallCommit, refundVars, Successful
    <3>4. CASE CallDrop(c)
      BY <2>0, <3>1, <3>4 DEF CallDrop, Rollback, refundVars, Successful
    <3>5. QED
      BY <2>8, <3>2, <3>3, <3>4 DEF CallNext
  <2>9. ASSUME NEW r \in Refunds, NEW p \in Payments, NEW q \in Amounts,
               RequestRefund(r, p, q)
        PROVE  ViewInv'
    <3>1. /\ UNCHANGED <<pay, summary, raced, view, overlapped, amount>>
          /\ Successful' = Successful
      BY <2>9 DEF RequestRefund, callVars, txVars, Successful, TypeOK
    <3>2. /\ r \notin Successful /\ r \notin Open
          /\ \A s \in Refunds \ {r} : refundAmount'[s] = refundAmount[s]
      BY <2>9 DEF RequestRefund, Successful, CallInv, Open, TypeOK
    <3>3. \A a \in Open : RefundsAfter(a) \subseteq Refunds \ {r}
      BY <3>2 DEF RefundsAfter, Successful
    <3>4. QED
      BY <3>1, <3>2, <3>3, FrameKeepsView DEF Successful
  <2>10. ASSUME NEW r \in Refunds, RefundAccepted(r) \/ RefundRefused(r)
         PROVE  ViewInv'
    <3>1. Successful' = Successful
      BY <2>10 DEF RefundAccepted, RefundRefused, Successful, TypeOK
    <3>2. QED
      BY <2>0, <2>10, <3>1 DEF RefundAccepted, RefundRefused, callVars, txVars
  <2>11. ASSUME NEW r \in Refunds, RefundWork(r)
         PROVE  ViewInv'
    BY <2>3, <2>11 DEF RefundWork, Actors
  <2>12. ASSUME NEW r \in Refunds, RefundCommit(r)
         PROVE  ViewInv'
    <3>1. Successful' = RefundsAfter(r) /\ pay' = PayAfter(r) /\ r \in Actors
      BY <2>12 DEF RefundCommit, RefundsAfter, PayAfter, Successful, Actors, TypeOK
    <3>2. QED
      BY <2>12, <3>1, CommitKeepsView DEF RefundCommit, callVars
  <2>13. ASSUME NEW r \in Refunds, RefundDrop(r)
         PROVE  ViewInv'
    <3>1. Successful' = Successful /\ r \in Actors
      BY <2>13 DEF RefundDrop, Successful, Actors, TypeOK
    <3>2. QED
      BY <2>0, <2>13, <3>1 DEF RefundDrop, Rollback, callVars
  <2>14. CASE UNCHANGED vars
    BY <2>0, <2>14 DEF vars, refundVars, callVars, txVars, Successful
  <2>15. QED
    BY <2>1, <2>2, <2>4, <2>5, <2>6, <2>7, <2>8, <2>9, <2>10, <2>11, <2>12, <2>13, <2>14
       DEF Next, EventNext, RefundNext
<1>3. ViewInv => SummaryAgrees
    BY DEF ViewInv
<1>4. QED
    BY <1>1, <1>2, <1>3, TypeCorrect, CallInvariant, StatusesHaveCauses, PTL DEF Spec

=============================================================================
