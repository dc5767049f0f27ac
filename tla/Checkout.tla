------------------------------ MODULE Checkout ------------------------------
(***************************************************************************)
(* From cart to order: createOrder, the cart it empties and the coupon it  *)
(* redeems (services/api/src/orders, cart, coupons).                       *)
(*                                                                         *)
(* createOrder looks up the idempotency key, reads the cart and resolves   *)
(* the coupon before its transaction; each is a step of its own, and so is *)
(* the transaction, which order_sequences serialises against every other.  *)
(* A request whose process dies takes no further step: nothing makes it.   *)
(*                                                                         *)
(* A cart line is one addItem call.  Not modelled here: a second addItem   *)
(* of the same variant (it raises the quantity of the first line), prices, *)
(* and stock (Inventory), whose refusals are a nondeterministic Refuse.    *)
(***************************************************************************)
EXTENDS Integers, FiniteSets

CONSTANTS
    Requests,           \* calls of createOrder; an order is named by its call
    Customers,
    CustomerOf,         \* [Requests -> Customers]
    Keys,               \* Idempotency-Key values
    NoKey,              \* the header is optional
    KeyOf,              \* [Requests -> Keys \cup {NoKey}]
    Coupons,
    NoCoupon,
    CouponOf,           \* [Requests -> Coupons \cup {NoCoupon}]
    UsageLimit,         \* [Coupons -> Nat]; no limit is a large number
    PerCustomerLimit,   \* [Coupons -> Nat]
    FirstOrderOnly,     \* coupons for a customer's first order
    Adds,               \* calls of addItem; a line is named by its call
    AddedBy,            \* [Adds -> Customers]
    Initial             \* lines that are in the carts to begin with

ASSUME CheckoutAssumption ==
    /\ IsFiniteSet(Requests)
    /\ CustomerOf \in [Requests -> Customers]
    /\ NoKey \notin Keys
    /\ KeyOf \in [Requests -> Keys \cup {NoKey}]
    /\ NoCoupon \notin Coupons
    /\ CouponOf \in [Requests -> Coupons \cup {NoCoupon}]
    /\ UsageLimit \in [Coupons -> Nat]
    /\ PerCustomerLimit \in [Coupons -> Nat]
    /\ FirstOrderOnly \in SUBSET Coupons
    /\ AddedBy \in [Adds -> Customers]
    /\ Initial \in SUBSET Adds
    /\ Requests \cap {"none", "empty", "refused"} = {}

VARIABLES
    phase,      \* how far each request has come
    seen,       \* the lines it read in the cart; the order's items once it commits
    answer,     \* what its caller was told: an order, "empty", "refused", "none"
    orders,     \* orders that exist, in the name of the request that made them
    line,       \* what became of each line
    cart,       \* per customer the id of the cart row, 0 for no row
    cartRead,   \* the id addItem read before its transaction
    lastCart,   \* cart ids handed out
    atLookup,   \* history: the orders under its key when a request looked it up,
    atCart,     \* its customer's orders when it read the cart,
    atCoupon,   \* the redemptions of its coupon when it resolved the coupon
    late        \* history: lines added while a checkout had already read the cart

requestVars == <<phase, seen, answer, orders, atLookup, atCart, atCoupon>>
cartVars == <<line, cart, cartRead, lastCart, late>>
vars == <<requestVars, cartVars>>

Phases == {"new", "looked", "read", "priced", "committed", "beaten", "done"}

LineStates == {"NEW", "SENT", "IN_CART", "FAILED", "REMOVED", "CLEARED"}

TypeOK ==
    /\ phase \in [Requests -> Phases]
    /\ seen \in [Requests -> SUBSET Adds]
    /\ answer \in [Requests -> Requests \cup {"none", "empty", "refused"}]
    /\ orders \in SUBSET Requests
    /\ line \in [Adds -> LineStates]
    /\ cart \in [Customers -> Nat]
    /\ cartRead \in [Adds -> Nat]
    /\ lastCart \in Nat
    /\ atLookup \in [Requests -> SUBSET Requests]
    /\ atCart \in [Requests -> SUBSET Requests]
    /\ atCoupon \in [Requests -> SUBSET Requests]
    /\ late \in SUBSET Adds

Init ==
    /\ phase = [r \in Requests |-> "new"]
    /\ seen = [r \in Requests |-> {}]
    /\ answer = [r \in Requests |-> "none"]
    /\ orders = {}
    /\ line = [x \in Adds |-> IF x \in Initial THEN "IN_CART" ELSE "NEW"]
    /\ cart = [c \in Customers |-> IF \E x \in Initial : AddedBy[x] = c THEN 1 ELSE 0]
    /\ cartRead = [x \in Adds |-> 0]
    /\ lastCart = 1
    /\ atLookup = [r \in Requests |-> {}]
    /\ atCart = [r \in Requests |-> {}]
    /\ atCoupon = [r \in Requests |-> {}]
    /\ late = {}

-----------------------------------------------------------------------------

InCart(c) == {x \in Adds : AddedBy[x] = c /\ line[x] = "IN_CART"}

\* Retries of one checkout attempt carry its key.
SameKey(r, s) == KeyOf[r] # NoKey /\ KeyOf[r] = KeyOf[s]

\* The orders under a request's key: orders.idempotencyKey is unique.
Winners(r) == {s \in orders : SameKey(r, s)}

\* coupon_usages: a row per order that redeemed the coupon.
UsesOf(p, S) == {s \in S : CouponOf[s] = p}

CustomersOwn(r, S) == {s \in S : CustomerOf[s] = CustomerOf[r]}

\* Mutant: checkout trusts the limits the coupon preview checked.
RedeemsMutant(r) == TRUE

\* resolveForCart finds the coupon's limits kept.
Redeems(r) ==
    LET p == CouponOf[r] IN
    p # NoCoupon =>
        /\ Cardinality(UsesOf(p, orders)) < UsageLimit[p]
        /\ Cardinality(CustomersOwn(r, UsesOf(p, orders))) < PerCustomerLimit[p]
        /\ p \in FirstOrderOnly => CustomersOwn(r, orders) = {}

\* A request returns, with an order or with an error.
Reply(r, a) ==
    /\ phase' = [phase EXCEPT ![r] = "done"]
    /\ answer' = [answer EXCEPT ![r] = a]

Advance(r, p) ==
    /\ phase' = [phase EXCEPT ![r] = p]
    /\ UNCHANGED answer

-----------------------------------------------------------------------------
(* createOrder.                                                              *)

\* Mutant: the key is never looked up, only the unique constraint is left.
LookupMutant(r) ==
    /\ phase[r] = "new"
    /\ atLookup' = [atLookup EXCEPT ![r] = Winners(r)]
    /\ Advance(r, "looked")
    /\ UNCHANGED <<seen, orders, atCart, atCoupon, cartVars>>

Lookup(r) ==
    /\ phase[r] = "new"
    /\ atLookup' = [atLookup EXCEPT ![r] = Winners(r)]
    /\ \/ Winners(r) = {} /\ Advance(r, "looked")
       \/ \E w \in Winners(r) : Reply(r, w)
    /\ UNCHANGED <<seen, orders, atCart, atCoupon, cartVars>>

ReadCart(r) ==
    /\ phase[r] = "looked"
    /\ seen' = [seen EXCEPT ![r] = InCart(CustomerOf[r])]
    /\ atCart' = [atCart EXCEPT ![r] = CustomersOwn(r, orders)]
    /\ IF InCart(CustomerOf[r]) = {} THEN Reply(r, "empty") ELSE Advance(r, "read")
    /\ UNCHANGED <<orders, atLookup, atCoupon, cartVars>>

ResolveCoupon(r) ==
    /\ phase[r] = "read"
    /\ atCoupon' = [atCoupon EXCEPT ![r] = UsesOf(CouponOf[r], orders)]
    /\ IF Redeems(r) THEN Advance(r, "priced") ELSE Reply(r, "refused")
    /\ UNCHANGED <<seen, orders, atLookup, atCart, cartVars>>

\* cart.deleteMany: the cart row and its lines go.
DeleteCart(c, end) ==
    /\ cart' = [cart EXCEPT ![c] = 0]
    /\ line' = [x \in Adds |-> IF x \in InCart(c) THEN end ELSE line[x]]
    /\ UNCHANGED <<cartRead, lastCart, late>>

\* Mutant: a refused checkout does not roll the cart's deletion back.
RefuseMutant(r) ==
    /\ phase[r] \in {"read", "priced"}
    /\ Reply(r, "refused")
    /\ DeleteCart(CustomerOf[r], "CLEARED")
    /\ UNCHANGED <<seen, orders, atLookup, atCart, atCoupon>>

\* A cart issue, the address, the coupon's dates or branch (before the
\* transaction), or a line out of stock (which rolls it back).
Refuse(r) ==
    /\ phase[r] \in {"read", "priced"}
    /\ Reply(r, "refused")
    /\ UNCHANGED <<seen, orders, atLookup, atCart, atCoupon, cartVars>>

\* Mutant: the cart survives the checkout.
CommitMutant(r) ==
    /\ phase[r] = "priced"
    /\ Winners(r) = {}
    /\ orders' = orders \cup {r}
    /\ Advance(r, "committed")
    /\ UNCHANGED <<seen, atLookup, atCart, atCoupon, cartVars>>

\* The transaction: the order with the lines that were read, the coupon's
\* usage, and the customer's cart deleted, whatever it holds by now.
Commit(r) ==
    /\ phase[r] = "priced"
    /\ Winners(r) = {}
    /\ orders' = orders \cup {r}
    /\ Advance(r, "committed")
    /\ DeleteCart(CustomerOf[r], "CLEARED")
    /\ UNCHANGED <<seen, atLookup, atCart, atCoupon>>

\* The insert hits the unique key (P2002) and the transaction rolls back.
LoseRace(r) ==
    /\ phase[r] = "priced"
    /\ Winners(r) # {}
    /\ Advance(r, "beaten")
    /\ UNCHANGED <<seen, orders, atLookup, atCart, atCoupon, cartVars>>

\* Mutant: the loser returns the order it tried to create.
AnswerMutant(r) ==
    /\ phase[r] \in {"committed", "beaten"}
    /\ Reply(r, r)
    /\ UNCHANGED <<seen, orders, atLookup, atCart, atCoupon, cartVars>>

\* The new order, or the one that won the race, looked up after the rollback.
Answer(r) ==
    /\ \/ phase[r] = "committed" /\ Reply(r, r)
       \/ phase[r] = "beaten" /\ \E w \in Winners(r) : Reply(r, w)
    /\ UNCHANGED <<seen, orders, atLookup, atCart, atCoupon, cartVars>>

-----------------------------------------------------------------------------
(* The cart.  addItem reads the cart row before its transaction.             *)

AddRead(x) ==
    /\ line[x] = "NEW"
    /\ line' = [line EXCEPT ![x] = "SENT"]
    /\ cartRead' = [cartRead EXCEPT ![x] = cart[AddedBy[x]]]
    /\ UNCHANGED <<cart, lastCart, late, requestVars>>

\* Some checkout of the customer has read the cart and not yet committed.
CheckingOut(c) ==
    \E r \in Requests : CustomerOf[r] = c /\ phase[r] \in {"read", "priced"}

\* The line joins the cart that was read, or a new one if there was none.
AddCommit(x) ==
    LET c == AddedBy[x] IN
    /\ line[x] = "SENT"
    /\ cart[c] = cartRead[x]
    /\ IF cart[c] = 0
         THEN /\ cart' = [cart EXCEPT ![c] = lastCart + 1]
              /\ lastCart' = lastCart + 1
         ELSE UNCHANGED <<cart, lastCart>>
    /\ line' = [line EXCEPT ![x] = "IN_CART"]
    /\ late' = IF CheckingOut(c) THEN late \cup {x} ELSE late
    /\ UNCHANGED <<cartRead, requestVars>>

\* The cart that was read is gone (foreign key), or another call created one
\* first (unique customerId).
AddFail(x) ==
    /\ line[x] = "SENT"
    /\ cart[AddedBy[x]] # cartRead[x]
    /\ line' = [line EXCEPT ![x] = "FAILED"]
    /\ UNCHANGED <<cart, cartRead, lastCart, late, requestVars>>

RemoveItem(x) ==
    /\ line[x] = "IN_CART"
    /\ line' = [line EXCEPT ![x] = "REMOVED"]
    /\ UNCHANGED <<cart, cartRead, lastCart, late, requestVars>>

ClearCart(c) ==
    /\ cart[c] # 0
    /\ DeleteCart(c, "REMOVED")
    /\ UNCHANGED requestVars

-----------------------------------------------------------------------------

RequestNext(r) ==
    \/ Lookup(r)
    \/ ReadCart(r)
    \/ ResolveCoupon(r)
    \/ Refuse(r)
    \/ Commit(r)
    \/ LoseRace(r)
    \/ Answer(r)

AddNext(x) == AddRead(x) \/ AddCommit(x) \/ AddFail(x) \/ RemoveItem(x)

Next ==
    \/ \E r \in Requests : RequestNext(r)
    \/ \E x \in Adds : AddNext(x)
    \/ \E c \in Customers : ClearCart(c)

Spec == Init /\ [][Next]_vars

-----------------------------------------------------------------------------
(* Properties.                                                               *)

Given == {r \in Requests : answer[r] \in Requests}

\* "Every concurrent caller got back the SAME order"
\* (orders.service.integration.spec.ts:195), of the callers that got one:
\* it exists, and only retries of its own attempt are given it.
AnswersAgree ==
    /\ \A r \in Given : answer[r] \in orders /\ (answer[r] = r \/ SameKey(r, answer[r]))
    /\ \A r, s \in Given : SameKey(r, s) => answer[r] = answer[s]

\* A retry that starts after the order was committed, as after a crash
\* between the commit and the reply, is never told anything but that order.
LateRetryGetsOrder ==
    \A r \in Requests : \A w \in atLookup[r] : answer[r] = w

\* Two orders share a cart line only when both requests had read the cart
\* before either had committed: one checkout after another never orders a
\* line twice.
LinesOrderedOnce ==
    \A r, s \in orders :
        r # s /\ seen[r] \cap seen[s] # {} => r \notin atCart[s] /\ s \notin atCart[r]

\* A line that a checkout took out of the cart is in an order, unless it was
\* added after some checkout had read the cart.
ClearedLinesOrdered ==
    \A x \in Adds : line[x] = "CLEARED" => x \in late \cup UNION {seen[r] : r \in orders}

\* Two redemptions that were both checked before either was recorded.
Overlap(r, s) == r # s /\ r \notin atCoupon[s] /\ s \notin atCoupon[r]

\* A coupon's limits are kept, unless two redemptions overlapped.
CouponLimitsKept ==
    \A p \in Coupons :
        LET U == UsesOf(p, orders) IN
        /\ Cardinality(U) > UsageLimit[p] => \E r, s \in U : Overlap(r, s)
        /\ \A r \in U :
              Cardinality(CustomersOwn(r, U)) > PerCustomerLimit[p]
                => \E q, s \in CustomersOwn(r, U) : Overlap(q, s)
        /\ \A r \in U : \A s \in CustomersOwn(r, U) \ {r} :
              p \in FirstOrderOnly => Overlap(r, s)

=============================================================================
