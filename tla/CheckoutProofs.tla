--------------------------- MODULE CheckoutProofs ---------------------------
(***************************************************************************)
(* Theorems about Checkout, for any number of requests, customers, keys,   *)
(* coupons and cart lines.  Each property has the strengthening that makes *)
(* it inductive stated just above it.                                      *)
(***************************************************************************)
EXTENDS Checkout, FiniteSetTheorems, TLAPS

-----------------------------------------------------------------------------
(* Type correctness.                                                         *)

\* What an action that only replies or advances does to phase and answer.
LEMMA ReplyTypes ==
    ASSUME TypeOK, NEW r \in Requests,
           \/ \E p \in Phases : Advance(r, p)
           \/ \E a \in Requests \cup {"empty", "refused"} : Reply(r, a)
    PROVE  /\ phase' \in [Requests -> Phases]
           /\ answer' \in [Requests -> Requests \cup {"none", "empty", "refused"}]
           /\ \A s \in Requests \ {r} : phase'[s] = phase[s] /\ answer'[s] = answer[s]
BY DEF TypeOK, Advance, Reply, Phases

\* Deleting a cart keeps every line in a legal state.
LEMMA DeleteTypes ==
    ASSUME TypeOK, NEW c \in Customers, NEW end \in LineStates, DeleteCart(c, end)
    PROVE  /\ cart' \in [Customers -> Nat] /\ line' \in [Adds -> LineStates]
           /\ UNCHANGED <<cartRead, lastCart, late>>
BY DEF TypeOK, DeleteCart

\* A step of createOrder keeps every variable in its range.
LEMMA RequestTypes ==
    ASSUME TypeOK, NEW r \in Requests, RequestNext(r)
    PROVE  TypeOK'
<1> USE CheckoutAssumption
<1>1. CASE Lookup(r)
  <2>1. Advance(r, "looked") \/ \E w \in Requests : Reply(r, w)
    BY <1>1 DEF Lookup, Winners, TypeOK
  <2>2. Winners(r) \in SUBSET Requests
    BY DEF Winners, TypeOK
  <2>3. QED
    BY <1>1, <2>1, <2>2, ReplyTypes DEF Lookup, TypeOK, cartVars, Phases
<1>2. CASE ReadCart(r)
  <2>1. Advance(r, "read") \/ Reply(r, "empty")
    BY <1>2 DEF ReadCart
  <2>2. InCart(CustomerOf[r]) \in SUBSET Adds /\ CustomersOwn(r, orders) \in SUBSET Requests
    BY DEF InCart, CustomersOwn, TypeOK
  <2>3. QED
    BY <1>2, <2>1, <2>2, ReplyTypes DEF ReadCart, TypeOK, cartVars, Phases
<1>3. CASE ResolveCoupon(r)
  <2>1. Advance(r, "priced") \/ Reply(r, "refused")
    BY <1>3 DEF ResolveCoupon
  <2>2. UsesOf(CouponOf[r], orders) \in SUBSET Requests
    BY DEF UsesOf, TypeOK
  <2>3. QED
    BY <1>3, <2>1, <2>2, ReplyTypes DEF ResolveCoupon, TypeOK, cartVars, Phases
<1>4. CASE Refuse(r)
    BY <1>4, ReplyTypes DEF Refuse, TypeOK, cartVars
<1>5. CASE Commit(r)
  <2>1. /\ Advance(r, "committed") /\ DeleteCart(CustomerOf[r], "CLEARED")
        /\ "committed" \in Phases /\ "CLEARED" \in LineStates /\ CustomerOf[r] \in Customers
    BY <1>5 DEF Commit, Phases, LineStates
  <2>2. QED
    BY <1>5, <2>1, ReplyTypes, DeleteTypes DEF Commit, TypeOK
<1>6. CASE LoseRace(r)
    BY <1>6, ReplyTypes DEF LoseRace, TypeOK, cartVars, Phases
<1>7. CASE Answer(r)
  <2>1. \E a \in Requests : Reply(r, a)
    BY <1>7 DEF Answer, Winners, TypeOK
  <2>2. QED
    BY <1>7, <2>1, ReplyTypes DEF Answer, TypeOK, cartVars
<1>8. QED
    BY <1>1, <1>2, <1>3, <1>4, <1>5, <1>6, <1>7 DEF RequestNext

\* A step on a cart keeps every variable in its range.
LEMMA CartTypes ==
    ASSUME TypeOK, \/ \E x \in Adds : AddNext(x)
                   \/ \E c \in Customers : ClearCart(c)
    PROVE  TypeOK'
<1> USE CheckoutAssumption
<1>1. ASSUME NEW x \in Adds, AddRead(x) \/ AddFail(x) \/ RemoveItem(x)
      PROVE  TypeOK'
    BY <1>1 DEF AddRead, AddFail, RemoveItem, TypeOK, LineStates, requestVars
<1>2. ASSUME NEW x \in Adds, AddCommit(x)
      PROVE  TypeOK'
    BY <1>2 DEF AddCommit, TypeOK, LineStates, requestVars
<1>3. ASSUME NEW c \in Customers, ClearCart(c)
      PROVE  TypeOK'
  <2>1. DeleteCart(c, "REMOVED") /\ "REMOVED" \in LineStates
    BY <1>3 DEF ClearCart, LineStates
  <2>2. QED
    BY <1>3, <2>1, DeleteTypes DEF ClearCart, TypeOK, requestVars
<1>4. QED
    BY <1>1, <1>2, <1>3 DEF AddNext

\* Every step keeps every variable in its range.
LEMMA TypeStep ==
    ASSUME TypeOK, [Next]_vars
    PROVE  TypeOK'
<1>1. CASE UNCHANGED vars
    BY <1>1 DEF vars, requestVars, cartVars, TypeOK
<1>2. QED
    BY <1>1, RequestTypes, CartTypes DEF Next

\* Requests, answers, orders, carts and lines stay well formed for ever.
THEOREM TypeCorrect == Spec => []TypeOK
<1>1. Init => TypeOK
    BY CheckoutAssumption DEF Init, TypeOK, Phases, LineStates
<1>2. TypeOK /\ [Next]_vars => TypeOK'
    BY TypeStep
<1>3. QED
    BY <1>1, <1>2, PTL DEF Spec

-----------------------------------------------------------------------------
(* Steps on a cart leave the requests alone.                                 *)

\* addItem, removeItem and clearCart change no variable of a request.
LEMMA CartStep ==
    ASSUME TypeOK, \/ \E x \in Adds : AddNext(x)
                   \/ \E c \in Customers : ClearCart(c)
                   \/ UNCHANGED vars
    PROVE  UNCHANGED requestVars
BY DEF AddNext, AddRead, AddCommit, AddFail, RemoveItem, ClearCart, vars

-----------------------------------------------------------------------------
(* One order per attempt.                                                    *)

\* One order per key; a committed request has its order; an answer is an order
\* of the caller's own attempt, and the order a lookup found is the answer.
AttemptInv ==
    /\ \A r, s \in orders : SameKey(r, s) => r = s
    /\ \A r \in Requests : phase[r] = "committed" => r \in orders
    /\ \A r \in Given : answer[r] \in orders /\ (answer[r] = r \/ SameKey(r, answer[r]))
    /\ \A r \in Requests : phase[r] # "done" => answer[r] = "none"
    /\ \A r \in Requests : phase[r] = "new" => r \notin orders
    /\ LateRetryGetsOrder

\* A step of createOrder keeps AttemptInv.
LEMMA AttemptStep ==
    ASSUME TypeOK, AttemptInv, NEW r \in Requests, RequestNext(r)
    PROVE  AttemptInv'
<1> USE CheckoutAssumption DEF AttemptInv, Given, LateRetryGetsOrder
<1>1. CASE Lookup(r)
  <2>1. CASE Winners(r) = {} /\ Advance(r, "looked")
    BY <1>1, <2>1 DEF Lookup, Advance, TypeOK
  <2>2. ASSUME NEW w \in Winners(r), Reply(r, w)
        PROVE  AttemptInv'
    <3>1. w \in orders /\ w \in Requests /\ SameKey(r, w)
      BY <2>2 DEF Winners, TypeOK
    <3>2. \A v \in Winners(r) : v = w
      BY <3>1 DEF Winners, SameKey
    <3>3. /\ orders' = orders
          /\ atLookup' = [atLookup EXCEPT ![r] = Winners(r)]
          /\ phase' = [phase EXCEPT ![r] = "done"]
          /\ answer' = [answer EXCEPT ![r] = w]
      BY <1>1, <2>2 DEF Lookup, Reply
    <3>4. LateRetryGetsOrder'
      BY <3>2, <3>3 DEF TypeOK
    <3>5. QED
      BY <3>1, <3>3, <3>4 DEF TypeOK
  <2>3. QED
    BY <1>1, <2>1, <2>2 DEF Lookup
<1>2. CASE ReadCart(r)
    BY <1>2 DEF ReadCart, Advance, Reply, TypeOK
<1>3. CASE ResolveCoupon(r)
    BY <1>3 DEF ResolveCoupon, Advance, Reply, TypeOK
<1>4. CASE Refuse(r)
    BY <1>4 DEF Refuse, Reply, TypeOK
<1>5. CASE Commit(r)
  <2>1. \A s \in orders : ~ SameKey(r, s) /\ ~ SameKey(s, r)
    BY <1>5 DEF Commit, Winners, SameKey
  <2>2. /\ orders' = orders \cup {r}
        /\ phase' = [phase EXCEPT ![r] = "committed"]
        /\ UNCHANGED <<answer, atLookup>> /\ phase[r] = "priced"
    BY <1>5 DEF Commit, Advance
  <2>3. QED
    BY <2>1, <2>2 DEF TypeOK
<1>6. CASE LoseRace(r)
    BY <1>6 DEF LoseRace, Advance, TypeOK
<1>7. CASE Answer(r)
  <2>1. CASE phase[r] = "committed" /\ Reply(r, r)
    BY <1>7, <2>1 DEF Answer, Reply, TypeOK
  <2>2. CASE phase[r] = "beaten" /\ \E w \in Winners(r) : Reply(r, w)
    BY <1>7, <2>2 DEF Answer, Reply, Winners, TypeOK
  <2>3. QED
    BY <1>7, <2>1, <2>2 DEF Answer
<1>8. QED
    BY <1>1, <1>2, <1>3, <1>4, <1>5, <1>6, <1>7 DEF RequestNext

\* AttemptInv holds in every reachable state.
LEMMA AttemptInvariant == Spec => []AttemptInv
<1>1. Init => AttemptInv
    BY CheckoutAssumption DEF Init, AttemptInv, Given, LateRetryGetsOrder
<1>2. TypeOK /\ AttemptInv /\ [Next]_vars => AttemptInv'
  <2>1. AttemptInv /\ UNCHANGED requestVars => AttemptInv'
    BY DEF AttemptInv, Given, LateRetryGetsOrder, requestVars
  <2>2. QED
    BY <2>1, AttemptStep, CartStep DEF Next
<1>3. QED
    BY <1>1, <1>2, TypeCorrect, PTL DEF Spec

\* Callers retrying one checkout attempt that are given an order are all
\* given the same one.
THEOREM AttemptsAgree == Spec => []AnswersAgree
<1>1. TypeOK /\ AttemptInv => AnswersAgree
  <2> SUFFICES ASSUME TypeOK, AttemptInv
               PROVE  AnswersAgree
    OBVIOUS
  <2>1. ASSUME NEW r \in Given, NEW s \in Given, SameKey(r, s)
        PROVE  answer[r] = answer[s]
    <3>1. /\ answer[r] \in orders /\ answer[s] \in orders
          /\ answer[r] = r \/ SameKey(r, answer[r])
          /\ answer[s] = s \/ SameKey(s, answer[s])
      BY DEF AttemptInv
    <3>2. SameKey(answer[r], answer[s])
      BY <2>1, <3>1 DEF SameKey
    <3>3. QED
      BY <3>1, <3>2 DEF AttemptInv
  <2>2. QED
    BY <2>1 DEF AttemptInv, AnswersAgree
<1>2. QED
    BY <1>1, TypeCorrect, AttemptInvariant, PTL

\* A retry that starts after its order was committed is given that order.
THEOREM LateRetriesGetOrder == Spec => []LateRetryGetsOrder
<1>1. AttemptInv => LateRetryGetsOrder
    BY DEF AttemptInv
<1>2. QED
    BY <1>1, AttemptInvariant, PTL

-----------------------------------------------------------------------------
(* Cart lines.                                                               *)

\* The lines an order was made from have left the cart for good; a request
\* saw lines of its own customer; and what a cart holds beyond the lines a
\* checkout saw in it came late.
LineInv ==
    /\ \A r \in orders : phase[r] \in {"committed", "done"}
    /\ \A r \in orders : \A x \in seen[r] : line[x] \in {"CLEARED", "REMOVED"}
    /\ \A r \in Requests : \A x \in seen[r] :
          AddedBy[x] = CustomerOf[r] /\ line[x] \in {"IN_CART", "CLEARED", "REMOVED"}
    /\ \A s \in Requests : \A r \in atCart[s] :
          r \in orders /\ seen[r] \cap seen[s] = {}
    /\ \A r \in Requests : phase[r] \in {"read", "priced"}
          => InCart(CustomerOf[r]) \subseteq seen[r] \cup late
    /\ ClearedLinesOrdered

\* A step of createOrder keeps LineInv.
LEMMA LineRequestStep ==
    ASSUME TypeOK, LineInv, NEW r \in Requests, RequestNext(r)
    PROVE  LineInv'
<1> USE CheckoutAssumption DEF LineInv, ClearedLinesOrdered, InCart
<1>1. CASE \/ Lookup(r) \/ ResolveCoupon(r) \/ Refuse(r) \/ LoseRace(r) \/ Answer(r)
  <2>1. /\ UNCHANGED <<seen, orders, atCart, line, late>>
        /\ \A s \in Requests \ {r} : phase'[s] = phase[s]
        /\ phase'[r] \in {"read", "priced"} => phase[r] \in {"read", "priced"}
        /\ phase[r] = "committed" => phase'[r] = "done"
        /\ phase[r] # "done"
    BY <1>1 DEF Lookup, ResolveCoupon, Refuse, LoseRace, Answer, Reply, Advance,
                cartVars, TypeOK
  <2>2. QED
    BY <2>1 DEF TypeOK
<1>2. CASE ReadCart(r)
  <2>1. /\ seen' = [seen EXCEPT ![r] = InCart(CustomerOf[r])]
        /\ atCart' = [atCart EXCEPT ![r] = CustomersOwn(r, orders)]
        /\ UNCHANGED <<orders, line, late>>
        /\ phase[r] = "looked" /\ \A s \in Requests \ {r} : phase'[s] = phase[s]
    BY <1>2 DEF ReadCart, Advance, Reply, cartVars, TypeOK
  <2>2. r \notin orders
    BY <2>1
  <2>3. \A s \in orders : seen'[s] = seen[s] /\ seen[s] \cap InCart(CustomerOf[r]) = {}
    BY <2>1, <2>2 DEF TypeOK
  <2>4. \A s \in Requests : \A q \in atCart'[s] : q \in orders' /\ seen'[q] \cap seen'[s] = {}
    <3>1. SUFFICES ASSUME NEW s \in Requests, NEW q \in atCart'[s]
                   PROVE  q \in orders' /\ seen'[q] \cap seen'[s] = {}
      OBVIOUS
    <3>2. CASE s = r
      <4>1. seen'[s] = InCart(CustomerOf[r]) /\ q \in orders
        BY <2>1, <3>1, <3>2 DEF TypeOK, CustomersOwn
      <4>2. QED
        BY <2>1, <2>3, <4>1
    <3>3. CASE s # r
      <4>1. seen'[s] = seen[s] /\ q \in atCart[s]
        BY <2>1, <3>1, <3>3 DEF TypeOK
      <4>2. q \in orders /\ seen[q] \cap seen[s] = {}
        BY <4>1
      <4>3. QED
        BY <2>1, <2>3, <4>1, <4>2
    <3>4. QED
      BY <3>2, <3>3
  <2>5. QED
    BY <2>1, <2>2, <2>3, <2>4 DEF TypeOK
<1>3. CASE Commit(r)
  <2>1. /\ orders' = orders \cup {r}
        /\ phase' = [phase EXCEPT ![r] = "committed"] /\ phase[r] = "priced"
        /\ line' = [x \in Adds |-> IF x \in InCart(CustomerOf[r]) THEN "CLEARED" ELSE line[x]]
        /\ UNCHANGED <<seen, atCart, late>>
    BY <1>3 DEF Commit, Advance, DeleteCart
  <2>2. \A x \in seen[r] : line'[x] \in {"CLEARED", "REMOVED"}
    BY <2>1 DEF TypeOK
  <2>3. \A c \in Customers : InCart(c)' \subseteq InCart(c)
    BY <2>1 DEF TypeOK
  <2>4. ASSUME NEW x \in Adds, line'[x] = "CLEARED"
        PROVE  x \in late' \cup UNION {seen'[q] : q \in orders'}
    <3>1. CASE line[x] = "CLEARED"
      BY <2>1, <3>1
    <3>2. CASE x \in InCart(CustomerOf[r])
      BY <2>1, <3>2
    <3>3. QED
      BY <2>1, <2>4, <3>1, <3>2
  <2>5. QED
    BY <2>1, <2>2, <2>3, <2>4 DEF TypeOK
<1>4. QED
    BY <1>1, <1>2, <1>3 DEF RequestNext

\* A step on a cart keeps LineInv.
LEMMA LineCartStep ==
    ASSUME TypeOK, LineInv, UNCHANGED requestVars,
           \/ \E x \in Adds : AddNext(x)
           \/ \E c \in Customers : ClearCart(c)
    PROVE  LineInv'
<1> USE CheckoutAssumption DEF LineInv, ClearedLinesOrdered, InCart, requestVars
<1>1. ASSUME NEW x \in Adds, AddRead(x) \/ AddFail(x) \/ RemoveItem(x)
      PROVE  LineInv'
  <2>1. /\ late' = late /\ \A y \in Adds \ {x} : line'[y] = line[y]
        /\ line'[x] \in {"SENT", "FAILED", "REMOVED"}
        /\ line[x] \in {"NEW", "SENT", "IN_CART"}
        /\ line[x] = "IN_CART" => line'[x] = "REMOVED"
    BY <1>1 DEF AddRead, AddFail, RemoveItem, TypeOK
  <2>2. \A y \in Adds :
           /\ line'[y] = "IN_CART" => line[y] = "IN_CART"
           /\ line[y] = "IN_CART" => line'[y] \in {"IN_CART", "REMOVED"}
           /\ line[y] \in {"CLEARED", "REMOVED"} => line'[y] = line[y]
           /\ line'[y] = "CLEARED" => line[y] = "CLEARED"
    BY <2>1
  <2>3. \A c \in Customers : InCart(c)' \subseteq InCart(c)
    BY <2>2
  <2>4. \A r \in Requests : \A y \in seen[r] : y \in Adds
    BY DEF TypeOK
  <2>5. \A r \in orders : r \in Requests
    BY DEF TypeOK
  <2>6. \A r \in Requests : phase'[r] \in {"read", "priced"}
           => InCart(CustomerOf[r])' \subseteq seen'[r] \cup late'
    BY <2>1, <2>3
  <2>7. ClearedLinesOrdered'
    BY <2>1, <2>2
  <2>8. QED
    BY <2>2, <2>4, <2>5, <2>6, <2>7
<1>2. ASSUME NEW x \in Adds, AddCommit(x)
      PROVE  LineInv'
  <2>1. /\ line[x] = "SENT" /\ line' = [line EXCEPT ![x] = "IN_CART"]
        /\ late' = IF CheckingOut(AddedBy[x]) THEN late \cup {x} ELSE late
    BY <1>2 DEF AddCommit
  <2>2. ASSUME NEW r \in Requests, phase'[r] \in {"read", "priced"}
        PROVE  InCart(CustomerOf[r])' \subseteq seen'[r] \cup late'
    BY <2>1, <2>2 DEF TypeOK, CheckingOut
  <2>3. QED
    BY <2>1, <2>2 DEF TypeOK
<1>3. ASSUME NEW c \in Customers, ClearCart(c)
      PROVE  LineInv'
  <2>1. /\ line' = [x \in Adds |-> IF x \in InCart(c) THEN "REMOVED" ELSE line[x]]
        /\ late' = late
    BY <1>3 DEF ClearCart, DeleteCart
  <2>2. QED
    BY <2>1 DEF TypeOK
<1>4. QED
    BY <1>1, <1>2, <1>3 DEF AddNext

\* LineInv holds in every reachable state.
LEMMA LineInvariant == Spec => []LineInv
<1>1. Init => LineInv
    BY CheckoutAssumption DEF Init, LineInv, ClearedLinesOrdered
<1>2. TypeOK /\ LineInv /\ [Next]_vars => LineInv'
  <2>1. LineInv /\ UNCHANGED vars => LineInv'
    BY DEF LineInv, ClearedLinesOrdered, InCart, vars, requestVars, cartVars
  <2>2. QED
    BY <2>1, LineRequestStep, LineCartStep, CartStep DEF Next
<1>3. QED
    BY <1>1, <1>2, TypeCorrect, PTL DEF Spec

\* One checkout after another never orders a cart line twice.
THEOREM LinesAreOrderedOnce == Spec => []LinesOrderedOnce
<1>1. TypeOK /\ LineInv => LinesOrderedOnce
    BY DEF TypeOK, LineInv, LinesOrderedOnce
<1>2. QED
    BY <1>1, TypeCorrect, LineInvariant, PTL

\* A checkout loses no line but those added after some checkout read the cart.
THEOREM ClearedLinesAreOrdered == Spec => []ClearedLinesOrdered
<1>1. LineInv => ClearedLinesOrdered
    BY DEF LineInv
<1>2. QED
    BY <1>1, LineInvariant, PTL

-----------------------------------------------------------------------------
(* Coupons.                                                                  *)

\* Whoever is past resolveForCart with a coupon had found its limits kept by
\* the redemptions of that moment, which are orders still.
CouponInv ==
    /\ \A r \in Requests : atCoupon[r] \subseteq orders
    /\ \A r \in orders : phase[r] \in {"committed", "done"}
    /\ \A r \in Requests : phase[r] = "priced" \/ r \in orders =>
          LET p == CouponOf[r] IN
          p # NoCoupon =>
            /\ Cardinality(atCoupon[r]) < UsageLimit[p]
            /\ Cardinality(CustomersOwn(r, atCoupon[r])) < PerCustomerLimit[p]
            /\ p \in FirstOrderOnly => CustomersOwn(r, atCoupon[r]) = {}

\* A step of createOrder keeps CouponInv.
LEMMA CouponStep ==
    ASSUME TypeOK, CouponInv, NEW r \in Requests, RequestNext(r)
    PROVE  CouponInv'
<1> USE CheckoutAssumption DEF CouponInv
<1>0. \A q \in Requests : atCoupon'[q] = atCoupon[q] =>
         CustomersOwn(q, atCoupon[q])' = CustomersOwn(q, atCoupon[q])
    BY DEF CustomersOwn
<1>1. CASE \/ Lookup(r) \/ ReadCart(r) \/ Refuse(r) \/ LoseRace(r) \/ Answer(r)
  <2>1. /\ UNCHANGED <<orders, atCoupon>>
        /\ \A s \in Requests \ {r} : phase'[s] = phase[s]
        /\ phase'[r] # "priced"
        /\ phase[r] \in {"committed", "done"} => phase'[r] = "done"
    BY <1>1 DEF Lookup, ReadCart, Refuse, LoseRace, Answer, Reply, Advance, TypeOK
  <2>2. QED
    BY <1>0, <2>1 DEF TypeOK
<1>2. CASE ResolveCoupon(r)
  <2>1. /\ orders' = orders /\ phase[r] = "read"
        /\ atCoupon' = [atCoupon EXCEPT ![r] = UsesOf(CouponOf[r], orders)]
        /\ \A s \in Requests \ {r} : phase'[s] = phase[s]
        /\ phase'[r] \in {"priced", "done"}
        /\ phase'[r] = "priced" => Redeems(r)
    BY <1>2 DEF ResolveCoupon, Reply, Advance, TypeOK
  <2>2. r \notin orders /\ atCoupon'[r] = UsesOf(CouponOf[r], orders)
    BY <2>1 DEF TypeOK
  <2>3. CustomersOwn(r, atCoupon[r])' = CustomersOwn(r, UsesOf(CouponOf[r], orders))
    BY <2>2 DEF CustomersOwn
  <2>4. CustomersOwn(r, orders) = {} => CustomersOwn(r, atCoupon[r])' = {}
    BY <2>3 DEF CustomersOwn, UsesOf
  <2>5. ASSUME phase'[r] = "priced", CouponOf[r] # NoCoupon
        PROVE  LET p == CouponOf[r] IN
               /\ Cardinality(atCoupon'[r]) < UsageLimit[p]
               /\ Cardinality(CustomersOwn(r, atCoupon[r])') < PerCustomerLimit[p]
               /\ p \in FirstOrderOnly => CustomersOwn(r, atCoupon[r])' = {}
    BY <2>1, <2>2, <2>3, <2>4, <2>5 DEF Redeems
  <2>6. \A q \in Requests : atCoupon'[q] \subseteq orders'
    BY <2>1, <2>2 DEF TypeOK, UsesOf
  <2>7. \A q \in Requests \ {r} : atCoupon'[q] = atCoupon[q]
    BY <2>1 DEF TypeOK
  <2>8. \A q \in Requests \ {r} :
           CustomersOwn(q, atCoupon[q])' = CustomersOwn(q, atCoupon[q])
    BY <1>0, <2>7
  <2>9. \A q \in orders' : phase'[q] \in {"committed", "done"}
    BY <2>1, <2>2 DEF TypeOK
  <2>10. QED
    BY <2>1, <2>2, <2>5, <2>6, <2>7, <2>8, <2>9
<1>3. CASE Commit(r)
  <2>1. /\ orders' = orders \cup {r} /\ atCoupon' = atCoupon /\ phase[r] = "priced"
        /\ phase' = [phase EXCEPT ![r] = "committed"]
    BY <1>3 DEF Commit, Advance
  <2>2. \A q \in Requests : CustomersOwn(q, atCoupon[q])' = CustomersOwn(q, atCoupon[q])
    BY <1>0, <2>1
  <2>3. \A q \in orders' : phase'[q] \in {"committed", "done"}
    BY <2>1 DEF TypeOK
  <2>4. \A q \in Requests : phase'[q] = "priced" \/ q \in orders'
                             => phase[q] = "priced" \/ q \in orders
    BY <2>1 DEF TypeOK
  <2>5. QED
    BY <2>1, <2>2, <2>3, <2>4
<1>4. QED
    BY <1>1, <1>2, <1>3 DEF RequestNext

\* CouponInv holds in every reachable state.
LEMMA CouponInvariant == Spec => []CouponInv
<1>1. Init => CouponInv
    BY CheckoutAssumption DEF Init, CouponInv
<1>2. TypeOK /\ CouponInv /\ [Next]_vars => CouponInv'
  <2>1. CouponInv /\ UNCHANGED requestVars => CouponInv'
    BY DEF CouponInv, CustomersOwn, requestVars
  <2>2. QED
    BY <2>1, CouponStep, CartStep DEF Next
<1>3. QED
    BY <1>1, <1>2, TypeCorrect, PTL DEF Spec

\* A set within one element of a finite one is at most one larger.
LEMMA OneMore ==
    ASSUME NEW r, NEW U, NEW K, IsFiniteSet(K), U \subseteq K \cup {r}
    PROVE  /\ Cardinality(U) \in Nat /\ Cardinality(K) \in Nat
           /\ Cardinality(U) <= Cardinality(K) + 1
<1>1. IsFiniteSet(K \cup {r}) /\ Cardinality(K) \in Nat
      /\ Cardinality(K \cup {r}) <= Cardinality(K) + 1
    BY FS_AddElement, FS_CardinalityType
<1>2. IsFiniteSet(U) /\ Cardinality(U) <= Cardinality(K \cup {r})
    BY <1>1, FS_Subset
<1>3. Cardinality(U) \in Nat /\ Cardinality(K \cup {r}) \in Nat
    BY <1>1, <1>2, FS_CardinalityType
<1>4. QED
    BY <1>1, <1>2, <1>3

\* Requests are finitely many, so redemptions are.
LEMMA UsesFinite ==
    ASSUME TypeOK
    PROVE  \A S \in SUBSET Requests : IsFiniteSet(S)
BY CheckoutAssumption, FS_Subset

\* The transaction of a redemption keeps the limits, or overlaps another.
LEMMA LimitsCommit ==
    ASSUME TypeOK, CouponInv, CouponLimitsKept, NEW r \in Requests, Commit(r)
    PROVE  CouponLimitsKept'
<1> USE CheckoutAssumption
<1>1. /\ orders' = orders \cup {r} /\ atCoupon' = atCoupon /\ phase[r] = "priced"
      /\ orders \in SUBSET Requests /\ orders' \in SUBSET Requests
    BY DEF Commit, TypeOK
<1>2. SUFFICES ASSUME NEW p \in Coupons
      PROVE  LET U == UsesOf(p, orders') IN
             /\ Cardinality(U) > UsageLimit[p] => \E q, s \in U : Overlap(q, s)'
             /\ \A c \in U :
                   Cardinality(CustomersOwn(c, U)) > PerCustomerLimit[p]
                     => \E q, s \in CustomersOwn(c, U) : Overlap(q, s)'
             /\ \A c \in U : \A s \in CustomersOwn(c, U) \ {c} :
                   p \in FirstOrderOnly => Overlap(c, s)'
    BY DEF CouponLimitsKept, UsesOf, CustomersOwn
<1> DEFINE U == UsesOf(p, orders)
           V == UsesOf(p, orders')
<1>3. /\ UsageLimit[p] \in Nat /\ PerCustomerLimit[p] \in Nat /\ p # NoCoupon
      /\ Cardinality(U) > UsageLimit[p] => \E q, s \in U : Overlap(q, s)
      /\ \A c \in U :
            Cardinality(CustomersOwn(c, U)) > PerCustomerLimit[p]
              => \E q, s \in CustomersOwn(c, U) : Overlap(q, s)
      /\ \A c \in U : \A s \in CustomersOwn(c, U) \ {c} :
            p \in FirstOrderOnly => Overlap(c, s)
    BY DEF CouponLimitsKept
<1>3a. UsageLimit[p] \in Nat /\ PerCustomerLimit[p] \in Nat
    BY <1>3
<1>4. \A q, s : Overlap(q, s)' <=> Overlap(q, s)
    BY <1>1 DEF Overlap
<1>5. CASE CouponOf[r] # p
  <2>1. V = U
    BY <1>1, <1>5 DEF UsesOf
  <2>2. QED
    BY <1>3, <1>4, <2>1
<1>6. CASE CouponOf[r] = p
  <2>1. V = U \cup {r}
    BY <1>1, <1>6 DEF UsesOf
  <2>2. /\ Cardinality(atCoupon[r]) < UsageLimit[p]
        /\ Cardinality(CustomersOwn(r, atCoupon[r])) < PerCustomerLimit[p]
        /\ p \in FirstOrderOnly => CustomersOwn(r, atCoupon[r]) = {}
    BY <1>1, <1>3, <1>6 DEF CouponInv
  <2>3. IsFiniteSet(atCoupon[r]) /\ IsFiniteSet(CustomersOwn(r, atCoupon[r]))
    BY UsesFinite DEF TypeOK, CustomersOwn
  <2>4. ASSUME NEW s \in V, s # r, s \notin atCoupon[r]
        PROVE  Overlap(r, s) /\ Overlap(s, r)
    <3>1. s \in orders /\ atCoupon[s] \subseteq orders
      BY <1>1, <2>1, <2>4 DEF UsesOf, CouponInv
    <3>2. r \notin orders
      BY <1>1 DEF CouponInv
    <3>3. QED
      BY <2>4, <3>1, <3>2 DEF Overlap
  <2>5. Cardinality(V) > UsageLimit[p] => \E q, s \in V : Overlap(q, s)
    <3>1. ASSUME V \ {r} \subseteq atCoupon[r]
          PROVE  Cardinality(V) <= UsageLimit[p]
      <4>1. V \subseteq atCoupon[r] \cup {r}
        BY <3>1
      <4>2. Cardinality(V) \in Nat /\ Cardinality(atCoupon[r]) \in Nat
            /\ Cardinality(V) <= Cardinality(atCoupon[r]) + 1
        BY <2>3, <4>1, OneMore
      <4>3. QED
        BY <1>3a, <2>2, <4>2
    <3>2. IsFiniteSet(V)
      BY <1>1, UsesFinite DEF UsesOf
    <3>3. Cardinality(V) \in Nat
      BY <3>2, FS_CardinalityType
    <3>4. r \in V
      BY <2>1
    <3>5. QED
      BY <1>3, <2>4, <3>1, <3>3, <3>4
  <2>6. ASSUME NEW c \in V, Cardinality(CustomersOwn(c, V)) > PerCustomerLimit[p]
        PROVE  \E q, s \in CustomersOwn(c, V) : Overlap(q, s)
    <3>1. CASE CustomerOf[c] # CustomerOf[r]
      <4>1. c \in U /\ CustomersOwn(c, V) = CustomersOwn(c, U)
        BY <2>1, <3>1 DEF CustomersOwn
      <4>2. QED
        BY <1>3, <2>6, <4>1
    <3>2. CASE CustomerOf[c] = CustomerOf[r]
      <4>1. CustomersOwn(c, V) = CustomersOwn(r, V) /\ r \in CustomersOwn(r, V)
        BY <2>1, <3>2 DEF CustomersOwn
      <4>2. ASSUME CustomersOwn(r, V) \ {r} \subseteq CustomersOwn(r, atCoupon[r])
            PROVE  Cardinality(CustomersOwn(r, V)) <= PerCustomerLimit[p]
        <5>1. CustomersOwn(r, V) \subseteq CustomersOwn(r, atCoupon[r]) \cup {r}
          BY <4>2
        <5>2. /\ Cardinality(CustomersOwn(r, V)) \in Nat
              /\ Cardinality(CustomersOwn(r, atCoupon[r])) \in Nat
              /\ Cardinality(CustomersOwn(r, V))
                    <= Cardinality(CustomersOwn(r, atCoupon[r])) + 1
          BY <2>3, <5>1, OneMore
        <5>3. QED
          BY <1>3a, <2>2, <5>2
      <4>3. IsFiniteSet(CustomersOwn(r, V))
        BY <1>1, UsesFinite DEF UsesOf, CustomersOwn
      <4>4. Cardinality(CustomersOwn(r, V)) \in Nat
        BY <4>3, FS_CardinalityType
      <4>5. PICK s \in CustomersOwn(r, V) \ {r} : s \notin CustomersOwn(r, atCoupon[r])
        BY <1>3, <2>6, <4>1, <4>2, <4>4
      <4>6. s \in V /\ s # r /\ s \notin atCoupon[r]
        BY <4>5 DEF CustomersOwn
      <4>7. QED
        BY <2>4, <4>1, <4>5, <4>6
    <3>3. QED
      BY <3>1, <3>2
  <2>7. ASSUME NEW c \in V, NEW s \in CustomersOwn(c, V) \ {c}, p \in FirstOrderOnly
        PROVE  Overlap(c, s)
    <3>1. s \in V /\ CustomerOf[s] = CustomerOf[c] /\ s # c
      BY DEF CustomersOwn
    <3>2. CASE c = r
      <4>1. s \notin atCoupon[r]
        BY <2>2, <2>7, <3>1, <3>2 DEF CustomersOwn
      <4>2. QED
        BY <2>4, <3>1, <3>2, <4>1
    <3>3. CASE s = r
      <4>1. c \notin atCoupon[r]
        BY <2>2, <2>7, <3>1, <3>3 DEF CustomersOwn
      <4>2. QED
        BY <2>4, <3>1, <3>3, <4>1
    <3>4. CASE c # r /\ s # r
      <4>1. c \in U /\ s \in CustomersOwn(c, U) \ {c}
        BY <2>1, <3>1, <3>4 DEF CustomersOwn
      <4>2. QED
        BY <1>3, <2>7, <4>1
    <3>5. QED
      BY <3>2, <3>3, <3>4
  <2>8. QED
    BY <1>4, <2>5, <2>6, <2>7
<1>7. QED
    BY <1>5, <1>6

\* A coupon is redeemed beyond its limits only where two redemptions were both
\* checked before either was recorded.
THEOREM CouponLimitsHold == Spec => []CouponLimitsKept
<1>1. Init => CouponLimitsKept
  <2>1. SUFFICES ASSUME Init
                 PROVE  CouponLimitsKept
    OBVIOUS
  <2>2. \A p \in Coupons : UsesOf(p, orders) = {}
    BY <2>1 DEF Init, UsesOf
  <2>3. Cardinality({}) = 0 /\ \A p \in Coupons : UsageLimit[p] \in Nat
    BY FS_EmptySet, CheckoutAssumption
  <2>4. QED
    BY <2>2, <2>3 DEF CouponLimitsKept
<1>2. TypeOK /\ CouponInv /\ CouponLimitsKept /\ [Next]_vars => CouponLimitsKept'
  <2> SUFFICES ASSUME TypeOK, CouponInv, CouponLimitsKept, [Next]_vars
               PROVE  CouponLimitsKept'
    OBVIOUS
  <2>1. ASSUME orders' = orders, \A q \in orders : atCoupon'[q] = atCoupon[q]
        PROVE  CouponLimitsKept'
    <3>1. \A q, s \in orders : Overlap(q, s)' <=> Overlap(q, s)
      BY <2>1 DEF Overlap
    <3>2. \A p \in Coupons : UsesOf(p, orders) \subseteq orders
      BY DEF UsesOf
    <3>3. QED
      BY <2>1, <3>1, <3>2 DEF CouponLimitsKept, UsesOf, CustomersOwn
  <2>2. ASSUME NEW r \in Requests, RequestNext(r), ~ Commit(r)
        PROVE  orders' = orders /\ \A q \in orders : atCoupon'[q] = atCoupon[q]
    BY <2>2 DEF RequestNext, Lookup, ReadCart, ResolveCoupon, Refuse, LoseRace, Answer,
                TypeOK, CouponInv
  <2>3. CASE UNCHANGED requestVars
    BY <2>1, <2>3 DEF requestVars
  <2>4. QED
    BY <2>1, <2>2, <2>3, LimitsCommit, CartStep DEF Next
<1>3. QED
    BY <1>1, <1>2, TypeCorrect, CouponInvariant, PTL DEF Spec

=============================================================================
