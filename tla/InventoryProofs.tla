-------------------------- MODULE InventoryProofs --------------------------
(***************************************************************************)
(* Theorems about Inventory, for every number of items, orders, lines and  *)
(* staff requests.  Quantity(L) is a cardinality, so its laws follow from  *)
(* those of finite sets; the invariants rest on them and on IInv.          *)
(***************************************************************************)
EXTENDS Inventory, FiniteSetTheorems, TLAPS

-----------------------------------------------------------------------------
(* The laws of Quantity.                                                     *)

\* A set of lines has finitely many units.
LEMMA UnitsFinite ==
    ASSUME NEW L \in SUBSET Lines
    PROVE  IsFiniteSet(Units(L))
<1>1. IsFiniteSet(L)
    BY LinesAssumption, FS_Subset
<1>2. IsFiniteSet(1..MaxQty)
    BY LinesAssumption, FS_Interval
<1>3. IsFiniteSet(L \X (1..MaxQty))
    BY <1>1, <1>2, FS_Product
<1>4. Units(L) \in SUBSET (L \X (1..MaxQty))
    BY DEF Units
<1>5. QED
    BY <1>3, <1>4, FS_Subset

\* A quantity is a natural number.
LEMMA QuantityNat ==
    ASSUME NEW L \in SUBSET Lines
    PROVE  Quantity(L) \in Nat
BY UnitsFinite, FS_CardinalityType DEF Quantity

\* No line, no quantity.
LEMMA QuantityEmpty == Quantity({}) = 0
<1>1. Units({}) = {}
    BY DEF Units
<1>2. QED
    BY <1>1, FS_EmptySet DEF Quantity

\* The quantity of disjoint sets of lines is the sum of theirs.
LEMMA QuantityUnion ==
    ASSUME NEW A \in SUBSET Lines, NEW B \in SUBSET Lines, A \cap B = {}
    PROVE  Quantity(A \cup B) = Quantity(A) + Quantity(B)
<1>1. Units(A \cup B) = Units(A) \cup Units(B)
    BY DEF Units
<1>2. Units(A) \cap Units(B) = {}
    BY DEF Units
<1>3. Cardinality(Units(A) \cap Units(B)) = 0
    BY <1>2, FS_EmptySet
<1>4. Cardinality(Units(A) \cup Units(B))
        = Cardinality(Units(A)) + Cardinality(Units(B))
            - Cardinality(Units(A) \cap Units(B))
    BY UnitsFinite, FS_Union
<1>5. Cardinality(Units(A)) \in Nat /\ Cardinality(Units(B)) \in Nat
    BY UnitsFinite, FS_CardinalityType
<1>6. Cardinality(Units(A) \cup Units(B))
        = Cardinality(Units(A)) + Cardinality(Units(B))
    BY <1>3, <1>4, <1>5
<1>7. QED
    BY <1>1, <1>6 DEF Quantity

\* Fewer lines never weigh more.
LEMMA QuantityMonotone ==
    ASSUME NEW B \in SUBSET Lines, NEW A \in SUBSET B
    PROVE  Quantity(A) <= Quantity(B)
<1>1. Quantity(A \cup (B \ A)) = Quantity(A) + Quantity(B \ A)
    BY QuantityUnion
<1>2. A \cup (B \ A) = B
    OBVIOUS
<1>3. Quantity(B) = Quantity(A) + Quantity(B \ A)
    BY <1>1, <1>2, Zenon
<1>4. Quantity(A) \in Nat /\ Quantity(B \ A) \in Nat
    BY QuantityNat
<1>5. QED
    BY <1>3, <1>4

-----------------------------------------------------------------------------
(* Type correctness.                                                         *)

\* What consume() writes has the types of the columns.
LEMMA ConsumeTypes ==
    ASSUME TypeOK, NEW L \in SUBSET Lines, Consume(L)
    PROVE  /\ hold' \in [Lines -> Statuses]
           /\ sold' \in [Lines -> Nat]
           /\ stock' \in [Items -> Int]
           /\ lowStock' \in SUBSET Items
<1>1. hold' \in [Lines -> Statuses]
    BY DEF Consume, TypeOK, Statuses
<1>2. sold' \in [Lines -> Nat]
    BY DEF Consume, TypeOK
<1>3. \A i \in Items : Quantity(On(L, i)) \in Nat
    BY QuantityNat DEF On
<1>4. stock' \in [Items -> Int]
    BY <1>3 DEF Consume, TypeOK
<1>5. {ItemOf[l] : l \in L} \in SUBSET Items
    BY LinesAssumption
<1>6. lowStock' \in SUBSET Items
    BY <1>5 DEF Consume, FlagLow, TypeOK
<1>7. QED
    BY <1>1, <1>2, <1>4, <1>6

\* Every step keeps every column in its range.
LEMMA TypeStep ==
    ASSUME TypeOK, [Next]_vars
    PROVE  TypeOK'
<1>0. \A L \in SUBSET Lines, i \in Items : Quantity(On(L, i)) \in Nat
  BY QuantityNat DEF On
<1>1. ASSUME NEW o \in Orders, PlaceOnline(o)
      PROVE  TypeOK'
  BY <1>1, AmountsAssumption DEF PlaceOnline, TypeOK, Statuses
<1>2. ASSUME NEW o \in Orders, PlaceOffline(o)
      PROVE  TypeOK'
  <2>1. TrackedLines(o) \in SUBSET Lines
    BY DEF TrackedLines, LinesOf
  <2>2. Consume(TrackedLines(o))
    BY <1>2 DEF PlaceOffline
  <2>3. expiresAt' \in [Lines -> Nat]
    BY <1>2, AmountsAssumption DEF PlaceOffline, TypeOK
  <2>4. QED
    BY <1>2, <2>1, <2>2, <2>3, ConsumeTypes DEF PlaceOffline, TypeOK
<1>3. ASSUME NEW o \in Orders, CaptureRead(o)
      PROVE  TypeOK'
  BY <1>3 DEF CaptureRead, ActiveLines, LinesOf, TypeOK
<1>4. ASSUME NEW o \in Orders, CaptureCommit(o)
      PROVE  TypeOK'
  <2>1. capturing[o] \in SUBSET Lines /\ capturing[o] \ Live \in SUBSET Lines
    BY DEF TypeOK
  <2>2. Consume(capturing[o])
    BY <1>4 DEF CaptureCommit
  <2>3. unbacked' \in [Items -> Nat]
    BY <1>0, <1>4, <2>1 DEF CaptureCommit, TypeOK
  <2>4. capturing' \in [Orders -> SUBSET Lines]
    BY <1>4 DEF CaptureCommit, TypeOK
  <2>5. QED
    BY <1>4, <2>1, <2>2, <2>3, <2>4, ConsumeTypes DEF CaptureCommit, TypeOK
<1>5. ASSUME NEW o \in Orders, CaptureAbort(o)
      PROVE  TypeOK'
  BY <1>5 DEF CaptureAbort, TypeOK
<1>6. ASSUME NEW o \in Orders, Release(o)
      PROVE  TypeOK'
  BY <1>6 DEF Release, TypeOK, Statuses
<1>7. ASSUME NEW o \in Orders, RestoreSales(o)
      PROVE  TypeOK'
  <2> DEFINE L == {l \in LinesOf(o) : sold[l] > 0}
  <2>1. \A i \in Items : Quantity(On(L, i)) \in Nat
    BY <1>0 DEF LinesOf
  <2> HIDE DEF L
  <2>2. /\ stock' = [i \in Items |-> stock[i] + Quantity(On(L, i))]
        /\ booked' = [i \in Items |-> booked[i] + Quantity(On(L, i))]
    BY <1>7 DEF RestoreSales, L
  <2>3. stock' \in [Items -> Int] /\ booked' \in [Items -> Int]
    BY <2>1, <2>2 DEF TypeOK
  <2>4. QED
    BY <1>7, <2>3 DEF RestoreSales, TypeOK
<1>8. ASSUME NEW i \in Items, NEW q \in Amounts \cup {0}, CreateItem(i, q)
      PROVE  TypeOK'
  BY <1>8, AmountsAssumption DEF CreateItem, TypeOK
<1>9. ASSUME NEW i \in Items, NEW q \in Amounts, Restock(i, q)
      PROVE  TypeOK'
  BY <1>9, AmountsAssumption DEF Restock, TypeOK
<1>10. ASSUME NEW i \in Items, NEW a \in Admins, NEW d \in Deltas,
              AdjustCheck(a, i, d)
       PROVE  TypeOK'
  BY <1>10 DEF AdjustCheck, TypeOK
<1>11. ASSUME NEW i \in Items, NEW a \in Admins, NEW d \in Deltas,
              AdjustCommit(a, i, d)
       PROVE  TypeOK'
  BY <1>11, AmountsAssumption DEF AdjustCommit, FlagLow, TypeOK, Deltas
<1>12. CASE Sweep
  BY <1>12 DEF Sweep, TypeOK, Statuses
<1>13. CASE Tick
  BY <1>13 DEF Tick, TypeOK
<1>14. CASE UNCHANGED vars
  BY <1>14 DEF vars, TypeOK
<1>15. QED
  BY <1>1, <1>2, <1>3, <1>4, <1>5, <1>6, <1>7, <1>8, <1>9, <1>10, <1>11,
     <1>12, <1>13, <1>14 DEF Next, OrderNext, StaffNext

\* Every column keeps its range for ever: stock stays an integer and the
\* quantity taken without a hold a natural number.
THEOREM TypeCorrect == Spec => []TypeOK
<1>1. Init => TypeOK
    BY AmountsAssumption DEF Init, TypeOK, Statuses
<1>2. TypeOK /\ [Next]_vars => TypeOK'
    BY TypeStep
<1>3. QED
    BY <1>1, <1>2, PTL DEF Spec

-----------------------------------------------------------------------------
(* Holds and sales.                                                          *)

\* The strengthening every other invariant uses: without the facts about
\* open captures, SaleIffConsumed is not preserved by CaptureCommit.
LEMMA StatusInvariant == Spec => []StatusInv
<1>1. Init => StatusInv
    BY LinesAssumption DEF Init, StatusInv, SaleIffConsumed
<1>2. TypeOK /\ StatusInv /\ [Next]_vars => StatusInv'
  <2> SUFFICES ASSUME TypeOK, StatusInv, [Next]_vars
               PROVE  StatusInv'
    OBVIOUS
  <2> USE LinesAssumption DEF TypeOK, StatusInv, SaleIffConsumed, LinesOf
  <2>1. ASSUME NEW o \in Orders, PlaceOnline(o)
        PROVE  StatusInv'
    BY <2>1 DEF PlaceOnline, TrackedLines
  <2>2. ASSUME NEW o \in Orders, PlaceOffline(o)
        PROVE  StatusInv'
    <3>1. \A l \in TrackedLines(o) : hold[l] = "NONE" /\ sold[l] = 0
      BY <2>2 DEF PlaceOffline, TrackedLines
    <3>2. SaleIffConsumed'
      BY <2>2, <3>1 DEF PlaceOffline, Consume
    <3>3. \A i \in Items \ tracked' : stock'[i] = 0 /\ booked'[i] = 0
      <4> SUFFICES ASSUME NEW i \in Items \ tracked
                   PROVE  stock'[i] = 0
        BY <2>2 DEF PlaceOffline
      <4>1. On(TrackedLines(o), i) = {}
        BY DEF On, TrackedLines
      <4>2. Quantity(On(TrackedLines(o), i)) = 0
        BY <4>1, QuantityEmpty, Zenon
      <4>3. QED
        BY <2>2, <4>2 DEF PlaceOffline, Consume
    <3>4. QED
      BY <2>2, <3>1, <3>2, <3>3 DEF PlaceOffline, Consume, TrackedLines
  <2>3. ASSUME NEW o \in Orders, CaptureRead(o)
        PROVE  StatusInv'
    BY <2>3 DEF CaptureRead, ActiveLines
  <2>4. ASSUME NEW o \in Orders, CaptureCommit(o)
        PROVE  StatusInv'
    <3>1. \A l \in capturing[o] : l \in Lines /\ sold[l] = 0
      OBVIOUS
    <3>2. SaleIffConsumed'
      BY <2>4, <3>1 DEF CaptureCommit, Consume
    <3>3. \A i \in Items \ tracked' : stock'[i] = 0 /\ booked'[i] = 0
      <4> SUFFICES ASSUME NEW i \in Items \ tracked
                   PROVE  stock'[i] = 0
        BY <2>4 DEF CaptureCommit
      <4>1. On(capturing[o], i) = {}
        BY DEF On
      <4>2. Quantity(On(capturing[o], i)) = 0
        BY <4>1, QuantityEmpty, Zenon
      <4>3. QED
        BY <2>4, <4>2 DEF CaptureCommit, Consume
    <3>4. \A l \in Lines : hold'[l] # "NONE" => hold[l] # "NONE"
      BY <2>4, <3>1 DEF CaptureCommit, Consume
    <3>5. \A oo \in Orders : \A l \in capturing'[oo] :
             OrderOf[l] = oo /\ hold'[l] \in {"ACTIVE", "EXPIRED"}
      BY <2>4 DEF CaptureCommit, Consume
    <3>6. placed' = placed /\ tracked' = tracked /\ pending' = pending
      BY <2>4 DEF CaptureCommit
    <3>7. QED
      BY <3>2, <3>3, <3>4, <3>5, <3>6
  <2>5. ASSUME NEW o \in Orders, CaptureAbort(o)
        PROVE  StatusInv'
    BY <2>5 DEF CaptureAbort
  <2>6. ASSUME NEW o \in Orders, Release(o)
        PROVE  StatusInv'
    BY <2>6 DEF Release, ActiveLines
  <2>7. ASSUME NEW o \in Orders, RestoreSales(o)
        PROVE  StatusInv'
    <3> DEFINE L == {l \in LinesOf(o) : sold[l] > 0}
    <3>1. \A i \in Items \ tracked : On(L, i) = {}
      BY DEF On
    <3> HIDE DEF L
    <3>2. \A i \in Items \ tracked : stock'[i] = stock[i] + 0 /\ booked'[i] = booked[i] + 0
      BY <2>7, <3>1, QuantityEmpty DEF RestoreSales, L
    <3>3. QED
      BY <2>7, <3>2 DEF RestoreSales
  <2>8. ASSUME NEW i \in Items, NEW q \in Amounts \cup {0}, CreateItem(i, q)
        PROVE  StatusInv'
    BY <2>8 DEF CreateItem
  <2>9. ASSUME NEW i \in Items, NEW q \in Amounts, Restock(i, q)
        PROVE  StatusInv'
    BY <2>9 DEF Restock
  <2>10. ASSUME NEW i \in Items, NEW a \in Admins, NEW d \in Deltas,
                AdjustCheck(a, i, d)
         PROVE  StatusInv'
    BY <2>10 DEF AdjustCheck
  <2>11. ASSUME NEW i \in Items, NEW a \in Admins, NEW d \in Deltas,
                AdjustCommit(a, i, d)
         PROVE  StatusInv'
    BY <2>11 DEF AdjustCommit
  <2>12. CASE Sweep
    BY <2>12 DEF Sweep, Overdue
  <2>13. CASE Tick
    BY <2>13 DEF Tick
  <2>14. CASE UNCHANGED vars
    BY <2>14 DEF vars
  <2>15. QED
    BY <2>1, <2>2, <2>3, <2>4, <2>5, <2>6, <2>7, <2>8, <2>9, <2>10, <2>11,
       <2>12, <2>13, <2>14 DEF Next, OrderNext, StaffNext
<1>3. QED
    BY <1>1, <1>2, TypeCorrect, PTL DEF Spec

\* One SALE row for every consumed hold and none for any other.
THEOREM SalesMatchHolds == Spec => []SaleIffConsumed
<1>1. StatusInv => SaleIffConsumed
    BY DEF StatusInv
<1>2. QED
    BY <1>1, StatusInvariant, PTL

-----------------------------------------------------------------------------
(* Stock.                                                                    *)

\* consume() on holds that are not CONSUMED yet keeps the books balanced.
LEMMA ConsumeConserves ==
    ASSUME TypeOK, StockConserved, NEW L \in SUBSET Lines, Consume(L),
           \A l \in L : hold[l] # "CONSUMED", booked' = booked
    PROVE  StockConserved'
<1> SUFFICES ASSUME NEW i \in Items
             PROVE  stock'[i] = booked[i] - Quantity(ConsumedOn(i)')
    BY DEF StockConserved
<1>1. ConsumedOn(i)' = ConsumedOn(i) \cup On(L, i)
    BY DEF Consume, ConsumedOn, On, TypeOK
<1>2. ConsumedOn(i) \cap On(L, i) = {}
    BY DEF ConsumedOn, On
<1>3. ConsumedOn(i) \in SUBSET Lines /\ On(L, i) \in SUBSET Lines
    BY DEF ConsumedOn, On
<1>4. Quantity(ConsumedOn(i) \cup On(L, i)) = Quantity(ConsumedOn(i)) + Quantity(On(L, i))
    BY <1>2, <1>3, QuantityUnion
<1>5. Quantity(ConsumedOn(i)') = Quantity(ConsumedOn(i)) + Quantity(On(L, i))
    BY <1>1, <1>4, Zenon
<1>6. Quantity(ConsumedOn(i)) \in Nat /\ Quantity(On(L, i)) \in Nat
    BY <1>3, QuantityNat
<1>7. stock'[i] = stock[i] - Quantity(On(L, i))
    BY DEF Consume
<1>8. stock[i] = booked[i] - Quantity(ConsumedOn(i)) /\ stock[i] \in Int /\ booked[i] \in Int
    BY DEF StockConserved, TypeOK
<1>9. QED
    BY <1>5, <1>6, <1>7, <1>8

\* The committed stock is always the other rows of the ledger less what the
\* CONSUMED holds took: no interleaving of captures, sweeps, cancellations
\* and staff requests makes the two drift apart.
THEOREM StockIsConserved == Spec => []StockConserved
<1>1. Init => StockConserved
  <2> SUFFICES ASSUME Init, NEW i \in Items
               PROVE  stock[i] = booked[i] - Quantity(ConsumedOn(i))
    BY DEF StockConserved
  <2>1. ConsumedOn(i) = {}
    BY DEF Init, ConsumedOn, On
  <2>2. Quantity(ConsumedOn(i)) = 0
    BY <2>1, QuantityEmpty, Zenon
  <2>3. QED
    BY <2>2 DEF Init
<1>2. TypeOK /\ StatusInv /\ StockConserved /\ [Next]_vars => StockConserved'
  <2> SUFFICES ASSUME TypeOK, StatusInv, StockConserved, [Next]_vars
               PROVE  StockConserved'
    OBVIOUS
  <2>0. ASSUME \A i \in Items : ConsumedOn(i)' = ConsumedOn(i),
               \A i \in Items : stock'[i] - stock[i] = booked'[i] - booked[i],
               TypeOK'
        PROVE  StockConserved'
    <3> SUFFICES ASSUME NEW i \in Items
                 PROVE  stock'[i] = booked'[i] - Quantity(ConsumedOn(i)')
      BY DEF StockConserved
    <3>1. Quantity(ConsumedOn(i)') = Quantity(ConsumedOn(i))
      BY <2>0, Zenon
    <3>2. Quantity(ConsumedOn(i)) \in Nat
      BY QuantityNat DEF ConsumedOn, On
    <3>3. stock[i] = booked[i] - Quantity(ConsumedOn(i))
      BY DEF StockConserved
    <3>4. QED
      BY <2>0, <3>1, <3>2, <3>3 DEF TypeOK
  <2>00. TypeOK'
    BY TypeStep
  <2> USE LinesAssumption, AmountsAssumption DEF TypeOK
  <2>1. ASSUME NEW o \in Orders, PlaceOnline(o)
        PROVE  StockConserved'
    <3>1. \A l \in TrackedLines(o) : l \in Lines /\ hold[l] = "NONE"
      BY <2>1 DEF PlaceOnline, TrackedLines, LinesOf, StatusInv
    <3>2. \A l \in Lines : hold'[l] = "CONSUMED" <=> hold[l] = "CONSUMED"
      BY <2>1, <3>1 DEF PlaceOnline
    <3>3. \A i \in Items : ConsumedOn(i)' = ConsumedOn(i)
      BY <3>2 DEF ConsumedOn, On
    <3>4. stock' = stock /\ booked' = booked
      BY <2>1 DEF PlaceOnline
    <3>5. QED
      BY <2>0, <2>00, <3>3, <3>4
  <2>2. ASSUME NEW o \in Orders, PlaceOffline(o)
        PROVE  StockConserved'
    <3>1. TrackedLines(o) \in SUBSET Lines
      BY DEF TrackedLines, LinesOf
    <3>2. \A l \in TrackedLines(o) : hold[l] # "CONSUMED"
      BY <2>2 DEF PlaceOffline, TrackedLines, LinesOf, StatusInv
    <3>3. Consume(TrackedLines(o)) /\ booked' = booked
      BY <2>2 DEF PlaceOffline
    <3>4. QED
      BY <3>1, <3>2, <3>3, ConsumeConserves
  <2>4. ASSUME NEW o \in Orders, CaptureCommit(o)
        PROVE  StockConserved'
    <3>1. capturing[o] \in SUBSET Lines
      OBVIOUS
    <3>2. \A l \in capturing[o] : hold[l] # "CONSUMED"
      BY DEF StatusInv
    <3>3. Consume(capturing[o]) /\ booked' = booked
      BY <2>4 DEF CaptureCommit
    <3>4. QED
      BY <3>1, <3>2, <3>3, ConsumeConserves
  <2>6. ASSUME NEW o \in Orders, Release(o)
        PROVE  StockConserved'
    <3>1. \A i \in Items : ConsumedOn(i)' = ConsumedOn(i)
      BY <2>6 DEF Release, ActiveLines, ConsumedOn, On
    <3>2. stock' = stock /\ booked' = booked
      BY <2>6 DEF Release
    <3>3. QED
      BY <2>0, <2>00, <3>1, <3>2
  <2>7. ASSUME NEW o \in Orders, RestoreSales(o)
        PROVE  StockConserved'
    <3> DEFINE L == {l \in LinesOf(o) : sold[l] > 0}
    <3>1. \A i \in Items : Quantity(On(L, i)) \in Nat
      BY QuantityNat DEF On, LinesOf
    <3>2. \A i \in Items : ConsumedOn(i)' = ConsumedOn(i)
      BY <2>7 DEF RestoreSales, ConsumedOn, On
    <3> HIDE DEF L
    <3>3. \A i \in Items : /\ stock'[i] = stock[i] + Quantity(On(L, i))
                           /\ booked'[i] = booked[i] + Quantity(On(L, i))
      BY <2>7 DEF RestoreSales, L
    <3>4. \A i \in Items : stock'[i] - stock[i] = booked'[i] - booked[i]
      BY <3>1, <3>3
    <3>5. QED
      BY <2>0, <2>00, <3>2, <3>4
  <2>8. ASSUME NEW i \in Items, NEW q \in Amounts \cup {0}, CreateItem(i, q)
        PROVE  StockConserved'
    <3>1. \A j \in Items : ConsumedOn(j)' = ConsumedOn(j)
      BY <2>8 DEF CreateItem, ConsumedOn, On
    <3>2. \A j \in Items : stock'[j] - stock[j] = booked'[j] - booked[j]
      BY <2>8 DEF CreateItem, StatusInv
    <3>3. QED
      BY <2>0, <2>00, <3>1, <3>2
  <2>9. ASSUME NEW i \in Items, NEW q \in Amounts, Restock(i, q)
        PROVE  StockConserved'
    <3>1. \A j \in Items : ConsumedOn(j)' = ConsumedOn(j)
      BY <2>9 DEF Restock, ConsumedOn, On
    <3>2. \A j \in Items : stock'[j] - stock[j] = booked'[j] - booked[j]
      BY <2>9 DEF Restock
    <3>3. QED
      BY <2>0, <2>00, <3>1, <3>2
  <2>11. ASSUME NEW i \in Items, NEW a \in Admins, NEW d \in Deltas,
                AdjustCommit(a, i, d)
         PROVE  StockConserved'
    <3>1. \A j \in Items : ConsumedOn(j)' = ConsumedOn(j)
      BY <2>11 DEF AdjustCommit, ConsumedOn, On
    <3>2. \A j \in Items : stock'[j] - stock[j] = booked'[j] - booked[j]
      BY <2>11 DEF AdjustCommit, Deltas
    <3>3. QED
      BY <2>0, <2>00, <3>1, <3>2
  <2>12. CASE Sweep
    <3>1. \A i \in Items : ConsumedOn(i)' = ConsumedOn(i)
      BY <2>12 DEF Sweep, Overdue, ConsumedOn, On
    <3>2. stock' = stock /\ booked' = booked
      BY <2>12 DEF Sweep
    <3>3. QED
      BY <2>0, <2>00, <3>1, <3>2
  <2>13. ASSUME hold' = hold, stock' = stock, booked' = booked
         PROVE  StockConserved'
    <3>1. \A i \in Items : ConsumedOn(i)' = ConsumedOn(i)
      BY <2>13 DEF ConsumedOn, On
    <3>2. QED
      BY <2>0, <2>00, <2>13, <3>1
  <2>14. ASSUME NEW o \in Orders, CaptureRead(o) \/ CaptureAbort(o)
         PROVE  StockConserved'
    BY <2>13, <2>14 DEF CaptureRead, CaptureAbort
  <2>15. ASSUME NEW i \in Items, NEW a \in Admins, NEW d \in Deltas,
                AdjustCheck(a, i, d)
         PROVE  StockConserved'
    BY <2>13, <2>15 DEF AdjustCheck
  <2>16. CASE Tick \/ UNCHANGED vars
    BY <2>13, <2>16 DEF Tick, vars
  <2>17. QED
    BY <2>1, <2>2, <2>4, <2>6, <2>7, <2>8, <2>9, <2>11, <2>12, <2>14, <2>15,
       <2>16 DEF Next, OrderNext, StaffNext
<1>3. QED
    BY <1>1, <1>2, TypeCorrect, StatusInvariant, PTL DEF Spec

\* A step that leaves no new live hold and takes no unbacked stock is safe.
LEMMA ShrinkingStep ==
    ASSUME TypeOK, TypeOK', HoldsBacked,
           \A i \in Items : On(Live, i)' \in SUBSET On(Live, i),
           \A i \in Items : stock[i] + unbacked[i] <= stock'[i] + unbacked'[i]
    PROVE  HoldsBacked'
<1> SUFFICES ASSUME NEW i \in Items
             PROVE  Quantity(On(Live, i)') <= stock'[i] + unbacked'[i]
    BY DEF HoldsBacked, Held
<1>1. On(Live, i) \in SUBSET Lines
    BY DEF On, Live
<1>2. Quantity(On(Live, i)') <= Quantity(On(Live, i))
    BY <1>1, QuantityMonotone
<1>3. Quantity(On(Live, i)) \in Nat /\ Quantity(On(Live, i)') \in Nat
    BY <1>1, QuantityNat
<1>4. Quantity(On(Live, i)) <= stock[i] + unbacked[i]
    BY DEF HoldsBacked, Held
<1>5. QED
    BY <1>2, <1>3, <1>4 DEF TypeOK

\* reserve() on the lines of a new order: they fit beside the live holds.
LEMMA PlaceOnlineBacked ==
    ASSUME TypeOK, StatusInv, HoldsBacked, NEW o \in Orders, PlaceOnline(o)
    PROVE  HoldsBacked'
<1> DEFINE T == TrackedLines(o)
<1>1. T \in SUBSET Lines /\ \A l \in T : hold[l] = "NONE"
    BY DEF PlaceOnline, TrackedLines, LinesOf, StatusInv
<1> SUFFICES ASSUME NEW i \in Items
             PROVE  Quantity(On(Live, i)') <= stock[i] + unbacked[i]
    BY DEF HoldsBacked, Held, PlaceOnline
<1>2. On(Live, i)' = On(Live, i) \cup On(T, i)
    BY <1>1, AmountsAssumption DEF PlaceOnline, On, Live, TypeOK
<1>3. /\ On(Live, i) \in SUBSET Lines
      /\ On(T, i) \in SUBSET Lines
      /\ On(Live, i) \cap On(T, i) = {}
    BY <1>1 DEF On, Live
<1>4. Quantity(On(Live, i) \cup On(T, i)) = Quantity(On(Live, i)) + Quantity(On(T, i))
    BY <1>3, QuantityUnion
<1>5. Quantity(On(Live, i)') = Quantity(On(Live, i)) + Quantity(On(T, i))
    BY <1>2, <1>4, Zenon
<1>6. Quantity(On(Live, i)) \in Nat /\ Quantity(On(T, i)) \in Nat
    BY <1>3, QuantityNat
<1>7. CASE On(T, i) = {}
  <2>1. Quantity(On(T, i)) = 0
    BY <1>7, QuantityEmpty, Zenon
  <2>2. QED
    BY <1>5, <1>6, <2>1 DEF HoldsBacked, Held
<1>8. CASE On(T, i) # {}
  <2>1. Quantity(On(T, i)) <= stock[i] - Quantity(On(Live, i))
    BY <1>8 DEF PlaceOnline, Fits, Available, Held, On
  <2>2. QED
    BY <1>5, <1>6, <2>1 DEF TypeOK
<1>9. QED
    BY <1>7, <1>8

\* A sale on the spot takes only what the live holds leave.
LEMMA PlaceOfflineBacked ==
    ASSUME TypeOK, StatusInv, HoldsBacked, NEW o \in Orders, PlaceOffline(o)
    PROVE  HoldsBacked'
<1> DEFINE T == TrackedLines(o)
<1>1. T \in SUBSET Lines /\ \A l \in T : hold[l] = "NONE"
    BY DEF PlaceOffline, TrackedLines, LinesOf, StatusInv
<1> SUFFICES ASSUME NEW i \in Items
             PROVE  Quantity(On(Live, i)') <= stock'[i] + unbacked[i]
    BY DEF HoldsBacked, Held, PlaceOffline
<1>2. On(Live, i)' = On(Live, i)
    BY <1>1 DEF PlaceOffline, Consume, On, Live, TypeOK
<1>3. On(Live, i) \in SUBSET Lines /\ On(T, i) \in SUBSET Lines
    BY <1>1 DEF On, Live
<1>4. Quantity(On(Live, i)') = Quantity(On(Live, i))
    BY <1>2, Zenon
<1>5. Quantity(On(Live, i)) \in Nat /\ Quantity(On(T, i)) \in Nat
    BY <1>3, QuantityNat
<1>6. stock'[i] = stock[i] - Quantity(On(T, i))
    BY DEF PlaceOffline, Consume
<1>7. CASE On(T, i) = {}
  <2>1. Quantity(On(T, i)) = 0
    BY <1>7, QuantityEmpty, Zenon
  <2>2. QED
    BY <1>4, <1>5, <1>6, <2>1 DEF HoldsBacked, Held, TypeOK
<1>8. CASE On(T, i) # {}
  <2>1. Quantity(On(T, i)) <= stock[i] - Quantity(On(Live, i))
    BY <1>8 DEF PlaceOffline, Fits, Available, Held, On
  <2>2. QED
    BY <1>4, <1>5, <1>6, <2>1 DEF TypeOK
<1>9. QED
    BY <1>7, <1>8

\* A capture takes its live holds and their stock together; what it takes
\* for lapsed holds is added to unbacked.
LEMMA CaptureBacked ==
    ASSUME TypeOK, StatusInv, HoldsBacked, NEW o \in Orders, CaptureCommit(o)
    PROVE  HoldsBacked'
<1> DEFINE C == capturing[o]
<1>1. C \in SUBSET Lines
    BY DEF TypeOK
<1> SUFFICES ASSUME NEW i \in Items
             PROVE  Quantity(On(Live, i)') <= stock'[i] + unbacked'[i]
    BY DEF HoldsBacked, Held
<1> DEFINE Both == On(Live \cap C, i)
           Rest == On(Live \ C, i)
           Lapsed == On(C \ Live, i)
<1>2. On(Live, i)' = Rest
    BY <1>1 DEF CaptureCommit, Consume, On, Live, TypeOK
<1>3. /\ Both \in SUBSET Lines
      /\ Rest \in SUBSET Lines
      /\ Lapsed \in SUBSET Lines
    BY <1>1 DEF On, Live
<1>4. Both \cap Rest = {} /\ Both \cap Lapsed = {}
    BY DEF On
<1>5. On(Live, i) = Both \cup Rest /\ On(C, i) = Both \cup Lapsed
    BY <1>1 DEF On, Live
<1>6. stock'[i] = stock[i] - Quantity(On(C, i))
    BY DEF CaptureCommit, Consume
<1>7. unbacked'[i] = unbacked[i] + Quantity(Lapsed)
    BY DEF CaptureCommit
<1> HIDE DEF C, Both, Rest, Lapsed
<1>8. Quantity(Both \cup Rest) = Quantity(Both) + Quantity(Rest)
    BY <1>3, <1>4, QuantityUnion
<1>9. Quantity(Both \cup Lapsed) = Quantity(Both) + Quantity(Lapsed)
    BY <1>3, <1>4, QuantityUnion
<1>10. /\ Quantity(On(Live, i)) = Quantity(Both) + Quantity(Rest)
       /\ Quantity(On(C, i)) = Quantity(Both) + Quantity(Lapsed)
       /\ Quantity(On(Live, i)') = Quantity(Rest)
    BY <1>2, <1>5, <1>8, <1>9, Zenon
<1>11. /\ Quantity(Both) \in Nat
       /\ Quantity(Rest) \in Nat
       /\ Quantity(Lapsed) \in Nat
    BY <1>3, QuantityNat
<1>12. Quantity(On(Live, i)) <= stock[i] + unbacked[i]
    BY DEF HoldsBacked, Held
<1>13. stock[i] \in Int /\ unbacked[i] \in Nat
    BY DEF TypeOK
<1>14. QED
    BY <1>6, <1>7, <1>10, <1>11, <1>12, <1>13

\* No two orders hold or buy stock that does not exist, except by exactly
\* the quantity staff removed or lapsed holds still consumed: the shortfall
\* of an item never exceeds unbacked.
THEOREM HoldsAreBacked == Spec => []HoldsBacked
<1>1. Init => HoldsBacked
  <2> SUFFICES ASSUME Init, NEW i \in Items
               PROVE  Quantity(On(Live, i)) <= stock[i] + unbacked[i]
    BY DEF HoldsBacked, Held
  <2>1. On(Live, i) = {}
    BY DEF Init, Live, On
  <2>2. Quantity(On(Live, i)) = 0
    BY <2>1, QuantityEmpty, Zenon
  <2>3. QED
    BY <2>2 DEF Init
<1>2. TypeOK /\ StatusInv /\ HoldsBacked /\ [Next]_vars => HoldsBacked'
  <2> SUFFICES ASSUME TypeOK, StatusInv, HoldsBacked, [Next]_vars
               PROVE  HoldsBacked'
    OBVIOUS
  <2>0. TypeOK'
    BY TypeStep
  <2>1. ASSUME \A i \in Items : On(Live, i)' \in SUBSET On(Live, i),
               stock' = stock, unbacked' = unbacked
        PROVE  HoldsBacked'
    BY <2>0, <2>1, ShrinkingStep DEF TypeOK
  <2>2. ASSUME hold' = hold, expiresAt' = expiresAt, now' = now,
               \A i \in Items : stock[i] + unbacked[i] <= stock'[i] + unbacked'[i]
        PROVE  HoldsBacked'
    <3>1. \A i \in Items : On(Live, i)' \in SUBSET On(Live, i)
      BY <2>2 DEF On, Live
    <3>2. QED
      BY <2>0, <2>2, <3>1, ShrinkingStep
  <2>3. ASSUME NEW o \in Orders, PlaceOnline(o) \/ PlaceOffline(o) \/ CaptureCommit(o)
        PROVE  HoldsBacked'
    BY <2>3, PlaceOnlineBacked, PlaceOfflineBacked, CaptureBacked
  <2>4. ASSUME NEW o \in Orders, CaptureRead(o) \/ CaptureAbort(o)
        PROVE  HoldsBacked'
    BY <2>2, <2>4 DEF CaptureRead, CaptureAbort, TypeOK
  <2>5. ASSUME NEW o \in Orders, Release(o)
        PROVE  HoldsBacked'
    BY <2>1, <2>5 DEF Release, On, Live
  <2>6. ASSUME NEW o \in Orders, RestoreSales(o)
        PROVE  HoldsBacked'
    <3> DEFINE L == {l \in LinesOf(o) : sold[l] > 0}
    <3>1. \A i \in Items : Quantity(On(L, i)) \in Nat
      BY QuantityNat DEF On, LinesOf
    <3> HIDE DEF L
    <3>2. \A i \in Items : stock'[i] = stock[i] + Quantity(On(L, i))
      BY <2>6 DEF RestoreSales, L
    <3>3. \A i \in Items : stock[i] + unbacked[i] <= stock'[i] + unbacked'[i]
      BY <2>6, <3>1, <3>2 DEF RestoreSales, TypeOK
    <3>4. QED
      BY <2>2, <2>6, <3>3 DEF RestoreSales
  <2>7. ASSUME NEW i \in Items, NEW q \in Amounts \cup {0}, CreateItem(i, q)
        PROVE  HoldsBacked'
    BY <2>2, <2>7, AmountsAssumption DEF CreateItem, StatusInv, TypeOK
  <2>8. ASSUME NEW i \in Items, NEW q \in Amounts, Restock(i, q)
        PROVE  HoldsBacked'
    BY <2>2, <2>8, AmountsAssumption DEF Restock, TypeOK
  <2>9. ASSUME NEW i \in Items, NEW a \in Admins, NEW d \in Deltas,
               AdjustCheck(a, i, d)
        PROVE  HoldsBacked'
    BY <2>2, <2>9 DEF AdjustCheck, TypeOK
  <2>10. ASSUME NEW i \in Items, NEW a \in Admins, NEW d \in Deltas,
                AdjustCommit(a, i, d)
         PROVE  HoldsBacked'
    <3>1. d \in Int
      BY AmountsAssumption DEF Deltas
    <3>2. \A j \in Items : stock[j] + unbacked[j] <= stock'[j] + unbacked'[j]
      BY <2>10, <3>1 DEF AdjustCommit, TypeOK
    <3>3. QED
      BY <2>2, <2>10, <3>2 DEF AdjustCommit
  <2>11. CASE Sweep
    BY <2>1, <2>11 DEF Sweep, Overdue, On, Live
  <2>12. CASE Tick
    BY <2>1, <2>12 DEF Tick, On, Live, TypeOK
  <2>13. CASE UNCHANGED vars
    BY <2>2, <2>13 DEF vars, TypeOK
  <2>14. QED
    BY <2>3, <2>4, <2>5, <2>6, <2>7, <2>8, <2>9, <2>10, <2>11, <2>12, <2>13
    DEF Next, OrderNext, StaffNext
<1>3. QED
    BY <1>1, <1>2, TypeCorrect, StatusInvariant, PTL DEF Spec

-----------------------------------------------------------------------------
(* The other two.                                                            *)

\* CONSUMED and RELEASED are final, and an EXPIRED hold is only ever left for
\* CONSUMED, by a capture that was open when the sweep ran.
THEOREM HoldsSettleOnce == Spec => SettledOnce
<1>1. TypeOK /\ StatusInv /\ [Next]_vars => [SettleStep]_vars
  <2> SUFFICES ASSUME TypeOK, StatusInv, Next
               PROVE  SettleStep
    BY DEF vars
  <2> USE LinesAssumption DEF TypeOK, StatusInv, SettleStep
  <2>1. ASSUME NEW o \in Orders, PlaceOnline(o) \/ PlaceOffline(o)
        PROVE  SettleStep
    BY <2>1 DEF PlaceOnline, PlaceOffline, Consume, TrackedLines, LinesOf
  <2>2. ASSUME NEW o \in Orders, CaptureCommit(o)
        PROVE  SettleStep
    BY <2>2 DEF CaptureCommit, Consume
  <2>3. ASSUME NEW o \in Orders, Release(o)
        PROVE  SettleStep
    BY <2>3 DEF Release, ActiveLines, LinesOf
  <2>4. CASE Sweep
    BY <2>4 DEF Sweep, Overdue
  <2>5. CASE hold' = hold
    BY <2>5
  <2>6. QED
    BY <2>1, <2>2, <2>3, <2>4, <2>5
    DEF Next, OrderNext, StaffNext, CaptureRead, CaptureAbort, RestoreSales,
        CreateItem, Restock, AdjustCheck, AdjustCommit, Tick
<1>2. QED
    BY <1>1, TypeCorrect, StatusInvariant, PTL DEF Spec, SettledOnce

\* consume() announces what it brings to the threshold or below.
LEMMA ConsumeAnnounces ==
    ASSUME TypeOK, StatusInv, LowStockAnnounced,
           NEW L \in SUBSET Lines, Consume(L)
    PROVE  LowStockAnnounced'
<1> SUFFICES ASSUME NEW l \in Lines, sold'[l] > 0, ItemOf[l] \notin lowStock'
             PROVE  stock'[ItemOf[l]] > Threshold[ItemOf[l]]
    BY DEF LowStockAnnounced
<1> DEFINE i == ItemOf[l]
<1>1. i \in Items
    BY LinesAssumption
<1>2. stock'[i] = stock[i] - Quantity(On(L, i)) /\ stock'[i] \in Int
    BY <1>1, ConsumeTypes DEF Consume
<1>3. CASE i \in {ItemOf[m] : m \in L}
    BY <1>1, <1>2, <1>3, AmountsAssumption DEF Consume, FlagLow
<1>4. CASE i \notin {ItemOf[m] : m \in L}
  <2>1. On(L, i) = {} /\ l \notin L
    BY <1>4 DEF On
  <2>2. Quantity(On(L, i)) = 0
    BY <2>1, QuantityEmpty, Zenon
  <2>3. sold[l] > 0 /\ i \notin lowStock
    BY <2>1 DEF Consume, FlagLow
  <2>4. stock[i] > Threshold[i]
    BY <2>3 DEF LowStockAnnounced
  <2>5. QED
    BY <1>1, <1>2, <2>2, <2>4 DEF TypeOK
<1>5. QED
    BY <1>3, <1>4

\* Stock never reaches its threshold by a sale, an adjustment or a wastage
\* without an INVENTORY_LOW event in the outbox.
THEOREM LowStockIsAnnounced == Spec => []LowStockAnnounced
<1>1. Init => LowStockAnnounced
    BY DEF Init, LowStockAnnounced
<1>2. TypeOK /\ StatusInv /\ LowStockAnnounced /\ [Next]_vars => LowStockAnnounced'
  <2> SUFFICES ASSUME TypeOK, StatusInv, LowStockAnnounced, [Next]_vars
               PROVE  LowStockAnnounced'
    OBVIOUS
  <2>1. ASSUME NEW o \in Orders, PlaceOffline(o) \/ CaptureCommit(o)
        PROVE  LowStockAnnounced'
    <3>1. TrackedLines(o) \in SUBSET Lines /\ capturing[o] \in SUBSET Lines
      BY DEF TrackedLines, LinesOf, TypeOK
    <3>2. QED
      BY <2>1, <3>1, ConsumeAnnounces DEF PlaceOffline, CaptureCommit
  <2>2. ASSUME sold' = sold, lowStock' = lowStock,
               \A i \in tracked : stock[i] <= stock'[i],
               TypeOK'
        PROVE  LowStockAnnounced'
    <3> SUFFICES ASSUME NEW l \in Lines, sold[l] > 0, ItemOf[l] \notin lowStock
                 PROVE  stock'[ItemOf[l]] > Threshold[ItemOf[l]]
      BY <2>2 DEF LowStockAnnounced
    <3>1. ItemOf[l] \in tracked
      BY DEF StatusInv, SaleIffConsumed
    <3>2. stock[ItemOf[l]] > Threshold[ItemOf[l]]
      BY DEF LowStockAnnounced
    <3>3. QED
      BY <2>2, <3>1, <3>2, AmountsAssumption, LinesAssumption DEF TypeOK
  <2>3. TypeOK'
    BY TypeStep
  <2>4. CASE sold' = sold /\ lowStock' = lowStock /\ stock' = stock
    BY <2>2, <2>3, <2>4 DEF TypeOK
  <2>5. ASSUME NEW o \in Orders, RestoreSales(o)
        PROVE  LowStockAnnounced'
    <3> DEFINE L == {l \in LinesOf(o) : sold[l] > 0}
    <3>1. \A i \in Items : Quantity(On(L, i)) \in Nat
      BY QuantityNat DEF On, LinesOf
    <3> HIDE DEF L
    <3>2. \A i \in Items : stock'[i] = stock[i] + Quantity(On(L, i))
      BY <2>5 DEF RestoreSales, L
    <3>3. \A i \in tracked : stock[i] <= stock'[i]
      BY <3>1, <3>2 DEF TypeOK
    <3>4. QED
      BY <2>2, <2>3, <2>5, <3>3 DEF RestoreSales
  <2>6. ASSUME NEW i \in Items, NEW q \in Amounts \cup {0}, CreateItem(i, q)
        PROVE  LowStockAnnounced'
    BY <2>2, <2>3, <2>6 DEF CreateItem, TypeOK
  <2>7. ASSUME NEW i \in Items, NEW q \in Amounts, Restock(i, q)
        PROVE  LowStockAnnounced'
    BY <2>2, <2>3, <2>7, AmountsAssumption DEF Restock, TypeOK
  <2>8. ASSUME NEW i \in Items, NEW a \in Admins, NEW d \in Deltas,
               AdjustCommit(a, i, d)
        PROVE  LowStockAnnounced'
    <3> SUFFICES ASSUME NEW l \in Lines, sold[l] > 0, ItemOf[l] \notin lowStock'
                 PROVE  stock'[ItemOf[l]] > Threshold[ItemOf[l]]
      BY <2>8 DEF LowStockAnnounced, AdjustCommit
    <3>1. ItemOf[l] \in Items /\ stock'[ItemOf[l]] \in Int
      BY <2>3, LinesAssumption DEF TypeOK
    <3>2. CASE ItemOf[l] = i
      BY <2>8, <3>1, <3>2, AmountsAssumption DEF AdjustCommit, FlagLow
    <3>3. CASE ItemOf[l] # i
      BY <2>8, <3>1, <3>3 DEF AdjustCommit, FlagLow, LowStockAnnounced, TypeOK
    <3>4. QED
      BY <3>2, <3>3
  <2>9. QED
    BY <2>1, <2>4, <2>5, <2>6, <2>7, <2>8
    DEF Next, OrderNext, StaffNext, PlaceOnline, CaptureRead, CaptureAbort,
        Release, AdjustCheck, Sweep, Tick, vars
<1>3. QED
    BY <1>1, <1>2, TypeCorrect, StatusInvariant, PTL DEF Spec

============================================================================
