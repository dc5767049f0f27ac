---------------------------- MODULE OrderProofs -----------------------------
(***************************************************************************)
(* Theorems about OrderLifecycle, for any number of orders, staff and      *)
(* requests in hand, and about LiveOrders, for any number of users and     *)
(* views as well.  RequestInv ties a request in hand to the table and a    *)
(* status to the rows written with it.  The screens only use the order     *)
(* service, so that everything proved of OrderLifecycle holds with them;   *)
(* and a screen that shows something else than the database is being       *)
(* refreshed or has a known cause.                                         *)
(***************************************************************************)
EXTENDS LiveOrders, FiniteSetTheorems, TLAPS

-----------------------------------------------------------------------------
(* Rows of the history.                                                      *)

Row == (Statuses \cup {"NONE"}) \X Statuses

\* One row more: the others keep their place, and other orders their rows.
LEMMA AppendRow ==
    ASSUME TypeOK, NEW o \in Orders, NEW row \in Row,
           history' = [history EXCEPT ![o] = Append(@, row)]
    PROVE  /\ history' \in [Orders -> Seq(Row)]
           /\ history[o] \in Seq(Row)
           /\ history'[o] \in Seq(Row)
           /\ Len(history'[o]) = Len(history[o]) + 1
           /\ history'[o][Len(history'[o])] = row
           /\ history'[o] # <<>>
           /\ \A k \in 1..Len(history[o]) : history'[o][k] = history[o][k]
           /\ \A p \in Orders \ {o} : history'[p] = history[p]
<1>1. history \in [Orders -> Seq(Row)]
    BY DEF TypeOK, Row
<1>2. history'[o] = Append(history[o], row) /\ history[o] \in Seq(Row)
    BY <1>1
<1>3. history' \in [Orders -> Seq(Row)]
    BY <1>1, <1>2
<1>4. QED
    BY <1>1, <1>2, <1>3

-----------------------------------------------------------------------------
(* Type correctness.                                                         *)

\* Every step keeps every variable in its range.
LEMMA TypeStep ==
    ASSUME TypeOK, [Next]_vars
    PROVE  TypeOK'
<1> USE LifecycleAssumption DEF TypeOK, Statuses
<1>1. ASSUME NEW o \in Orders, Place(o)
      PROVE  TypeOK'
    BY <1>1 DEF Place
<1>2. ASSUME NEW o \in Orders, Capture(o)
      PROVE  TypeOK'
    BY <1>2 DEF Capture
<1>3. ASSUME NEW o \in Orders, NEW a \in Actors, NEW t \in Statuses, ReadOrder(a, o, t)
      PROVE  TypeOK'
    BY <1>3 DEF ReadOrder
<1>4. ASSUME NEW o \in Orders, NEW a \in Actors, NEW f \in Statuses, NEW t \in Statuses,
             CommitMove(a, o, f, t)
      PROVE  TypeOK'
  <2>1. <<f, t>> \in Row /\ history' = [history EXCEPT ![o] = Append(@, <<f, t>>)]
    BY <1>4 DEF CommitMove, Row
  <2>2. history' \in [Orders -> Seq(Row)]
    BY <2>1, AppendRow
  <2>3. restored' \in [Orders -> Nat]
    BY <1>4 DEF CommitMove, Restock
  <2>4. QED
    BY <1>4, <2>2, <2>3 DEF CommitMove, Row
<1>5. ASSUME NEW o \in Orders, NEW a \in Actors, NEW f \in Statuses, NEW t \in Statuses,
             DropMove(a, o, f, t)
      PROVE  TypeOK'
    BY <1>5 DEF DropMove
<1>6. CASE UNCHANGED vars
    BY <1>6 DEF vars
<1> HIDE DEF TypeOK, Statuses
<1>7. QED
    BY <1>1, <1>2, <1>3, <1>4, <1>5, <1>6 DEF Next

\* Statuses, history rows and requests in hand stay well formed for ever.
THEOREM TypeCorrect == Spec => []TypeOK
<1>1. Init => TypeOK
    BY DEF Init, TypeOK
<1>2. TypeOK /\ [Next]_vars => TypeOK'
    BY TypeStep
<1>3. QED
    BY <1>1, <1>2, PTL DEF Spec

-----------------------------------------------------------------------------
(* The strengthening.                                                        *)

\* A request in hand passed the table; only a created order has rows,
\* requests, a sale or contention, and an offline order is sold from the start.
RequestInv ==
    /\ HistoryTellsStatus
    /\ \A o \in Orders : status[o] = "NONE" => history[o] = <<>>
    /\ \A r \in inHand : <<r[3], r[4]>> \in Transitions /\ status[r[2]] # "NONE"
    /\ \A o \in contested : status[o] # "NONE"
    /\ \A o \in OfflineOrders : status[o] # "NONE" => o \in sold
    /\ \A o \in Orders : status[o] = "NONE" => restored[o] = 0

\* The table leads from an open status to a status other than PENDING.
LEMMA TableEdges ==
    ASSUME NEW f, NEW t, <<f, t>> \in Transitions
    PROVE  f \in Statuses \ Terminal /\ t \in Statuses \ {"PENDING"}
BY DEF Transitions, Statuses, Terminal

\* RequestInv holds in every reachable state.
LEMMA RequestInvariant == Spec => []RequestInv
<1>1. Init => RequestInv
    BY LifecycleAssumption DEF Init, RequestInv, HistoryTellsStatus
<1>2. TypeOK /\ RequestInv /\ [Next]_vars => RequestInv'
  <2> SUFFICES ASSUME TypeOK, RequestInv, [Next]_vars
               PROVE  RequestInv'
    OBVIOUS
  <2> USE LifecycleAssumption DEF TypeOK, RequestInv, HistoryTellsStatus
  <2>1. ASSUME NEW o \in Orders, Place(o)
        PROVE  RequestInv'
    <3>1. <<"NONE", "PENDING">> \in Row
          /\ history' = [history EXCEPT ![o] = Append(@, <<"NONE", "PENDING">>)]
      BY <2>1 DEF Place, Row, Statuses
    <3>2. HistoryTellsStatus'
      BY <2>1, <3>1, AppendRow DEF Place
    <3>3. \A p \in Orders : status'[p] = "NONE" => history'[p] = <<>>
      BY <2>1, <3>1, AppendRow DEF Place
    <3>4. \A r \in inHand' : <<r[3], r[4]>> \in Transitions /\ status'[r[2]] # "NONE"
      BY <2>1 DEF Place
    <3>5. QED
      BY <2>1, <3>2, <3>3, <3>4 DEF Place
  <2>2. ASSUME NEW o \in Orders, Capture(o)
        PROVE  RequestInv'
    BY <2>2 DEF Capture
  <2>3. ASSUME NEW o \in Orders, NEW a \in Actors, NEW t \in Statuses, ReadOrder(a, o, t)
        PROVE  RequestInv'
    <3>1. <<status[o], t>> \in Transitions /\ status[o] # "NONE"
      BY <2>3 DEF ReadOrder, Valid
    <3>2. \A r \in inHand' : <<r[3], r[4]>> \in Transitions /\ status'[r[2]] # "NONE"
      <4>1. SUFFICES ASSUME NEW r \in inHand'
                     PROVE  <<r[3], r[4]>> \in Transitions /\ status'[r[2]] # "NONE"
        OBVIOUS
      <4>2. status' = status /\ inHand' = inHand \cup {<<a, o, status[o], t>>}
        BY <2>3 DEF ReadOrder
      <4>3. CASE r \in inHand
        BY <4>2, <4>3
      <4>4. CASE r = <<a, o, status[o], t>>
        <5>1. r[2] = o /\ r[3] = status[o] /\ r[4] = t
          BY <4>4
        <5>2. QED
          BY <3>1, <4>2, <5>1
      <4>5. QED
        BY <4>1, <4>2, <4>3, <4>4
    <3>3. QED
      BY <2>3, <3>2 DEF ReadOrder
  <2>4. ASSUME NEW o \in Orders, NEW a \in Actors, NEW f \in Statuses, NEW t \in Statuses,
               CommitMove(a, o, f, t)
        PROVE  RequestInv'
    <3>1. <<f, t>> \in Row /\ history' = [history EXCEPT ![o] = Append(@, <<f, t>>)]
      BY <2>4 DEF CommitMove, Row
    <3>2. status' = [status EXCEPT ![o] = t] /\ t # "NONE" /\ status[o] # "NONE"
      BY <2>4 DEF CommitMove, Statuses
    <3>3. HistoryTellsStatus'
      BY <3>1, <3>2, AppendRow
    <3>4. \A p \in Orders : status'[p] = "NONE" => history'[p] = <<>>
      BY <3>1, <3>2, AppendRow
    <3>5. \A r \in inHand' : <<r[3], r[4]>> \in Transitions /\ status'[r[2]] # "NONE"
      BY <2>4, <3>2 DEF CommitMove
    <3>6. \A p \in contested' : status'[p] # "NONE"
      BY <2>4, <3>2 DEF CommitMove
    <3>7. \A p \in Orders : status'[p] = "NONE" => restored'[p] = 0
      BY <2>4, <3>2 DEF CommitMove, Restock
    <3>8. QED
      BY <2>4, <3>2, <3>3, <3>4, <3>5, <3>6, <3>7 DEF CommitMove
  <2>5. ASSUME NEW o \in Orders, NEW a \in Actors, NEW f \in Statuses, NEW t \in Statuses,
               DropMove(a, o, f, t)
        PROVE  RequestInv'
    BY <2>5 DEF DropMove
  <2>6. CASE UNCHANGED vars
    BY <2>6 DEF vars
  <2> HIDE DEF TypeOK, RequestInv, HistoryTellsStatus
  <2>7. QED
    BY <2>1, <2>2, <2>3, <2>4, <2>5, <2>6 DEF Next
<1>3. QED
    BY <1>1, <1>2, TypeCorrect, PTL DEF Spec

\* The status column and the last history row never disagree, with any number
\* of overlapping requests.
THEOREM HistoryAgrees == Spec => []HistoryTellsStatus
<1>1. RequestInv => HistoryTellsStatus
    BY DEF RequestInv
<1>2. QED
    BY <1>1, RequestInvariant, PTL

-----------------------------------------------------------------------------
(* Orders without contention walk the table.                                 *)

\* A step that touches neither a history nor contention keeps the paths.
LEMMA PathsKept ==
    ASSUME HistoryIsPath, history' = history, contested' = contested
    PROVE  HistoryIsPath'
BY DEF HistoryIsPath

\* A step keeps every uncontested history a path.
LEMMA PathStep ==
    ASSUME TypeOK, RequestInv, HistoryIsPath, [Next]_vars
    PROVE  HistoryIsPath'
<1> USE LifecycleAssumption
<1>1. ASSUME NEW o \in Orders, Place(o)
      PROVE  HistoryIsPath'
  <2>1. <<"NONE", "PENDING">> \in Row
        /\ history' = [history EXCEPT ![o] = Append(@, <<"NONE", "PENDING">>)]
    BY <1>1 DEF Place, Row, Statuses
  <2>2. history[o] = <<>> /\ contested' = contested
    BY <1>1 DEF Place, RequestInv
  <2>3. Len(history'[o]) = 1 /\ history'[o][1] = <<"NONE", "PENDING">>
    <3>1. Len(history'[o]) = Len(history[o]) + 1
          /\ history'[o][Len(history'[o])] = <<"NONE", "PENDING">>
      BY <2>1, AppendRow
    <3>2. Len(history[o]) = 0
      BY <2>2
    <3>3. QED
      BY <3>1, <3>2
  <2>4. \A p \in Orders \ {o} : history'[p] = history[p]
    BY <2>1, AppendRow
  <2>5. QED
    BY <2>2, <2>3, <2>4 DEF HistoryIsPath
<1>2. ASSUME NEW o \in Orders, Capture(o)
      PROVE  HistoryIsPath'
    BY <1>2, PathsKept DEF Capture
<1>3. ASSUME NEW o \in Orders, NEW a \in Actors, NEW t \in Statuses, ReadOrder(a, o, t)
      PROVE  HistoryIsPath'
    BY <1>3, PathsKept DEF ReadOrder
<1>4. ASSUME NEW o \in Orders, NEW a \in Actors, NEW f \in Statuses, NEW t \in Statuses,
             CommitMove(a, o, f, t)
      PROVE  HistoryIsPath'
  <2>1. <<f, t>> \in Row /\ history' = [history EXCEPT ![o] = Append(@, <<f, t>>)]
    BY <1>4 DEF CommitMove, Row
  <2>2. <<f, t>> \in Transitions /\ status[o] # "NONE"
    <3>1. <<a, o, f, t>> \in inHand
      BY <1>4 DEF CommitMove
    <3>2. QED
      BY <3>1 DEF RequestInv
  <2>3. contested \subseteq contested' /\ (o \notin contested' => status[o] = f)
    BY <1>4 DEF CommitMove
  <2>4. history[o] # <<>> /\ status[o] = history[o][Len(history[o])][2]
    BY <2>2 DEF RequestInv, HistoryTellsStatus
  <2>5. \A p \in Orders \ {o} : history'[p] = history[p]
    BY <2>1, AppendRow
  <2>6. ASSUME o \notin contested', NEW k \in 1..Len(history'[o])
        PROVE  IF k = 1 THEN history'[o][k] = <<"NONE", "PENDING">>
                        ELSE /\ history'[o][k][1] = history'[o][k - 1][2]
                             /\ history'[o][k] \in Transitions
    <3>1. /\ history[o] \in Seq(Row)
          /\ Len(history'[o]) = Len(history[o]) + 1
          /\ history'[o][Len(history'[o])] = <<f, t>>
          /\ \A j \in 1..Len(history[o]) : history'[o][j] = history[o][j]
      BY <2>1, AppendRow
    <3>2. Len(history[o]) \in Nat \ {0}
      BY <2>4, <3>1
    <3>3. \A j \in 1..Len(history[o]) :
             IF j = 1 THEN history[o][j] = <<"NONE", "PENDING">>
                      ELSE /\ history[o][j][1] = history[o][j - 1][2]
                           /\ history[o][j] \in Transitions
      BY <2>3, <2>6 DEF HistoryIsPath
    <3>4. CASE k = Len(history[o]) + 1
      <4>1. k # 1 /\ k - 1 = Len(history[o]) /\ k - 1 \in 1..Len(history[o])
        BY <3>2, <3>4
      <4>2. history'[o][k] = <<f, t>> /\ history'[o][k - 1] = history[o][Len(history[o])]
        BY <3>1, <3>4, <4>1
      <4>3. QED
        BY <2>2, <2>3, <2>4, <2>6, <4>1, <4>2
    <3>5. CASE k \in 1..Len(history[o])
      <4>1. k # 1 => k - 1 \in 1..Len(history[o])
        BY <3>2, <3>5
      <4>2. QED
        BY <3>1, <3>3, <3>5, <4>1
    <3>6. QED
      BY <3>1, <3>2, <3>4, <3>5
  <2>7. ASSUME NEW p \in Orders \ contested', p # o
        PROVE  history'[p] = history[p] /\ p \notin contested
    BY <2>3, <2>5, <2>7
  <2>8. SUFFICES ASSUME NEW p \in Orders \ contested', NEW k \in 1..Len(history'[p])
                 PROVE  IF k = 1 THEN history'[p][k] = <<"NONE", "PENDING">>
                                 ELSE /\ history'[p][k][1] = history'[p][k - 1][2]
                                      /\ history'[p][k] \in Transitions
    BY DEF HistoryIsPath
  <2>9. CASE p = o
    BY <2>6, <2>9
  <2>10. CASE p # o
    BY <2>7, <2>10 DEF HistoryIsPath
  <2>11. QED
    BY <2>9, <2>10
<1>5. ASSUME NEW o \in Orders, NEW a \in Actors, NEW f \in Statuses, NEW t \in Statuses,
             DropMove(a, o, f, t)
      PROVE  HistoryIsPath'
    BY <1>5, PathsKept DEF DropMove
<1>6. CASE UNCHANGED vars
    BY <1>6, PathsKept DEF vars
<1>7. QED
    BY <1>1, <1>2, <1>3, <1>4, <1>5, <1>6 DEF Next

\* The history of an order nobody contended for is a path of the table of
\* order-status.ts from PENDING.
THEOREM HistoryIsAPath == Spec => []HistoryIsPath
<1>1. Init => HistoryIsPath
    BY DEF Init, HistoryIsPath
<1>2. TypeOK /\ RequestInv /\ HistoryIsPath /\ [Next]_vars => HistoryIsPath'
    BY PathStep
<1>3. QED
    BY <1>1, <1>2, TypeCorrect, RequestInvariant, PTL DEF Spec

\* A path of the table stops at the first terminal status.
LEMMA PathsStop ==
    ASSUME TypeOK, HistoryIsPath
    PROVE  TerminalIsLast
<1> SUFFICES ASSUME NEW o \in Orders \ contested, NEW k \in 1..Len(history[o]),
                    history[o][k][2] \in Terminal, k # Len(history[o])
             PROVE  FALSE
    BY DEF TerminalIsLast
<1>1. history[o] \in Seq(Row)
    BY DEF TypeOK, Row
<1>2. k + 1 \in 1..Len(history[o]) /\ k + 1 # 1 /\ (k + 1) - 1 = k
    BY <1>1
<1>3. history[o][k + 1][1] = history[o][k][2] /\ history[o][k + 1] \in Transitions
    BY <1>2 DEF HistoryIsPath
<1>4. history[o][k + 1] = <<history[o][k + 1][1], history[o][k + 1][2]>>
    BY <1>1, <1>2 DEF Row
<1>5. history[o][k + 1][1] \notin Terminal
    BY <1>3, <1>4, TableEdges
<1>6. QED
    BY <1>3, <1>5

\* "Terminal states - no further transitions are permitted from these"
\* (order-status.ts:36) holds of every order nobody contended for.
THEOREM TerminalStays == Spec => []TerminalIsLast
BY PathsStop, TypeCorrect, HistoryIsAPath, PTL

-----------------------------------------------------------------------------
(* Stock given back.                                                         *)

\* A step restores an uncontested order's stock at most once, on the step
\* that cancels it.
LEMMA RestoreStep ==
    ASSUME TypeOK, RequestInv, RestoredExactly, [Next]_vars
    PROVE  RestoredExactly'
<1> USE LifecycleAssumption DEF RestoredExactly
<1>1. ASSUME NEW o \in Orders, Place(o)
      PROVE  RestoredExactly'
    BY <1>1 DEF Place, TypeOK, RequestInv
<1>2. ASSUME NEW o \in Orders, Capture(o)
      PROVE  RestoredExactly'
    BY <1>2 DEF Capture
<1>3. ASSUME NEW o \in Orders, NEW a \in Actors, NEW t \in Statuses, ReadOrder(a, o, t)
      PROVE  RestoredExactly'
    BY <1>3 DEF ReadOrder
<1>4. ASSUME NEW o \in Orders, NEW a \in Actors, NEW f \in Statuses, NEW t \in Statuses,
             CommitMove(a, o, f, t)
      PROVE  RestoredExactly'
  <2>1. f # "CANCELLED" /\ status[o] # "NONE"
    <3>1. <<a, o, f, t>> \in inHand
      BY <1>4 DEF CommitMove
    <3>2. <<f, t>> \in Transitions /\ status[o] # "NONE"
      BY <3>1 DEF RequestInv
    <3>3. QED
      BY <3>2, TableEdges DEF Terminal
  <2>2. /\ status' = [status EXCEPT ![o] = t]
        /\ contested \subseteq contested'
        /\ o \notin contested' => status[o] = f
        /\ Restock(o, t)
    BY <1>4 DEF CommitMove
  <2>3. \A p \in Orders \ {o} : status'[p] = status[p] /\ restored'[p] = restored[p]
    BY <2>2 DEF TypeOK, Restock
  <2>4. ASSUME o \notin contested'
        PROVE  /\ restored'[o] <= IF status'[o] = "CANCELLED" THEN 1 ELSE 0
               /\ o \in OfflineOrders /\ status'[o] = "CANCELLED" => restored'[o] = 1
    <3>1. o \notin contested /\ status[o] # "CANCELLED" /\ restored[o] \in Nat
      BY <2>1, <2>2, <2>4 DEF TypeOK
    <3>2. restored[o] = 0
      BY <3>1
    <3>3. status'[o] = t
      BY <2>2 DEF TypeOK
    <3>4. o \in OfflineOrders => o \in sold
      BY <2>1 DEF RequestInv
    <3>5. QED
      BY <2>2, <3>2, <3>3, <3>4 DEF TypeOK, Restock
  <2>5. QED
    BY <2>2, <2>3, <2>4
<1>5. ASSUME NEW o \in Orders, NEW a \in Actors, NEW f \in Statuses, NEW t \in Statuses,
             DropMove(a, o, f, t)
      PROVE  RestoredExactly'
    BY <1>5 DEF DropMove
<1>6. CASE UNCHANGED vars
    BY <1>6 DEF vars
<1> HIDE DEF RestoredExactly
<1>7. QED
    BY <1>1, <1>2, <1>3, <1>4, <1>5, <1>6 DEF Next

\* Cancelling an order nobody contended for gives its stock back exactly
\* once, and nothing else does (restockCancelledOrder).
THEOREM StockRestoredExactly == Spec => []RestoredExactly
<1>1. Init => RestoredExactly
    BY LifecycleAssumption DEF Init, RestoredExactly
<1>2. TypeOK /\ RequestInv /\ RestoredExactly /\ [Next]_vars => RestoredExactly'
    BY RestoreStep
<1>3. QED
    BY <1>1, <1>2, TypeCorrect, RequestInvariant, PTL DEF Spec

\* One more row: one more CANCELLED row exactly when it cancels.
LEMMA CancelRowsGrow ==
    ASSUME TypeOK, NEW o \in Orders, NEW f \in Statuses \cup {"NONE"}, NEW t \in Statuses,
           history' = [history EXCEPT ![o] = Append(@, <<f, t>>)]
    PROVE  /\ Cardinality(CancelRows(o)) \in Nat
           /\ Cardinality(CancelRows(o)') = Cardinality(CancelRows(o))
                                            + (IF t = "CANCELLED" THEN 1 ELSE 0)
<1>1. <<f, t>> \in Row
    BY DEF Row
<1>2. /\ history[o] \in Seq(Row)
      /\ Len(history'[o]) = Len(history[o]) + 1
      /\ history'[o][Len(history'[o])] = <<f, t>>
      /\ \A k \in 1..Len(history[o]) : history'[o][k] = history[o][k]
    BY <1>1, AppendRow
<1> DEFINE n == Len(history[o])
<1>3. n \in Nat
    BY <1>2
<1>4. IsFiniteSet(CancelRows(o)) /\ n + 1 \notin CancelRows(o)
  <2>1. IsFiniteSet(1..n)
    BY <1>3, FS_Interval
  <2>2. CancelRows(o) \subseteq 1..n
    BY DEF CancelRows
  <2>3. QED
    BY <1>3, <2>1, <2>2, FS_Subset
<1>5. CASE t = "CANCELLED"
  <2>1. CancelRows(o)' = CancelRows(o) \cup {n + 1}
    BY <1>2, <1>3, <1>5 DEF CancelRows
  <2>2. QED
    BY <1>4, <1>5, <2>1, FS_AddElement, FS_CardinalityType
<1>6. CASE t # "CANCELLED"
  <2>1. CancelRows(o)' = CancelRows(o)
    BY <1>2, <1>3, <1>6 DEF CancelRows
  <2>2. Cardinality(CancelRows(o)) \in Nat
    BY <1>4, FS_CardinalityType
  <2>3. QED
    BY <1>6, <2>1, <2>2
<1>7. QED
    BY <1>5, <1>6

\* Where neither a history nor restored changes, nothing is left unaccounted.
LEMMA AccountsKept ==
    ASSUME RestoresAccounted, history' = history, restored' = restored
    PROVE  RestoresAccounted'
BY DEF RestoresAccounted, CancelRows

\* A step writes a CANCELLED row with every restoration.
LEMMA AccountStep ==
    ASSUME TypeOK, RestoresAccounted, [Next]_vars
    PROVE  RestoresAccounted'
<1>1. ASSUME NEW o \in Orders, NEW f \in Statuses \cup {"NONE"}, NEW t \in Statuses,
             history' = [history EXCEPT ![o] = Append(@, <<f, t>>)],
             restored' = restored \/ Restock(o, t),
             restored'[o] <= restored[o] + (IF t = "CANCELLED" THEN 1 ELSE 0)
      PROVE  RestoresAccounted'
  <2>1. \A p \in Orders \ {o} : restored'[p] = restored[p] /\ history'[p] = history[p]
    BY <1>1 DEF TypeOK, Restock
  <2>2. restored[o] \in Nat /\ restored'[o] \in Nat
    BY <1>1 DEF TypeOK, Restock
  <2>3. restored'[o] <= Cardinality(CancelRows(o)')
    <3>1. /\ Cardinality(CancelRows(o)) \in Nat
          /\ Cardinality(CancelRows(o)') = Cardinality(CancelRows(o))
                                           + (IF t = "CANCELLED" THEN 1 ELSE 0)
      BY <1>1, CancelRowsGrow
    <3>2. restored[o] <= Cardinality(CancelRows(o))
      BY DEF RestoresAccounted
    <3>3. QED
      BY <1>1, <2>2, <3>1, <3>2
  <2>4. ASSUME NEW p \in Orders \ {o}
        PROVE  restored'[p] <= Cardinality(CancelRows(p)')
    <3>1. CancelRows(p)' = CancelRows(p)
      BY <2>1 DEF CancelRows
    <3>2. QED
      BY <2>1, <3>1 DEF RestoresAccounted
  <2>5. QED
    BY <2>3, <2>4 DEF RestoresAccounted
<1>2. ASSUME NEW o \in Orders, Place(o)
      PROVE  RestoresAccounted'
  <2>1. "PENDING" \in Statuses /\ "NONE" \in Statuses \cup {"NONE"}
    BY DEF Statuses
  <2>2. restored' = restored /\ restored[o] \in Nat
        /\ history' = [history EXCEPT ![o] = Append(@, <<"NONE", "PENDING">>)]
    BY <1>2 DEF Place, TypeOK
  <2>3. restored'[o] <= restored[o] + (IF "PENDING" = "CANCELLED" THEN 1 ELSE 0)
    BY <2>2
  <2>4. QED
    BY <1>1, <2>1, <2>2, <2>3
<1>3. ASSUME NEW o \in Orders, Capture(o)
      PROVE  RestoresAccounted'
    BY <1>3, AccountsKept DEF Capture
<1>4. ASSUME NEW o \in Orders, NEW a \in Actors, NEW t \in Statuses, ReadOrder(a, o, t)
      PROVE  RestoresAccounted'
    BY <1>4, AccountsKept DEF ReadOrder
<1>5. ASSUME NEW o \in Orders, NEW a \in Actors, NEW f \in Statuses, NEW t \in Statuses,
             CommitMove(a, o, f, t)
      PROVE  RestoresAccounted'
  <2>1. Restock(o, t) /\ history' = [history EXCEPT ![o] = Append(@, <<f, t>>)]
    BY <1>5 DEF CommitMove
  <2>2. restored'[o] <= restored[o] + (IF t = "CANCELLED" THEN 1 ELSE 0)
    BY <2>1 DEF TypeOK, Restock
  <2>3. QED
    BY <1>1, <2>1, <2>2
<1>6. ASSUME NEW o \in Orders, NEW a \in Actors, NEW f \in Statuses, NEW t \in Statuses,
             DropMove(a, o, f, t)
      PROVE  RestoresAccounted'
    BY <1>6, AccountsKept DEF DropMove
<1>7. CASE UNCHANGED vars
    BY <1>7, AccountsKept DEF vars
<1>8. QED
    BY <1>2, <1>3, <1>4, <1>5, <1>6, <1>7 DEF Next

\* Every restoration of stock, contended for or not, has a CANCELLED row of
\* its own in the order's history.
THEOREM RestoresHaveRows == Spec => []RestoresAccounted
<1>1. Init => RestoresAccounted
  <2>1. SUFFICES ASSUME Init, NEW o \in Orders
                 PROVE  restored[o] <= Cardinality(CancelRows(o))
    BY DEF RestoresAccounted
  <2>2. CancelRows(o) = {}
    BY <2>1 DEF Init, CancelRows
  <2>3. Cardinality({}) = 0
    BY FS_EmptySet
  <2>4. QED
    BY <2>1, <2>2, <2>3 DEF Init
<1>2. TypeOK /\ RestoresAccounted /\ [Next]_vars => RestoresAccounted'
    BY AccountStep
<1>3. QED
    BY <1>1, <1>2, TypeCorrect, PTL DEF Spec

-----------------------------------------------------------------------------
(* The abstract machine.                                                     *)

\* What the code's state is to the abstract machine.
Shown == [o \in Orders |-> IF o \in contested THEN "CONTESTED" ELSE status[o]]

\* Every step of the code is a step of the machine or leaves it where it was.
LEMMA MachineStep ==
    ASSUME TypeOK, RequestInv, [Next]_vars
    PROVE  [Machine!Next]_Shown
<1>1. ASSUME NEW o \in Orders, Place(o)
      PROVE  [Machine!Next]_Shown
  <2>1. o \notin contested /\ contested' = contested
    BY <1>1 DEF Place, RequestInv
  <2>2. Machine!Create(o)
    BY <1>1, <2>1 DEF Place, TypeOK, Machine!Create
  <2>3. QED
    BY <2>2 DEF Machine!Next
<1>2. ASSUME NEW o \in Orders, Capture(o)
      PROVE  [Machine!Next]_Shown
    BY <1>2 DEF Capture, Shown
<1>3. ASSUME NEW o \in Orders, NEW a \in Actors, NEW t \in Statuses, ReadOrder(a, o, t)
      PROVE  [Machine!Next]_Shown
    BY <1>3 DEF ReadOrder, Shown
<1>4. ASSUME NEW o \in Orders, NEW a \in Actors, NEW f \in Statuses, NEW t \in Statuses,
             CommitMove(a, o, f, t)
      PROVE  [Machine!Next]_Shown
  <2>1. <<f, t>> \in Transitions /\ status[o] # "NONE"
    <3>1. <<a, o, f, t>> \in inHand
      BY <1>4 DEF CommitMove
    <3>2. QED
      BY <3>1 DEF RequestInv
  <2>2. /\ status' = [status EXCEPT ![o] = t]
        /\ contested' = IF status[o] = f THEN contested ELSE contested \cup {o}
    BY <1>4 DEF CommitMove
  <2>3. CASE status[o] = f /\ o \notin contested
    <3>1. Machine!Transitions = Transitions /\ Machine!Statuses = Statuses
      BY DEF Machine!Transitions, Transitions, Machine!Statuses, Statuses
    <3>2. <<Shown[o], t>> \in Transitions /\ Shown' = [Shown EXCEPT ![o] = t]
      BY <2>1, <2>2, <2>3 DEF TypeOK, Shown
    <3>3. Machine!Move(o, t)
      BY <3>1, <3>2 DEF Machine!Move, Shown
    <3>4. QED
      BY <3>1, <3>3 DEF Machine!Next
  <2>4. CASE o \in contested
    <3>1. Shown' = Shown
      BY <2>2, <2>4 DEF TypeOK, Shown
    <3>2. QED
      BY <3>1
  <2>5. CASE status[o] # f /\ o \notin contested
    <3>1. Machine!Contest(o)
      BY <2>1, <2>2, <2>5 DEF TypeOK, Machine!Contest
    <3>2. QED
      BY <3>1 DEF Machine!Next
  <2>6. QED
    BY <2>3, <2>4, <2>5
<1>5. ASSUME NEW o \in Orders, NEW a \in Actors, NEW f \in Statuses, NEW t \in Statuses,
             DropMove(a, o, f, t)
      PROVE  [Machine!Next]_Shown
    BY <1>5 DEF DropMove, Shown
<1>6. CASE UNCHANGED vars
    BY <1>6 DEF vars, Shown
<1>7. QED
    BY <1>1, <1>2, <1>3, <1>4, <1>5, <1>6 DEF Next

\* transition() implements the abstract order machine, up to orders that two
\* writers contended for.
THEOREM ImplementsMachine == Spec => FollowsMachine
<1>1. Init => Machine!Init
    BY DEF Init, Machine!Init
<1>2. TypeOK /\ RequestInv /\ [Next]_vars => [Machine!Next]_Shown
    BY MachineStep
<1>3. QED
    BY <1>1, <1>2, TypeCorrect, RequestInvariant, PTL
       DEF Spec, FollowsMachine, Machine!Spec, Shown

-----------------------------------------------------------------------------
(* The screens.                                                             *)

\* Like the view, an answer on its way is out of date only if an event follows.
FreshReads ==
    \A r \in read : r[1] \notin missed => r[2] = Answer(r[1]) \/ Told(r[1])

\* StaleForCause of one view.
Excused(v) ==
    \/ cache[v] = Answer(v)
    \/ v \in asked
    \/ <<v, Answer(v)>> \in read
    \/ Told(v)

FreshViews == \A v \in Views \ missed : Excused(v)

-----------------------------------------------------------------------------
(* What a view selects.                                                      *)

\* The fields of a view.
LEMMA ViewFields ==
    ASSUME NEW v \in Views
    PROVE  /\ v.of \in Actors
           /\ v.orders \in SUBSET Orders
           /\ v.statuses \in SUBSET Statuses
           /\ v.kind = "order" => v.statuses = Statuses
<1>1. v \in ViewType
    BY ViewsAssumption
<1>2. v.of \in Actors /\ v.orders \in SUBSET Orders /\ v.statuses \in SUBSET Statuses
    BY <1>1 DEF ViewType
<1>3. QED
    BY <1>2, ViewsAssumption

\* The answer to a query is a set of cards, one for each order.
LEMMA AnswerCards ==
    ASSUME NEW v \in Views
    PROVE  /\ Answer(v) \in SUBSET Cards
           /\ \A c, d \in Answer(v) : c[1] = d[1] => c = d
<1>1. Answer(v) \in SUBSET Cards
    BY ViewFields DEF Answer, Cards
<1>2. ASSUME NEW c \in Answer(v), NEW d \in Answer(v), c[1] = d[1]
      PROVE  c = d
  <2>1. c \in v.orders \X v.statuses /\ d \in v.orders \X v.statuses
    BY DEF Answer
  <2>2. c[2] = status[c[1]] /\ d[2] = status[d[1]]
    BY DEF Answer
  <2>3. QED
    BY <2>1, <2>2, <1>2
<1>3. QED
    BY <1>1, <1>2

\* A step that leaves the statuses alone leaves every answer alone.
LEMMA AnswerStays ==
    ASSUME status' = status, NEW v
    PROVE  Answer(v)' = Answer(v)
BY DEF Answer

\* An order that changes status changes only the views that select it.
LEMMA AnswerElsewhere ==
    ASSUME NEW v \in Views, NEW o \in Orders, o \notin v.orders,
           \A p \in Orders \ {o} : status'[p] = status[p]
    PROVE  Answer(v)' = Answer(v)
<1>1. v.orders \in SUBSET Orders
    BY ViewFields
<1>2. \A c \in v.orders \X v.statuses : c[1] \in Orders \ {o}
    BY <1>1
<1>3. \A c \in v.orders \X v.statuses : status'[c[1]] = status[c[1]]
    BY <1>2
<1>4. QED
    BY <1>3 DEF Answer

\* The detail of an order selects that order, in whatever status it is.
LEMMA DetailAnswer ==
    ASSUME NEW s \in Actors, NEW o \in Orders, NEW v \in Detail(s, o),
           status[o] \in Statuses
    PROVE  Answer(v) = {<<o, status[o]>>}
<1>1. v \in Views /\ v.kind = "order" /\ v.orders = {o} /\ v.statuses = Statuses
    BY ViewFields DEF Detail, Of
<1>2. Answer(v) = {c \in {o} \X Statuses : status[c[1]] = c[2]}
    BY <1>1 DEF Answer
<1>3. ASSUME NEW c \in {o} \X Statuses, status[c[1]] = c[2]
      PROVE  c = <<o, status[o]>>
  <2>1. c = <<c[1], c[2]>> /\ c[1] = o
    OBVIOUS
  <2>2. QED
    BY <2>1, <1>3
<1>4. <<o, status[o]>> \in {o} \X Statuses
    OBVIOUS
<1>5. QED
    BY <1>2, <1>3, <1>4

-----------------------------------------------------------------------------
(* The service below the screens.                                            *)

\* The steps of the screens themselves: nothing in the database changes.
ScreenStep ==
    \/ \E o \in Orders, s \in Actors, t \in Statuses :
          Press(s, o, t) \/ Refuse(s, o, t) \/ Answered(s, o, t) \/ Unanswered(s, o, t)
    \/ \E s \in Actors, event \in Events : Hear(s, event)
    \/ \E v \in Views : Refetch(v) \/ Serve(v) \/ Arrive(v) \/ FetchFails(v)

LEMMA ScreensOnlyShow ==
    ASSUME ScreenStep
    PROVE  UNCHANGED vars
BY DEF ScreenStep, Press, Refuse, Answered, Unanswered, Hear, Refetch, Serve, Arrive, FetchFails

\* Every step of the composition is a step of the order service or none.
LEMMA ServiceStep ==
    ASSUME [LiveNext]_allVars
    PROVE  [Next]_vars
<1>1. CASE ScreenStep
    BY <1>1, ScreensOnlyShow
<1>2. ASSUME NEW o \in Orders, PlaceLive(o) \/ CaptureLive(o)
      PROVE  Next
  <2>1. Place(o) \/ Capture(o)
    BY <1>2 DEF PlaceLive, CaptureLive
  <2>2. QED
    BY <2>1 DEF Next
<1>3. ASSUME NEW o \in Orders, NEW s \in Actors, NEW t \in Statuses, Receive(s, o, t)
      PROVE  Next
  <2>1. ReadOrder(s, o, t)
    BY <1>3 DEF Receive
  <2>2. QED
    BY <2>1 DEF Next
<1>4. ASSUME NEW o \in Orders, NEW s \in Actors, NEW f \in Statuses, NEW t \in Statuses,
             CommitLive(s, o, f, t) \/ DropLive(s, o, f, t)
      PROVE  Next
  <2>1. CommitMove(s, o, f, t) \/ DropMove(s, o, f, t)
    BY <1>4 DEF CommitLive, DropLive
  <2>2. QED
    BY <2>1 DEF Next
<1>5. CASE UNCHANGED allVars
    BY <1>5 DEF allVars
<1>6. QED
    BY <1>1, <1>2, <1>3, <1>4, <1>5 DEF LiveNext, ScreenStep, Found

\* The screens use the order service and nothing else: the composition
\* implements OrderLifecycle, so its theorems hold with the screens.
THEOREM ScreensUseService == LiveSpec => Spec
<1>1. LiveInit => Init
    BY DEF LiveInit
<1>2. [LiveNext]_allVars => [Next]_vars
    BY ServiceStep
<1>3. QED
    BY <1>1, <1>2, PTL DEF LiveSpec, Spec

-----------------------------------------------------------------------------
(* Type correctness.                                                         *)

\* What is cached or on its way is made of cards.
ViewTypes ==
    /\ cache \in [Views -> SUBSET Cards]
    /\ \A v \in Views : \A c, d \in cache[v] : c[1] = d[1] => c = d
    /\ loaded \in SUBSET Views
    /\ asked \in SUBSET Views
    /\ read \in SUBSET (Views \X SUBSET Cards)
    /\ \A r \in read : \A c, d \in r[2] : c[1] = d[1] => c = d
    /\ asked \cap {r[1] : r \in read} = {}
    /\ missed \in SUBSET Views

CallTypes ==
    /\ sent \in SUBSET (Actors \X Cards)
    /\ answered \in SUBSET (Actors \X Cards)
    /\ signals \in [Events -> [Actors -> Nat]]
    /\ faults \in 0..MaxFaults

\* Telling some users of a change counts up their events.
LEMMA BroadcastTypes ==
    ASSUME ViewTypes, CallTypes, NEW o \in Orders, NEW event \in Events, NEW to,
           Broadcast(o, event, to), UNCHANGED <<cache, loaded, asked, read>>
    PROVE  ViewTypes' /\ signals' \in [Events -> [Actors -> Nat]]
<1>1. signals' \in [Events -> [Actors -> Nat]]
    BY DEF Broadcast, CallTypes
<1>2. missed' \in SUBSET Views
    BY DEF Broadcast, ViewTypes
<1>3. QED
    BY <1>1, <1>2 DEF ViewTypes

\* The views that are asked for anew.
Again(vs) == {v \in vs : v \in loaded \/ v \notin InFlight}

\* Abandoning fetches for new ones leaves the rest as it was.
LEMMA InvalidateTypes ==
    ASSUME ViewTypes, NEW vs \in SUBSET Views, Invalidate(vs)
    PROVE  /\ asked' \in SUBSET Views
           /\ read' \in SUBSET read
           /\ asked' \cap {r[1] : r \in read'} = {}
BY DEF Invalidate, ViewTypes

LEMMA ViewTypeStep ==
    ASSUME ViewTypes, CallTypes, LiveNext
    PROVE  ViewTypes' /\ CallTypes'
<1>1. ASSUME NEW o \in Orders, PlaceLive(o)
      PROVE  ViewTypes' /\ CallTypes'
  <2>1. PICK to \in SUBSET Staff : Broadcast(o, "created", to)
    BY <1>1 DEF PlaceLive
  <2>2. ViewTypes' /\ signals' \in [Events -> [Actors -> Nat]]
    BY <1>1, <2>1, BroadcastTypes DEF PlaceLive, Events
  <2>3. <<Customer, <<o, "PENDING">>>> \in Actors \X Cards
    BY DEF Actors, Cards, Statuses
  <2>4. answered' \in SUBSET (Actors \X Cards)
    BY <1>1, <2>3 DEF PlaceLive, CallTypes
  <2>5. QED
    BY <1>1, <2>2, <2>4 DEF PlaceLive, CallTypes
<1>2. ASSUME NEW o \in Orders, NEW s \in Actors, NEW f \in Statuses, NEW t \in Statuses,
             CommitLive(s, o, f, t)
      PROVE  ViewTypes' /\ CallTypes'
  <2>1. PICK to \in SUBSET Actors : Broadcast(o, "updated", to)
    BY <1>2 DEF CommitLive
  <2>2. ViewTypes' /\ signals' \in [Events -> [Actors -> Nat]]
    BY <1>2, <2>1, BroadcastTypes DEF CommitLive, Events
  <2>3. answered' \in SUBSET (Actors \X Cards)
    BY <1>2 DEF CommitLive, CallTypes, Cards
  <2>4. QED
    BY <1>2, <2>2, <2>3 DEF CommitLive, CallTypes
<1>3. ASSUME NEW o \in Orders,
             CaptureLive(o) \/ \E s \in Actors, f, t \in Statuses : DropLive(s, o, f, t)
      PROVE  ViewTypes' /\ CallTypes'
  <2>1. UNCHANGED live
    BY <1>3 DEF CaptureLive, DropLive
  <2>2. QED
    BY <2>1 DEF live, ViewTypes, CallTypes
<1>4. ASSUME NEW o \in Orders, NEW s \in Actors, NEW t \in Statuses,
             Press(s, o, t) \/ Receive(s, o, t) \/ Refuse(s, o, t) \/ Unanswered(s, o, t)
      PROVE  ViewTypes' /\ CallTypes'
  <2>1. <<s, <<o, t>>>> \in Actors \X Cards
    BY DEF Cards
  <2>2. CallTypes'
    BY <1>4, <2>1 DEF Press, Receive, Refuse, Unanswered, CallTypes
  <2>3. UNCHANGED <<cache, loaded, asked, read, missed>>
    BY <1>4 DEF Press, Receive, Refuse, Unanswered
  <2>4. QED
    BY <2>2, <2>3 DEF ViewTypes
<1>5. ASSUME NEW o \in Orders, NEW s \in Actors, NEW t \in Statuses, Answered(s, o, t)
      PROVE  ViewTypes' /\ CallTypes'
  <2>1. <<o, t>> \in Cards
    BY DEF Cards
  <2>2. cache' = [v \in Views |-> IF v \in Detail(s, o) THEN {<<o, t>>} ELSE cache[v]]
    BY <1>5 DEF Answered
  <2>3. cache' \in [Views -> SUBSET Cards]
    BY <2>1, <2>2 DEF ViewTypes
  <2>4. \A v \in Views : \A c, d \in cache'[v] : c[1] = d[1] => c = d
    BY <2>2 DEF ViewTypes
  <2>5. Lists(s) \in SUBSET Views /\ Invalidate(Lists(s))
    BY <1>5 DEF Answered, Lists, Of
  <2>6. asked' \in SUBSET Views /\ read' \in SUBSET read /\ asked' \cap {r[1] : r \in read'} = {}
    BY <2>5, InvalidateTypes
  <2>7. missed' \in SUBSET Views
    BY <1>5 DEF Answered, Detail, Of, ViewTypes
  <2>8. ViewTypes'
    <3>1. loaded' \in SUBSET Views
      BY <1>5 DEF Answered, Detail, Of, ViewTypes
    <3>2. QED
      BY <2>3, <2>4, <2>6, <2>7, <3>1 DEF ViewTypes
  <2>9. CallTypes'
    BY <1>5 DEF Answered, CallTypes
  <2>10. QED
    BY <2>8, <2>9
<1>6. ASSUME NEW s \in Actors, NEW event \in Events, Hear(s, event)
      PROVE  ViewTypes' /\ CallTypes'
  <2>1. /\ Of(s) \cap Hears[event] \in SUBSET Views
        /\ Invalidate(Of(s) \cap Hears[event])
    BY <1>6 DEF Hear, Of
  <2>2. asked' \in SUBSET Views /\ read' \in SUBSET read /\ asked' \cap {r[1] : r \in read'} = {}
    BY <2>1, InvalidateTypes
  <2>3. ViewTypes'
    BY <1>6, <2>1, <2>2 DEF Hear, TooLate, ViewTypes
  <2>4. CallTypes'
    BY <1>6 DEF Hear, CallTypes
  <2>5. QED
    BY <2>3, <2>4
<1>7. ASSUME NEW v \in Views, Refetch(v)
      PROVE  ViewTypes' /\ CallTypes'
    BY <1>7 DEF Refetch, InFlight, ViewTypes, CallTypes
<1>8. ASSUME NEW v \in Views, Serve(v)
      PROVE  ViewTypes' /\ CallTypes'
  <2>1. read' = read \cup {<<v, Answer(v)>>} /\ asked' = asked \ {v} /\ v \in asked
    BY <1>8 DEF Serve
  <2>2. read' \in SUBSET (Views \X SUBSET Cards)
    BY <2>1, AnswerCards DEF ViewTypes
  <2>3. \A r \in read' : \A c, d \in r[2] : c[1] = d[1] => c = d
    BY <2>1, AnswerCards DEF ViewTypes
  <2>4. asked' \in SUBSET Views /\ asked' \cap {r[1] : r \in read'} = {}
    BY <2>1 DEF ViewTypes
  <2>5. ViewTypes'
    BY <1>8, <2>2, <2>3, <2>4 DEF Serve, ViewTypes
  <2>6. CallTypes'
    BY <1>8 DEF Serve, CallTypes
  <2>7. QED
    BY <2>5, <2>6
<1>9. ASSUME NEW v \in Views, Arrive(v)
      PROVE  ViewTypes' /\ CallTypes'
  <2>1. PICK r \in read : /\ r[1] = v
                          /\ read' = read \ {r}
                          /\ cache' = [cache EXCEPT ![v] = r[2]]
                          /\ loaded' = loaded \cup {v}
                          /\ UNCHANGED <<vars, asked, sent, answered, signals, missed, faults>>
    BY <1>9 DEF Arrive
  <2>2. r[2] \in SUBSET Cards /\ \A c, d \in r[2] : c[1] = d[1] => c = d
    BY DEF ViewTypes
  <2>3. cache' \in [Views -> SUBSET Cards]
    BY <2>1, <2>2 DEF ViewTypes
  <2>4. \A w \in Views : \A c, d \in cache'[w] : c[1] = d[1] => c = d
    BY <2>1, <2>2 DEF ViewTypes
  <2>5. ViewTypes'
    BY <2>1, <2>3, <2>4 DEF ViewTypes
  <2>6. QED
    BY <2>1, <2>5 DEF CallTypes
<1>10. ASSUME NEW v \in Views, FetchFails(v)
      PROVE  ViewTypes' /\ CallTypes'
  <2>1. ViewTypes'
    BY <1>10 DEF FetchFails, ViewTypes
  <2>2. faults' \in 0..MaxFaults
    BY <1>10, ViewsAssumption DEF FetchFails, CallTypes
  <2>3. QED
    BY <1>10, <2>1, <2>2 DEF FetchFails, CallTypes
<1>11. QED
    BY <1>1, <1>2, <1>3, <1>4, <1>5, <1>6, <1>7, <1>8, <1>9, <1>10 DEF LiveNext, Found

-----------------------------------------------------------------------------
(* Why a screen is out of date.                                              *)

\* A step that changes no status and neither the caches, the fetches nor the
\* events excuses what was excused.
LEMMA FreshStutter ==
    ASSUME FreshReads, FreshViews, UNCHANGED <<status, cache, asked, read, signals, missed>>
    PROVE  FreshReads' /\ FreshViews'
<1>1. \A v \in Views : Answer(v)' = Answer(v)
    BY AnswerStays
<1>2. \A r \in read : Answer(r[1])' = Answer(r[1])
    BY AnswerStays
<1>3. QED
    BY <1>1, <1>2 DEF FreshReads, FreshViews, Excused, Told

\* An order that moves: whoever shows it is told, or has missed it.
LEMMA FreshBroadcast ==
    ASSUME ViewTypes, CallTypes, FreshReads, FreshViews, NEW o \in Orders,
           NEW event \in Events, NEW to,
           \A p \in Orders \ {o} : status'[p] = status[p],
           Broadcast(o, event, to), UNCHANGED <<cache, asked, read>>
    PROVE  FreshReads' /\ FreshViews'
<1>1. ASSUME NEW v \in Views, v \notin missed'
      PROVE  v \notin missed /\ (Told(v)' \/ Answer(v)' = Answer(v)) /\ (Told(v) => Told(v)')
  <2>1. v \notin missed /\ (o \notin v.orders \/ (v \in Hears[event] /\ v.of \in to))
    BY <1>1 DEF Broadcast
  <2>2. v.of \in Actors /\ \A e \in Events : signals[e][v.of] \in Nat
    BY ViewFields DEF CallTypes
  <2>3. /\ signals'[event][v.of] = signals[event][v.of] + (IF v.of \in to THEN 1 ELSE 0)
        /\ \A e \in Events \ {event} : signals'[e][v.of] = signals[e][v.of]
    BY <2>2 DEF Broadcast, CallTypes
  <2>4. Told(v) => Told(v)'
    <3>1. \A e \in Events : signals[e][v.of] > 0 => signals'[e][v.of] > 0
      BY <2>2, <2>3
    <3>2. QED
      BY <3>1 DEF Told
  <2>5. CASE o \notin v.orders
    BY <2>1, <2>4, <2>5, AnswerElsewhere
  <2>6. CASE v \in Hears[event] /\ v.of \in to
    <3>1. signals'[event][v.of] > 0
      BY <2>2, <2>3, <2>6
    <3>2. QED
      BY <2>1, <2>4, <2>6, <3>1 DEF Told
  <2>7. QED
    BY <2>1, <2>5, <2>6
<1>2. FreshReads'
  <2>1. SUFFICES ASSUME NEW r \in read, r[1] \notin missed'
                 PROVE  r[2] = Answer(r[1])' \/ Told(r[1])'
    BY DEF FreshReads
  <2>2. r[1] \in Views
    BY DEF ViewTypes
  <2>3. QED
    BY <2>1, <2>2, <1>1 DEF FreshReads
<1>3. FreshViews'
  <2>1. SUFFICES ASSUME NEW v \in Views, v \notin missed'
                 PROVE  Excused(v)'
    BY DEF FreshViews
  <2>2. Excused(v)
    BY <2>1, <1>1 DEF FreshViews
  <2>3. QED
    BY <2>1, <2>2, <1>1 DEF Excused
<1>4. QED
    BY <1>2, <1>3

\* A fetch is abandoned for a new one or goes on: a view that is asked for again
\* is excused, and any other by what excused it before or by what it shows now.
LEMMA FreshInvalidate ==
    ASSUME ViewTypes, FreshReads, FreshViews, NEW vs \in SUBSET Views, Invalidate(vs), status' = status,
           \A v \in Views \ Again(vs) : v \notin missed' =>
                 \/ cache'[v] = Answer(v)
                 \/ /\ v \notin missed /\ cache'[v] = cache[v]
                    /\ Told(v) => Told(v)' \/ v \in asked \/ <<v, Answer(v)>> \in read,
           \A r \in read : r[1] \notin Again(vs) /\ r[1] \notin missed' =>
                 r[1] \notin missed /\ (Told(r[1]) => Told(r[1])' \/ r[2] = Answer(r[1]))
    PROVE  FreshReads' /\ FreshViews'
<1>1. \A v \in Views : Answer(v)' = Answer(v)
    BY AnswerStays
<1>0. /\ asked' = asked \cup Again(vs)
      /\ read' = {r \in read : r[1] \notin Again(vs)}
    BY DEF Invalidate, Again
<1>2. \A r \in read' : r \in read /\ r[1] \notin Again(vs) /\ r[1] \in Views
    BY <1>0 DEF ViewTypes
<1>3. FreshReads'
    BY <1>1, <1>2 DEF FreshReads
<1>4. ASSUME NEW v \in Views, v \notin missed'
      PROVE  Excused(v)'
  <2>1. CASE v \in Again(vs)
    BY <1>0, <2>1 DEF Excused
  <2>2. CASE v \notin Again(vs)
    <3>1. CASE cache'[v] = Answer(v)
      BY <1>1, <3>1 DEF Excused
    <3>2. CASE /\ v \notin missed /\ cache'[v] = cache[v]
               /\ Told(v) => Told(v)' \/ v \in asked \/ <<v, Answer(v)>> \in read
      <4>1. Excused(v)
        BY <3>2 DEF FreshViews
      <4>2. v \in asked => v \in asked'
        BY <1>0
      <4>3. <<v, Answer(v)>> \in read => <<v, Answer(v)>> \in read'
        BY <1>0, <2>2
      <4>4. QED
        BY <1>1, <3>2, <4>1, <4>2, <4>3 DEF Excused
    <3>3. QED
      BY <2>2, <1>4, <3>1, <3>2
  <2>3. QED
    BY <2>1, <2>2
<1>5. QED
    BY <1>3, <1>4 DEF FreshViews

\* Every step keeps what is out of date excused.
LEMMA FreshStep ==
    ASSUME TypeOK, ViewTypes, CallTypes, FreshReads, FreshViews, LiveNext
    PROVE  FreshReads' /\ FreshViews'
<1>1. ASSUME NEW o \in Orders, PlaceLive(o)
      PROVE  FreshReads' /\ FreshViews'
  <2>1. PICK to \in SUBSET Staff : Broadcast(o, "created", to)
    BY <1>1 DEF PlaceLive
  <2>2. \A p \in Orders \ {o} : status'[p] = status[p]
    BY <1>1 DEF PlaceLive, Place, TypeOK
  <2>3. UNCHANGED <<cache, asked, read>>
    BY <1>1 DEF PlaceLive
  <2>4. QED
    BY <2>1, <2>2, <2>3, FreshBroadcast DEF Events
<1>2. ASSUME NEW o \in Orders, NEW s \in Actors, NEW f \in Statuses, NEW t \in Statuses,
             CommitLive(s, o, f, t)
      PROVE  FreshReads' /\ FreshViews'
  <2>1. PICK to \in SUBSET Actors : Broadcast(o, "updated", to)
    BY <1>2 DEF CommitLive
  <2>2. \A p \in Orders \ {o} : status'[p] = status[p]
    BY <1>2 DEF CommitLive, CommitMove, TypeOK
  <2>3. UNCHANGED <<cache, asked, read>>
    BY <1>2 DEF CommitLive
  <2>4. QED
    BY <2>1, <2>2, <2>3, FreshBroadcast DEF Events
<1>3. ASSUME NEW o \in Orders,
             CaptureLive(o) \/ \E s \in Actors, f, t \in Statuses : DropLive(s, o, f, t)
      PROVE  FreshReads' /\ FreshViews'
  <2>1. UNCHANGED live /\ status' = status
    BY <1>3 DEF CaptureLive, DropLive, Capture, DropMove
  <2>2. QED
    BY <2>1, FreshStutter DEF live
<1>4. ASSUME NEW o \in Orders, NEW s \in Actors, NEW t \in Statuses,
             Press(s, o, t) \/ Receive(s, o, t) \/ Refuse(s, o, t) \/ Unanswered(s, o, t)
      PROVE  FreshReads' /\ FreshViews'
  <2>1. UNCHANGED <<status, cache, asked, read, signals, missed>>
    BY <1>4 DEF Press, Receive, ReadOrder, Refuse, Unanswered, vars
  <2>2. QED
    BY <2>1, FreshStutter
<1>5. ASSUME NEW o \in Orders, NEW s \in Actors, NEW t \in Statuses, Answered(s, o, t)
      PROVE  FreshReads' /\ FreshViews'
  <2>1. Lists(s) \in SUBSET Views /\ Invalidate(Lists(s)) /\ UNCHANGED <<status, signals>>
    BY <1>5 DEF Answered, Lists, Of, vars
  <2>2. \A v \in Views : Told(v) => Told(v)'
    BY <2>1 DEF Told
  <2>3. cache' = [v \in Views |-> IF v \in Detail(s, o) THEN {<<o, t>>} ELSE cache[v]]
    BY <1>5 DEF Answered
  <2>4. \A v \in Views \ missed' : v \in missed => v \in Detail(s, o) \ InFlight /\ status[o] = t
    BY <1>5 DEF Answered
  <2>5. \A v \in Detail(s, o) \ missed' : status[o] = t
    BY <1>5 DEF Answered
  <2>6. \A v \in Detail(s, o) \ missed' : cache'[v] = Answer(v)
    <3>1. SUFFICES ASSUME NEW v \in Detail(s, o), v \notin missed'
                   PROVE  cache'[v] = Answer(v)
      OBVIOUS
    <3>2. status[o] = t /\ v \in Views
      BY <3>1, <2>5 DEF Detail, Of
    <3>3. Answer(v) = {<<o, t>>}
      BY <3>2, DetailAnswer
    <3>4. QED
      BY <2>3, <3>2, <3>3
  <2>7. \A v \in Views : v \notin missed' =>
            \/ cache'[v] = Answer(v)
            \/ v \notin missed /\ cache'[v] = cache[v] /\ (Told(v) => Told(v)')
    BY <2>2, <2>3, <2>4, <2>6
  <2>8. \A r \in read : r[1] \in Views /\ r[1] \in InFlight
    BY DEF InFlight, ViewTypes
  <2>9. \A r \in read : r[1] \notin missed' =>
            r[1] \notin missed /\ (Told(r[1]) => Told(r[1])')
    BY <2>2, <2>4, <2>8
  <2>10. QED
    BY <2>1, <2>7, <2>9, FreshInvalidate
<1>6. ASSUME NEW s \in Actors, NEW event \in Events, Hear(s, event)
      PROVE  FreshReads' /\ FreshViews'
  <2> DEFINE heard == Of(s) \cap Hears[event]
  <2>1. /\ heard \in SUBSET Views
        /\ Invalidate(heard)
        /\ missed' = missed \cup TooLate(heard)
        /\ UNCHANGED <<status, cache>>
    BY <1>6 DEF Hear, Of, vars
  <2>2. signals' = [signals EXCEPT ![event][s] = @ - 1]
    BY <1>6 DEF Hear
  <2>3. ASSUME NEW v \in Views \ heard
        PROVE  Told(v) => Told(v)'
    <3>1. \A e \in Events : v \in Hears[e] => signals'[e][v.of] = signals[e][v.of]
      BY <2>2, ViewFields DEF Of, CallTypes
    <3>2. QED
      BY <3>1 DEF Told
  <2>4. \A r \in read : r[1] \in Views /\ r[1] \in InFlight
    BY DEF ViewTypes, InFlight
  <2>5. ASSUME NEW r \in read, r[1] \notin Again(heard), r[1] \notin missed'
        PROVE  r[1] \notin missed /\ (Told(r[1]) => Told(r[1])' \/ r[2] = Answer(r[1]))
    <3>1. CASE r[1] \in heard
      BY <2>1, <2>4, <2>5, <3>1 DEF Again, TooLate
    <3>2. CASE r[1] \notin heard
      BY <2>1, <2>3, <2>4, <2>5, <3>2
    <3>3. QED
      BY <3>1, <3>2
  <2>6. ASSUME NEW v \in Views \ Again(heard), v \notin missed'
        PROVE  /\ v \notin missed /\ cache'[v] = cache[v]
               /\ Told(v) => Told(v)' \/ v \in asked \/ <<v, Answer(v)>> \in read
    <3>1. CASE v \in heard
      <4>1. v \notin loaded /\ v \in InFlight
        BY <3>1, <2>6 DEF Again
      <4>2. CASE v \in asked
        BY <2>1, <2>6, <4>2
      <4>3. CASE v \notin asked
        <5>1. PICK r \in read : r[1] = v
          BY <4>1, <4>3 DEF InFlight
        <5>2. r[2] = Answer(v)
          BY <2>1, <2>6, <3>1, <4>1, <5>1 DEF TooLate
        <5>3. r = <<v, Answer(v)>>
          BY <5>1, <5>2 DEF ViewTypes
        <5>4. QED
          BY <2>1, <2>6, <5>3
      <4>4. QED
        BY <4>2, <4>3
    <3>2. CASE v \notin heard
      BY <2>1, <2>3, <2>6, <3>2
    <3>3. QED
      BY <3>1, <3>2
  <2>7. QED
    BY <2>1, <2>5, <2>6, FreshInvalidate
<1>7. ASSUME NEW v \in Views, Refetch(v)
      PROVE  FreshReads' /\ FreshViews'
  <2>1. asked' = asked \cup {v} /\ UNCHANGED <<status, cache, read, signals, missed>>
    BY <1>7 DEF Refetch, vars
  <2>2. \A w : Answer(w)' = Answer(w) /\ Told(w)' = Told(w)
    BY <2>1, AnswerStays DEF Told
  <2>3. QED
    BY <2>1, <2>2 DEF FreshReads, FreshViews, Excused
<1>8. ASSUME NEW v \in Views, Serve(v)
      PROVE  FreshReads' /\ FreshViews'
  <2>1. /\ asked' = asked \ {v}
        /\ read' = read \cup {<<v, Answer(v)>>}
        /\ missed' = missed \ {v}
        /\ UNCHANGED <<status, cache, signals>>
        /\ v \in asked
    BY <1>8 DEF Serve, vars
  <2>2. \A w : Answer(w)' = Answer(w) /\ Told(w)' = Told(w)
    BY <2>1, AnswerStays DEF Told
  <2>3. FreshReads'
    <3>1. SUFFICES ASSUME NEW r \in read', r[1] \notin missed'
                   PROVE  r[2] = Answer(r[1])' \/ Told(r[1])'
      BY DEF FreshReads
    <3>2. CASE r = <<v, Answer(v)>>
      BY <2>2, <3>2
    <3>3. CASE r \in read
      <4>1. r[1] # v
        BY <2>1, <3>3 DEF ViewTypes
      <4>2. QED
        BY <2>1, <2>2, <3>1, <3>3, <4>1 DEF FreshReads
    <3>4. QED
      BY <2>1, <3>2, <3>3
  <2>4. FreshViews'
    <3>1. SUFFICES ASSUME NEW w \in Views, w \notin missed'
                   PROVE  Excused(w)'
      BY DEF FreshViews
    <3>2. CASE w = v
      BY <2>1, <2>2, <3>2 DEF Excused
    <3>3. CASE w # v
      BY <2>1, <2>2, <3>1, <3>3 DEF FreshViews, Excused
    <3>4. QED
      BY <3>2, <3>3
  <2>5. QED
    BY <2>3, <2>4
<1>9. ASSUME NEW v \in Views, Arrive(v)
      PROVE  FreshReads' /\ FreshViews'
  <2>1. PICK r \in read : /\ r[1] = v
                          /\ read' = read \ {r}
                          /\ cache' = [cache EXCEPT ![v] = r[2]]
                          /\ loaded' = loaded \cup {v}
                          /\ UNCHANGED <<vars, asked, sent, answered, signals, missed, faults>>
    BY <1>9 DEF Arrive
  <2>2. UNCHANGED <<status, asked, signals, missed>>
    BY <2>1 DEF vars
  <2>3. \A w : Answer(w)' = Answer(w) /\ Told(w)' = Told(w)
    BY <2>2, AnswerStays DEF Told
  <2>4. FreshReads'
    BY <2>1, <2>2, <2>3 DEF FreshReads
  <2>5. FreshViews'
    <3>1. SUFFICES ASSUME NEW w \in Views, w \notin missed'
                   PROVE  Excused(w)'
      BY DEF FreshViews
    <3>2. CASE w = v
      <4>1. r[2] = Answer(v) \/ Told(v)
        BY <2>1, <2>2, <3>1, <3>2 DEF FreshReads
      <4>2. cache'[v] = r[2]
        BY <2>1 DEF ViewTypes
      <4>3. QED
        BY <2>3, <3>2, <4>1, <4>2 DEF Excused
    <3>3. CASE w # v
      <4>1. cache'[w] = cache[w]
        BY <2>1, <3>3 DEF ViewTypes
      <4>2. <<w, Answer(w)>> \in read => <<w, Answer(w)>> \in read'
        BY <2>1, <3>3
      <4>3. Excused(w)
        BY <2>2, <3>1 DEF FreshViews
      <4>4. QED
        BY <2>2, <2>3, <4>1, <4>2, <4>3 DEF Excused
    <3>4. QED
      BY <3>2, <3>3
  <2>6. QED
    BY <2>4, <2>5
<1>10. ASSUME NEW v \in Views, FetchFails(v)
      PROVE  FreshReads' /\ FreshViews'
  <2>1. /\ asked' = asked \ {v}
        /\ read' = {r \in read : r[1] # v}
        /\ missed' = missed \cup {v}
        /\ UNCHANGED <<status, cache, signals>>
    BY <1>10 DEF FetchFails, vars
  <2>2. \A w : Answer(w)' = Answer(w) /\ Told(w)' = Told(w)
    BY <2>1, AnswerStays DEF Told
  <2>3. FreshReads'
    BY <2>1, <2>2 DEF FreshReads
  <2>4. FreshViews'
    <3>1. SUFFICES ASSUME NEW w \in Views, w \notin missed'
                   PROVE  Excused(w)'
      BY DEF FreshViews
    <3>2. w # v /\ Excused(w)
      BY <2>1, <3>1 DEF FreshViews
    <3>3. <<w, Answer(w)>> \in read => <<w, Answer(w)>> \in read'
      BY <2>1, <3>2
    <3>4. QED
      BY <2>1, <2>2, <3>2, <3>3 DEF Excused
  <2>5. QED
    BY <2>3, <2>4
<1>11. QED
    BY <1>1, <1>2, <1>3, <1>4, <1>5, <1>6, <1>7, <1>8, <1>9, <1>10 DEF LiveNext, Found

-----------------------------------------------------------------------------
(* Theorems.                                                                 *)

LiveInv == ViewTypes /\ CallTypes /\ FreshReads /\ FreshViews

\* Initially nothing is placed, shown or on its way.
LEMMA LiveStart ==
    ASSUME LiveInit
    PROVE  LiveInv
<1>1. \A v \in Views : Answer(v) = {}
  <2>1. SUFFICES ASSUME NEW v \in Views, NEW c \in Answer(v)
                 PROVE  FALSE
    OBVIOUS
  <2>2. c[1] \in Orders /\ c[2] \in Statuses /\ status[c[1]] = c[2]
    BY ViewFields DEF Answer
  <2>3. QED
    BY <2>2 DEF LiveInit, Init, Statuses
<1>2. ViewTypes /\ CallTypes
    BY ViewsAssumption DEF LiveInit, ViewTypes, CallTypes
<1>3. FreshReads /\ FreshViews
    BY <1>1 DEF LiveInit, FreshReads, FreshViews, Excused
<1>4. QED
    BY <1>2, <1>3 DEF LiveInv

\* The invariant holds of every behaviour.
THEOREM LiveInductive == LiveSpec => [](TypeOK /\ LiveInv)
<1>1. LiveInit => LiveInv
    BY LiveStart
<1>2. TypeOK /\ LiveInv /\ [LiveNext]_allVars => LiveInv'
  <2>1. SUFFICES ASSUME TypeOK, LiveInv, [LiveNext]_allVars
                 PROVE  LiveInv'
    OBVIOUS
  <2>2. CASE LiveNext
    BY <2>1, <2>2, ViewTypeStep, FreshStep DEF LiveInv
  <2>3. CASE UNCHANGED allVars
    <3>1. ViewTypes' /\ CallTypes'
      BY <2>1, <2>3 DEF LiveInv, allVars, live, ViewTypes, CallTypes
    <3>2. UNCHANGED <<status, cache, asked, read, signals, missed>>
      BY <2>3 DEF allVars, live, vars
    <3>3. QED
      BY <2>1, <3>1, <3>2, FreshStutter DEF LiveInv
  <2>4. QED
    BY <2>1, <2>2, <2>3
<1>3. LiveSpec => []TypeOK
    BY ScreensUseService, TypeCorrect, PTL
<1>4. QED
    BY <1>1, <1>2, <1>3, PTL DEF LiveSpec

\* Every view, fetch and request is made of the orders' cards.
THEOREM LiveTypes == LiveSpec => []LiveTypeOK
<1>1. TypeOK /\ LiveInv => LiveTypeOK
    BY DEF LiveInv, ViewTypes, CallTypes, LiveTypeOK
<1>2. QED
    BY <1>1, LiveInductive, PTL

\* A screen is out of date only while it is being refreshed, or for one of the
\* causes missed records.
THEOREM StaleHasCause == LiveSpec => []StaleForCause
<1>1. LiveInv => StaleForCause
    BY DEF LiveInv, FreshViews, Excused, StaleForCause
<1>2. QED
    BY <1>1, LiveInductive, PTL

=============================================================================
