---------------------------- MODULE MCInventory ----------------------------
(* A small instance of Inventory for TLC.                                  *)
EXTENDS Inventory, TLC

CONSTANTS i1, i2, o1, o2, l1, l2, l3

\* o1 has a line on each item, o2 competes with it for i1.
MCOrderOf == l1 :> o1 @@ l2 :> o1 @@ l3 :> o2
MCItemOf == l1 :> i1 @@ l2 :> i2 @@ l3 :> i1
MCQtyOf == l1 :> 1 @@ l2 :> 2 @@ l3 :> 2
MCThreshold == i1 :> 0 @@ i2 :> 1

============================================================================
