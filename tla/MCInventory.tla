---------------------------- MODULE MCInventory -----------------------------
(* Inventory for TLC: two orders that compete for the last unit of v1.     *)
EXTENDS Inventory, TLC

CONSTANTS o1, o2, v1, v2, c1, c2, c3

MCQty == o1 :> (v1 :> 1 @@ v2 :> 2) @@ o2 :> (v1 :> 1 @@ v2 :> 0)
MCInitStock == v1 :> 1 @@ v2 :> 2

CallSymmetry == Permutations(Calls)
=============================================================================
