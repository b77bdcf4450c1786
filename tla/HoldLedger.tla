----------------------------- MODULE HoldLedger -----------------------------
(***************************************************************************)
(* What the product service promises about stock holds, without handlers,  *)
(* transactions or lost replies: the items of an order are taken off the   *)
(* shelf in one step, at most once, and put back in one step, at most      *)
(* once.  Inventory.tla implements this.                                   *)
(***************************************************************************)
EXTENDS Naturals

CONSTANTS
    Variants,      \* product variants
    Orders,        \* orders; the order id is the id of its hold
    Qty,           \* Qty[o][v]: how many of v order o asks for
    InitStock,     \* stock of every variant at the start
    StockLevels    \* the stock values an administrator may write

VARIABLES
    free,          \* free[v]: units of v that nobody holds
    hold           \* hold[o]: "none", "reserved" or "released"

vars == <<free, hold>>

Init ==
    /\ free = InitStock
    /\ hold = [o \in Orders |-> "none"]

Take(o) ==
    /\ hold[o] = "none"
    /\ \A v \in Variants : free[v] >= Qty[o][v]
    /\ free' = [v \in Variants |-> free[v] - Qty[o][v]]
    /\ hold' = [hold EXCEPT ![o] = "reserved"]

Return(o) ==
    /\ hold[o] = "reserved"
    /\ free' = [v \in Variants |-> free[v] + Qty[o][v]]
    /\ hold' = [hold EXCEPT ![o] = "released"]

Restock(v, n) ==
    /\ free' = [free EXCEPT ![v] = n]
    /\ UNCHANGED hold

Next ==
    \/ \E o \in Orders : Take(o) \/ Return(o)
    \/ \E v \in Variants, n \in StockLevels : Restock(v, n)

Spec == Init /\ [][Next]_vars
=============================================================================
