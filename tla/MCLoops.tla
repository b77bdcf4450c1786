------------------------------- MODULE MCLoops ------------------------------
(* For TLC: the two loops of the services that count no rounds, the WATCH  *)
(* loop of the carts and the walk up the categories.  They share no state: *)
(* a behaviour of this instance exercises one, chosen at the start.        *)
EXTENDS MCCarts, CategoryTree

VARIABLE part   \* the loop that is exercised

loopVars == <<vars, categoryVars, part>>

LoopInit == part \in {"carts", "categories"} /\ Init /\ CategoryInit

LoopNext ==
    /\ UNCHANGED part
    /\ \/ part = "carts" /\ Next /\ UNCHANGED categoryVars
       \/ part = "categories" /\ CategoryNext /\ UNCHANGED vars

LoopSpec ==
    /\ LoopInit /\ [][LoopNext]_loopVars
    /\ RequestFairness /\ CategoryFairness
=============================================================================
