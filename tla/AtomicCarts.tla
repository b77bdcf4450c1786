---------------------------- MODULE AtomicCarts -----------------------------
(***************************************************************************)
(* What cart-service promises of its carts: a cart changes in single steps,*)
(* each the whole effect of an operation that is permitted on the cart as  *)
(* it is at that step.  No update is lost, whatever else happens at the    *)
(* same time.  Requests have no identity here: that one is applied only    *)
(* once is not promised.                                                   *)
(***************************************************************************)
EXTENDS CartLines

CONSTANTS
    Keys,          \* the keys of the carts
    Infos          \* Infos[v]: what the catalogue may say of v

Known == (UNION {Infos[v] : v \in Variants}) \cup {Unread}

VARIABLE cart      \* cart[k]: the contents of the cart under k

Init == cart = [k \in Keys |-> EmptyCart]

Become(k, c) == cart' = [cart EXCEPT ![k] = c]

Add(k, v, n, info) ==
    MayAdd(cart[k], v, n, info) /\ Become(k, Added(cart[k], v, n, info))

Update(k, v, n, info) ==
    /\ MayUpdate(cart[k], v)
    /\ CheckQuantity(n, info)
    /\ Become(k, Updated(cart[k], v, n, info))

Remove(k, v) == MayRemove(cart[k], v) /\ Become(k, Removed(cart[k], v))

Merge(k, guest, infos) ==
    MayMerge(cart[k], guest, infos) /\ Become(k, Merged(cart[k], guest, infos))

(* Cleared, merged into another cart, or expired.                          *)
Empty(k) == Become(k, EmptyCart)

(* A request that leaves its cart as it is does nothing here.              *)
Changes(k) == cart'[k] # cart[k]

Next ==
    \E k \in Keys :
       /\ Changes(k)
       /\ \/ Empty(k)
          \/ \E v \in Variants, n \in 1..MaxQuantity : \E info \in Infos[v] :
                Add(k, v, n, info) \/ Update(k, v, n, info)
          \/ \E v \in Variants : Remove(k, v)
          \/ \E guest \in CartType, infos \in [Variants -> Known] :
                /\ \A v \in Lines(guest) : infos[v] \in Infos[v]
                /\ Merge(k, guest, infos)

Spec == Init /\ [][Next]_cart
=============================================================================
