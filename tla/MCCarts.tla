------------------------------ MODULE MCCarts -------------------------------
(* CartStore for TLC: a customer's cart and the guest cart merged into it. *)
EXTENDS CartStore, TLC

CONSTANTS user, guest, v1, v2, v3

ZAR(n) == [stock |-> n, currency |-> "ZAR"]
USD(n) == [stock |-> n, currency |-> "USD"]

(* v3 sells out and changes its currency; the others stay as they are.     *)
MCInfos == v1 :> {USD(3)} @@ v2 :> {USD(3)} @@ v3 :> {USD(0), USD(3), ZAR(3)}

Asks(op, k, v, n) == [op |-> op, key |-> k, from |-> k, variant |-> v, qty |-> n]
MergeOf(k, g) == [op |-> "merge", key |-> k, from |-> g, variant |-> v1, qty |-> 1]

MCRequests ==
    {Asks("add", user, v1, 1), Asks("add", user, v2, 2), Asks("add", guest, v3, 2),
     Asks("update", user, v3, 2), Asks("remove", user, v2, 1), Asks("clear", user, v1, 1),
     Asks("read", user, v1, 1), MergeOf(user, guest)}

HandlerSymmetry == Permutations(Handlers)

(* Requests that conflict with each other as often as they like.           *)
RetryInfos == v1 :> {USD(3)} @@ v3 :> {USD(3)}

RetryRequests ==
    {Asks("add", user, v1, 1), Asks("add", guest, v3, 2), Asks("clear", user, v1, 1),
     Asks("read", user, v1, 1), MergeOf(user, guest)}

(* The same merge asked for twice, of a guest cart filled once.            *)
MergeRequests == {Asks("add", guest, v3, 1), MergeOf(user, guest)}

(* Two handlers that have merged one guest cart have merged it twice.  The *)
(* documentation says that a guest cart can be merged once, and that a     *)
(* repeated merge finds it gone (merge_guest_cart).                        *)
MergedOnce ==
    \A g, h \in Handlers :
       /\ handler[g].pc = "merged" /\ handler[h].pc = "merged"
       /\ handler[g].req.from = handler[h].req.from
       /\ handler[g].guest # EmptyCart /\ handler[g].guest = handler[h].guest
       => g = h
=============================================================================
