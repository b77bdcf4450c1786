----------------------------- MODULE CartLines ------------------------------
(***************************************************************************)
(* The contents of a cart and what the handlers of cart-service do to them.*)
(* Each operator is the body of one of the closures that the handlers pass *)
(* to RedisCartStore.mutate: May... is the condition under which it does   *)
(* not raise, the other operator is its result.                            *)
(*                                                                         *)
(* Of a stored line only the quantity and the currency matter, of a variant*)
(* of the catalogue its stock and its currency.  A variant that is gone    *)
(* (None) is one without stock: every closure treats the two alike.        *)
(***************************************************************************)
EXTENDS Naturals, FiniteSets

CONSTANTS
    Variants,      \* product variants
    Currencies,    \* the currencies of lines and variants
    NoCurrency,    \* the currency of a line that is not there
    MaxItems,      \* settings.maximum_cart_items
    MaxQuantity    \* settings.maximum_item_quantity

ASSUME CurrencyAssumption == NoCurrency \notin Currencies /\ IsFiniteSet(Currencies)

ASSUME CartLimitsAssumption ==
    /\ IsFiniteSet(Variants)
    /\ MaxItems \in Nat
    /\ MaxQuantity \in Nat

NoLine == [qty |-> 0, currency |-> NoCurrency]

Line == [qty: 1..MaxQuantity, currency: Currencies] \cup {NoLine}

CartType == [Variants -> Line]

EmptyCart == [v \in Variants |-> NoLine]

Info == [stock: Nat, currency: Currencies]

Unread == [stock |-> 0, currency |-> NoCurrency]

Lines(c) == {v \in Variants : c[v] # NoLine}

CurrenciesOf(c, vs) == {c[v].currency : v \in vs}

FromCatalog(info, n) == [qty |-> n, currency |-> info.currency]

(* Fault: only the stock limits a quantity.                                *)
CheckStock(n, info) == n <= info.stock

CheckQuantity(n, info) == n <= MaxQuantity /\ n <= info.stock

(* Fault: a full cart takes one line more.                                 *)
MayAddLast(c, v, n, info) ==
    /\ c[v] = NoLine => Cardinality(Lines(c)) <= MaxItems
    /\ CheckQuantity(n + c[v].qty, info)
    /\ \/ Lines(c) \ {v} = {}
       \/ info.currency \in CurrenciesOf(c, Lines(c) \ {v})

(* add_item                                                                *)
MayAdd(c, v, n, info) ==
    /\ c[v] = NoLine => Cardinality(Lines(c)) < MaxItems
    /\ CheckQuantity(n + c[v].qty, info)
    /\ \/ Lines(c) \ {v} = {}
       \/ info.currency \in CurrenciesOf(c, Lines(c) \ {v})

Added(c, v, n, info) == [c EXCEPT ![v] = FromCatalog(info, n + c[v].qty)]

(* update_item; its quantity is checked before the transaction             *)
MayUpdate(c, v) == c[v] # NoLine

Updated(c, v, n, info) == [c EXCEPT ![v] = FromCatalog(info, n)]

(* remove_item                                                             *)
MayRemove(c, v) == c[v] # NoLine

Removed(c, v) == [c EXCEPT ![v] = NoLine]

(* merge_guest_cart: guest is the cart read before the transaction, infos  *)
(* what the catalogue said of its lines.                                   *)
Mergeable(guest, infos) == {v \in Lines(guest) : infos[v].stock > 0}

(* Fault: the currencies of the two carts are not compared.                *)
MayMergeMixing(c, guest, infos) ==
    LET incoming == Mergeable(guest, infos) IN
    /\ Cardinality(Lines(c) \cup incoming) <= MaxItems
    /\ Cardinality(CurrenciesOf(infos, incoming)) <= 1

MayMerge(c, guest, infos) ==
    LET incoming == Mergeable(guest, infos) IN
    /\ Cardinality(Lines(c) \cup incoming) <= MaxItems
    /\ Cardinality(CurrenciesOf(c, Lines(c)) \cup CurrenciesOf(infos, incoming)) <= 1

Least(m, n) == IF m <= n THEN m ELSE n

Merged(c, guest, infos) ==
    [v \in Variants |->
        IF v \in Mergeable(guest, infos)
        THEN FromCatalog(infos[v], Least(guest[v].qty + c[v].qty,
                                         Least(infos[v].stock, MaxQuantity)))
        ELSE c[v]]
=============================================================================
