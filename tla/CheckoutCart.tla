---------------------------- MODULE CheckoutCart ----------------------------
(***************************************************************************)
(* order-service and cart-service meet in checkout: it orders what the cart*)
(* holds at one moment, and empties the cart at a later one.  Between the  *)
(* two the customer goes on shopping, other checkouts of the same cart run,*)
(* with the same idempotency key or another, and handlers end early.       *)
(*                                                                         *)
(* The cart is a set of units that are put into it once each, so that it   *)
(* can be said of every unit what became of it.  Reservations are those of *)
(* OrderService; here they succeed or not.  checkout holds the lock of the *)
(* order's row from the moment it has found the order to its commit.       *)
(***************************************************************************)
EXTENDS Naturals

CONSTANTS
    Units,             \* what the customer may put into the cart
    Keys,              \* idempotency keys; an order is found by its key
    CheckoutHandlers,  \* executions of checkout that may run at once
    MaxClears          \* bound: DELETE /cart in flight for one order

ASSUME CheckoutAssumption == Keys # {} /\ MaxClears \in Nat

VARIABLES
    shopping,          \* shopping.cart: the cart; put, removed: below
    orders,            \* orders[k]: the row
    clears,            \* clears[k]: DELETE /cart in flight for the order
    checkoutRequest    \* checkoutRequest[h]: what h works on

checkoutVars == <<shopping, orders, clears, checkoutRequest>>

(* Not in any store, but kept to speak about units: those that were ever   *)
(* put into the cart; those the customer took out or the cart's expiry     *)
(* removed.                                                                *)
ShoppingType == [cart: SUBSET Units, put: SUBSET Units, removed: SUBSET Units]

(* "placed" stands for pending_payment and what follows it.  Kept besides: *)
(* known, the units put into the cart before the order's snapshot of it;   *)
(* reached, that it was placed once; unheard, that a handler ended after   *)
(* it placed the order, or that a DELETE was lost.                         *)
OrderType ==
    [status: {"absent", "reserving", "placed", "failed", "cancelled"},
     items: SUBSET Units, known: SUBSET Units, reached: BOOLEAN, unheard: BOOLEAN]

NoOrderYet ==
    [status |-> "absent", items |-> {}, known |-> {}, reached |-> FALSE, unheard |-> FALSE]

CheckoutType ==
    [pc: {"idle", "snapshot", "insert", "relock", "reread", "reserving", "clearing"},
     key: Keys, items: SUBSET Units, known: SUBSET Units]

CheckoutIdle ==
    [pc |-> "idle", key |-> CHOOSE k \in Keys : TRUE, items |-> {}, known |-> {}]

CheckoutInit ==
    /\ shopping = [cart |-> {}, put |-> {}, removed |-> {}]
    /\ orders = [k \in Keys |-> NoOrderYet]
    /\ clears = [k \in Keys |-> 0]
    /\ checkoutRequest = [h \in CheckoutHandlers |-> CheckoutIdle]

CheckoutGo(h, new) == checkoutRequest' = [checkoutRequest EXCEPT ![h] = new]

CheckoutAt(h, pc) == checkoutRequest[h].pc = pc

KeyOf(h) == checkoutRequest[h].key

RowFree(k) ==
    \A g \in CheckoutHandlers : ~(CheckoutAt(g, "reserving") /\ KeyOf(g) = k)

-----------------------------------------------------------------------------
(* The customer                                                            *)

PutIntoCart(u) ==
    /\ u \notin shopping.put
    /\ shopping' = [shopping EXCEPT !.cart = @ \cup {u}, !.put = @ \cup {u}]
    /\ UNCHANGED <<orders, clears, checkoutRequest>>

TakeOutOfCart(us) ==
    /\ us # {}
    /\ us \subseteq shopping.cart
    /\ shopping' = [shopping EXCEPT !.cart = @ \ us, !.removed = @ \cup us]
    /\ UNCHANGED <<orders, clears, checkoutRequest>>

-----------------------------------------------------------------------------
(* checkout up to the reservation                                          *)

(* A checkout that finds its order goes on with it or answers from it.     *)
Join(h, k) ==
    CheckoutGo(h, IF orders[k].status = "reserving"
                  THEN [CheckoutIdle EXCEPT !.pc = "reserving", !.key = k]
                  ELSE CheckoutIdle)

FindOrder(h, k) ==
    /\ CheckoutAt(h, "idle")
    /\ RowFree(k)
    /\ IF orders[k].status = "absent"
       THEN CheckoutGo(h, [CheckoutIdle EXCEPT !.pc = "snapshot", !.key = k])
       ELSE Join(h, k)
    /\ UNCHANGED <<shopping, orders, clears>>

(* Fault: what is unavailable is left out of the order.                    *)
OrderableOnly(items) == items # {} /\ items \subseteq shopping.cart

(* An empty cart, or one with a line that is not available, is an Abort.   *)
Orderable(items) == items # {} /\ items = shopping.cart

ReadCart(h, items) ==
    /\ CheckoutAt(h, "snapshot")
    /\ Orderable(items)
    /\ CheckoutGo(h, [checkoutRequest[h] EXCEPT !.pc = "insert", !.items = items,
                                                !.known = shopping.put])
    /\ UNCHANGED <<shopping, orders, clears>>

InsertOrder(h) ==
    LET r == checkoutRequest[h] IN
    /\ r.pc = "insert"
    /\ IF orders[r.key].status = "absent"
       THEN /\ orders' = [orders EXCEPT ![r.key] = [NoOrderYet EXCEPT !.status = "reserving",
                                                      !.items = r.items, !.known = r.known]]
            /\ CheckoutGo(h, [CheckoutIdle EXCEPT !.pc = "relock", !.key = r.key])
       ELSE /\ CheckoutGo(h, [CheckoutIdle EXCEPT !.pc = "reread", !.key = r.key])
            /\ UNCHANGED orders
    /\ UNCHANGED <<shopping, clears>>

(* The handler that inserted keeps its copy: whatever the row says now.    *)
RelockOrder(h) ==
    /\ CheckoutAt(h, "relock")
    /\ RowFree(KeyOf(h))
    /\ CheckoutGo(h, [checkoutRequest[h] EXCEPT !.pc = "reserving"])
    /\ UNCHANGED <<shopping, orders, clears>>

RereadOrder(h) ==
    /\ CheckoutAt(h, "reread")
    /\ RowFree(KeyOf(h))
    /\ Join(h, KeyOf(h))
    /\ UNCHANGED <<shopping, orders, clears>>

-----------------------------------------------------------------------------
(* _finalize_checkout                                                      *)

(* Fault: a handler that joined an order leaves the cart to the other.     *)
OrderReservedQuietly(h) ==
    /\ CheckoutAt(h, "reserving")
    /\ orders' = [orders EXCEPT ![KeyOf(h)].status = "placed", ![KeyOf(h)].reached = TRUE]
    /\ CheckoutGo(h, CheckoutIdle)
    /\ UNCHANGED <<shopping, clears>>

OrderReserved(h) ==
    /\ CheckoutAt(h, "reserving")
    /\ orders' = [orders EXCEPT ![KeyOf(h)].status = "placed", ![KeyOf(h)].reached = TRUE]
    /\ CheckoutGo(h, [checkoutRequest[h] EXCEPT !.pc = "clearing"])
    /\ UNCHANGED <<shopping, clears>>

OrderRefused(h) ==
    /\ CheckoutAt(h, "reserving")
    /\ orders' = [orders EXCEPT ![KeyOf(h)].status = "failed"]
    /\ CheckoutGo(h, CheckoutIdle)
    /\ UNCHANGED <<shopping, clears>>

(* Nothing after it changes what is stored: the handler need not wait.     *)
SendClear(h) ==
    /\ CheckoutAt(h, "clearing")
    /\ clears[KeyOf(h)] < MaxClears
    /\ clears' = [clears EXCEPT ![KeyOf(h)] = @ + 1]
    /\ CheckoutGo(h, CheckoutIdle)
    /\ UNCHANGED <<shopping, orders>>

CheckoutAborts(h) ==
    /\ ~CheckoutAt(h, "idle")
    /\ orders' = IF CheckoutAt(h, "clearing") THEN [orders EXCEPT ![KeyOf(h)].unheard = TRUE]
                 ELSE orders
    /\ CheckoutGo(h, CheckoutIdle)
    /\ UNCHANGED <<shopping, clears>>

-----------------------------------------------------------------------------
(* Behind checkout                                                         *)

(* The DELETE may run long after the checkout has given up waiting.        *)
CartCleared(k) ==
    /\ clears[k] > 0
    /\ clears' = [clears EXCEPT ![k] = @ - 1]
    /\ shopping' = [shopping EXCEPT !.cart = {}]
    /\ UNCHANGED <<orders, checkoutRequest>>

ClearLost(k) ==
    /\ clears[k] > 0
    /\ clears' = [clears EXCEPT ![k] = @ - 1]
    /\ orders' = [orders EXCEPT ![k].unheard = TRUE]
    /\ UNCHANGED <<shopping, checkoutRequest>>

(* cancel_order, update_order_status, expire_reservations                  *)
OrderCancelled(k) ==
    /\ RowFree(k)
    /\ orders[k].status \in {"reserving", "placed"}
    /\ orders' = [orders EXCEPT ![k].status = "cancelled"]
    /\ UNCHANGED <<shopping, clears, checkoutRequest>>

-----------------------------------------------------------------------------

CheckoutNext ==
    \/ \E u \in Units : PutIntoCart(u)
    \/ \E us \in SUBSET Units : TakeOutOfCart(us)
    \/ \E h \in CheckoutHandlers :
          \/ \E k \in Keys : FindOrder(h, k)
          \/ \E items \in SUBSET Units : ReadCart(h, items)
          \/ InsertOrder(h) \/ RelockOrder(h) \/ RereadOrder(h)
          \/ OrderReserved(h) \/ OrderRefused(h) \/ SendClear(h) \/ CheckoutAborts(h)
    \/ \E k \in Keys : CartCleared(k) \/ ClearLost(k) \/ OrderCancelled(k)

CheckoutSpec == CheckoutInit /\ [][CheckoutNext]_checkoutVars

-----------------------------------------------------------------------------
(* Properties                                                              *)

(* Types; and an order is of units that were put into the cart before its  *)
(* snapshot, never none.                                                   *)
CheckoutTypeOK ==
    /\ shopping \in ShoppingType
    /\ shopping.cart \cup shopping.removed \subseteq shopping.put
    /\ orders \in [Keys -> OrderType]
    /\ clears \in [Keys -> 0..MaxClears]
    /\ checkoutRequest \in [CheckoutHandlers -> CheckoutType]
    /\ \A k \in Keys :
          /\ orders[k].items \subseteq orders[k].known
          /\ orders[k].known \subseteq shopping.put
          /\ orders[k].status # "absent" => orders[k].items # {}

Placed == {k \in Keys : orders[k].reached}

(* No unit vanishes unless it was bought: what is neither in the cart nor  *)
(* taken out of it is in an order that was placed, or was put into the cart*)
(* after such an order had taken its snapshot.  The second is what a clear *)
(* that comes later than the snapshot can cost.                            *)
NothingLost ==
    \A u \in shopping.put \ (shopping.cart \cup shopping.removed) :
       \E k \in Placed : u \in orders[k].items \/ u \notin orders[k].known

(* What an order has bought leaves the cart, however many retries and      *)
(* duplicates the checkout had: a placed order's units stay in it only     *)
(* while its clear is under way, or after a fault between the commit and   *)
(* the clear; a replayed checkout does not clear again.                    *)
BoughtLeavesCart ==
    \A k \in Placed :
       orders[k].items \cap shopping.cart # {} =>
          \/ orders[k].unheard
          \/ clears[k] > 0
          \/ \E h \in CheckoutHandlers : CheckoutAt(h, "clearing") /\ KeyOf(h) = k
=============================================================================
