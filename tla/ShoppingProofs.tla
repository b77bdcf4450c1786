---------------------------- MODULE ShoppingProofs ----------------------------
(***************************************************************************)
(* Proofs about what a customer does: CheckoutCart, for any units, keys and*)
(* handlers, and Storefront, for any requests, carts and variants; and     *)
(* about MCShop, which puts them beside the catalogue.                     *)
(***************************************************************************)
EXTENDS MCShop, CatalogueProofs, TLAPS

-----------------------------------------------------------------------------
(* CheckoutCart: the inductive invariant                                   *)

(* What is in the cart and was there before a snapshot is in the snapshot. *)
Covers(items, known) == shopping.cart \cap known \subseteq items

(* A snapshot that is not inserted yet covers the cart; the order that a   *)
(* handler goes on with exists, the one it clears the cart for was placed. *)
RequestsSound ==
    \A h \in CheckoutHandlers :
       LET r == checkoutRequest[h] IN
       /\ r.items \subseteq r.known /\ r.known \subseteq shopping.put
       /\ r.pc = "insert" => r.items # {} /\ Covers(r.items, r.known)
       /\ r.pc \in {"relock", "reread", "reserving", "clearing"} => orders[r.key].status # "absent"
       /\ r.pc = "clearing" => orders[r.key].reached

OrdersSound ==
    \A k \in Keys :
       /\ orders[k].status # "absent" => Covers(orders[k].items, orders[k].known)
       /\ orders[k].status = "absent" => ~orders[k].reached
       /\ clears[k] > 0 => orders[k].reached

CheckoutInv ==
    CheckoutTypeOK /\ RequestsSound /\ OrdersSound /\ NothingLost /\ BoughtLeavesCart

LEMMA CheckoutTypes ==
  ASSUME CheckoutInv
  PROVE  /\ shopping \in ShoppingType
         /\ orders \in [Keys -> OrderType]
         /\ clears \in [Keys -> 0..MaxClears]
         /\ checkoutRequest \in [CheckoutHandlers -> CheckoutType]
         /\ MaxClears \in Nat
BY CheckoutAssumption DEF CheckoutInv, CheckoutTypeOK

LEMMA CheckoutIdleFacts ==
  /\ CheckoutIdle \in CheckoutType
  /\ CheckoutIdle.pc = "idle" /\ CheckoutIdle.items = {} /\ CheckoutIdle.known = {}
BY CheckoutAssumption DEF CheckoutIdle, CheckoutType

LEMMA KeyTyped ==
  ASSUME CheckoutInv, NEW h \in CheckoutHandlers
  PROVE  KeyOf(h) \in Keys
BY CheckoutTypes DEF KeyOf, CheckoutType

LEMMA JoinedType ==
  ASSUME NEW k \in Keys, NEW pc \in {"snapshot", "relock", "reread", "reserving"}
  PROVE  LET w == [CheckoutIdle EXCEPT !.pc = pc, !.key = k] IN
         w \in CheckoutType /\ w.pc = pc /\ w.key = k /\ w.items = {} /\ w.known = {}
BY CheckoutIdleFacts DEF CheckoutType

(* A step that only changes what a handler works on, and is not the end of *)
(* one that was to clear the cart.                                         *)
LEMMA CheckoutMoves ==
  ASSUME CheckoutInv, NEW h \in CheckoutHandlers, NEW w \in CheckoutType, CheckoutGo(h, w),
         shopping' = shopping, orders' = orders, clears' = clears,
         checkoutRequest[h].pc # "clearing", w.pc # "clearing",
         w.items \subseteq w.known, w.known \subseteq shopping.put,
         w.pc = "insert" => w.items # {} /\ Covers(w.items, w.known),
         w.pc \in {"relock", "reread", "reserving"} => orders[w.key].status # "absent"
  PROVE  CheckoutInv'
<1>1. /\ checkoutRequest'[h] = w
      /\ \A g \in CheckoutHandlers \ {h} : checkoutRequest'[g] = checkoutRequest[g]
      /\ checkoutRequest' \in [CheckoutHandlers -> CheckoutType]
  BY CheckoutTypes DEF CheckoutGo
<1>2. CheckoutTypeOK'
  BY <1>1 DEF CheckoutInv, CheckoutTypeOK
<1>3. RequestsSound'
  BY <1>1 DEF CheckoutInv, RequestsSound, Covers
<1>4. OrdersSound' /\ NothingLost'
  BY DEF CheckoutInv, OrdersSound, NothingLost, Placed, Covers
<1>5. BoughtLeavesCart'
  BY <1>1 DEF CheckoutInv, BoughtLeavesCart, Placed, CheckoutAt, KeyOf
<1> QED BY <1>2, <1>3, <1>4, <1>5 DEF CheckoutInv

LEMMA Joined ==
  ASSUME CheckoutInv, NEW h \in CheckoutHandlers, NEW k \in Keys, Join(h, k),
         shopping' = shopping, orders' = orders, clears' = clears,
         checkoutRequest[h].pc # "clearing"
  PROVE  CheckoutInv'
<1>1. CASE orders[k].status = "reserving"
  <2>1. CheckoutGo(h, [CheckoutIdle EXCEPT !.pc = "reserving", !.key = k])
    BY <1>1 DEF Join
  <2> QED BY <1>1, <2>1, JoinedType, CheckoutMoves
<1>2. CASE orders[k].status # "reserving"
  <2>1. CheckoutGo(h, CheckoutIdle)
    BY <1>2 DEF Join
  <2> QED BY <2>1, CheckoutIdleFacts, CheckoutMoves
<1> QED BY <1>1, <1>2

LEMMA OrderFound ==
  ASSUME CheckoutInv, NEW h \in CheckoutHandlers, NEW k \in Keys, FindOrder(h, k)
  PROVE  CheckoutInv'
<1>0. /\ shopping' = shopping /\ orders' = orders /\ clears' = clears
      /\ checkoutRequest[h].pc = "idle"
  BY DEF FindOrder, CheckoutAt
<1>1. CASE orders[k].status = "absent"
  <2>1. CheckoutGo(h, [CheckoutIdle EXCEPT !.pc = "snapshot", !.key = k])
    BY <1>1 DEF FindOrder
  <2> QED BY <1>0, <2>1, JoinedType, CheckoutMoves
<1>2. CASE orders[k].status # "absent"
  BY <1>0, <1>2, Joined DEF FindOrder
<1> QED BY <1>1, <1>2

(* The snapshot is the cart, so that it covers it.                         *)
LEMMA CartRead ==
  ASSUME CheckoutInv, NEW h \in CheckoutHandlers, NEW items \in SUBSET Units, ReadCart(h, items)
  PROVE  CheckoutInv'
<1> DEFINE w == [checkoutRequest[h] EXCEPT !.pc = "insert", !.items = items,
                                           !.known = shopping.put]
<1>1. /\ w \in CheckoutType /\ w.pc = "insert" /\ w.items = items /\ w.known = shopping.put
  BY CheckoutTypes DEF CheckoutType, ShoppingType
<1>2. /\ CheckoutGo(h, w) /\ shopping' = shopping /\ orders' = orders /\ clears' = clears
      /\ checkoutRequest[h].pc = "snapshot"
      /\ items # {} /\ items = shopping.cart /\ items \subseteq shopping.put
  BY DEF ReadCart, CheckoutAt, Orderable, CheckoutInv, CheckoutTypeOK
<1> HIDE DEF w
<1> QED BY <1>1, <1>2, CheckoutMoves DEF Covers

LEMMA Relocked ==
  ASSUME CheckoutInv, NEW h \in CheckoutHandlers, RelockOrder(h) \/ RereadOrder(h)
  PROVE  CheckoutInv'
<1>0. /\ shopping' = shopping /\ orders' = orders /\ clears' = clears
      /\ checkoutRequest[h].pc \in {"relock", "reread"}
  BY DEF RelockOrder, RereadOrder, CheckoutAt
<1>1. CASE RelockOrder(h)
  <2> DEFINE w == [checkoutRequest[h] EXCEPT !.pc = "reserving"]
  <2>1. /\ w \in CheckoutType /\ w.pc = "reserving" /\ w.items = checkoutRequest[h].items
        /\ w.known = checkoutRequest[h].known /\ w.key = checkoutRequest[h].key
    BY CheckoutTypes DEF CheckoutType
  <2>2. CheckoutGo(h, w)
    BY <1>1 DEF RelockOrder
  <2> HIDE DEF w
  <2> QED BY <1>0, <2>1, <2>2, CheckoutMoves DEF CheckoutInv, RequestsSound
<1>2. CASE RereadOrder(h)
  BY <1>0, <1>2, KeyTyped, Joined DEF RereadOrder
<1> QED BY <1>1, <1>2

(* A step that writes the row of an order that exists, and keeps what it   *)
(* is of; handlers end, or go on to clear the cart for it.                 *)
LEMMA RowMoves ==
  ASSUME CheckoutInv, NEW k \in Keys, NEW row \in OrderType,
         orders' = [orders EXCEPT ![k] = row], shopping' = shopping,
         orders[k].status # "absent", row.status # "absent",
         row.items = orders[k].items, row.known = orders[k].known,
         orders[k].reached => row.reached,
         clears' \in [Keys -> 0..MaxClears],
         \A j \in Keys : clears'[j] > 0 => clears[j] > 0,
         checkoutRequest' \in [CheckoutHandlers -> CheckoutType],
         \A g \in CheckoutHandlers :
            LET r == checkoutRequest[g]
                w == checkoutRequest'[g] IN
            \/ w = r
            \/ w = CheckoutIdle
            \/ /\ w.pc = "clearing" /\ w.key = k /\ row.reached
               /\ w.items = r.items /\ w.known = r.known
  PROVE  CheckoutTypeOK' /\ RequestsSound' /\ OrdersSound' /\ NothingLost'
<1>1. /\ orders'[k] = row
      /\ \A j \in Keys \ {k} : orders'[j] = orders[j]
      /\ orders' \in [Keys -> OrderType]
  BY CheckoutTypes
<1>2. CheckoutTypeOK'
  BY <1>1, CheckoutTypes DEF CheckoutInv, CheckoutTypeOK
<1>3. OrdersSound'
  BY <1>1, CheckoutTypes DEF CheckoutInv, OrdersSound, Covers
<1>4. NothingLost'
  BY <1>1 DEF CheckoutInv, NothingLost, Placed
<1>5. RequestsSound'
  <2> SUFFICES ASSUME NEW g \in CheckoutHandlers
               PROVE  LET w == checkoutRequest'[g] IN
                      /\ w.items \subseteq w.known /\ w.known \subseteq shopping.put
                      /\ w.pc = "insert" => w.items # {} /\ Covers(w.items, w.known)
                      /\ w.pc \in {"relock", "reread", "reserving", "clearing"} =>
                            orders'[w.key].status # "absent"
                      /\ w.pc = "clearing" => orders'[w.key].reached
    BY DEF RequestsSound, Covers
  <2>1. checkoutRequest'[g].key \in Keys /\ checkoutRequest[g].key \in Keys
    BY CheckoutTypes DEF CheckoutType
  <2>2. CASE checkoutRequest'[g] = checkoutRequest[g]
    BY <1>1, <2>1, <2>2 DEF CheckoutInv, RequestsSound
  <2>3. CASE checkoutRequest'[g] # checkoutRequest[g]
    BY <1>1, <2>1, <2>3, CheckoutIdleFacts DEF CheckoutInv, RequestsSound
  <2> QED BY <2>2, <2>3
<1> QED BY <1>2, <1>3, <1>4, <1>5

(* The clear of an order's cart is under way.                              *)
Clearing(k) ==
    clears[k] > 0 \/ \E h \in CheckoutHandlers : CheckoutAt(h, "clearing") /\ KeyOf(h) = k

(* What is still to be cleared, when the rest of the invariant holds.      *)
LEMMA StillClearing ==
  ASSUME CheckoutInv, shopping'.cart \subseteq shopping.cart,
         \A k \in Keys :
            orders'[k].reached /\ ~orders'[k].unheard =>
               \/ Clearing(k)'
               \/ /\ orders[k].reached /\ ~orders[k].unheard /\ orders'[k].items = orders[k].items
                  /\ ~Clearing(k)
  PROVE  BoughtLeavesCart'
BY DEF CheckoutInv, BoughtLeavesCart, Placed, Clearing

LEMMA Reserved ==
  ASSUME CheckoutInv, NEW h \in CheckoutHandlers, OrderReserved(h)
  PROVE  CheckoutInv'
<1>k. PICK k \in Keys : k = KeyOf(h)
  BY KeyTyped
<1> DEFINE r == checkoutRequest[h]
           row == [orders[k] EXCEPT !.status = "placed", !.reached = TRUE]
           w == [r EXCEPT !.pc = "clearing"]
<1>1. /\ r.key = k /\ r.pc = "reserving" /\ orders[k].status # "absent"
      /\ orders[k] \in OrderType /\ r \in CheckoutType
      /\ shopping' = shopping /\ clears' = clears
  BY <1>k, CheckoutTypes DEF OrderReserved, CheckoutAt, KeyOf, CheckoutInv, RequestsSound
<1>2. /\ row \in OrderType /\ row.status = "placed" /\ row.reached
      /\ row.items = orders[k].items /\ row.known = orders[k].known
  BY <1>1 DEF OrderType
<1>3. /\ w \in CheckoutType /\ w.pc = "clearing" /\ w.key = k
      /\ w.items = r.items /\ w.known = r.known
  BY <1>1 DEF CheckoutType
<1>4. /\ orders' = [orders EXCEPT ![k] = row]
      /\ checkoutRequest' = [checkoutRequest EXCEPT ![h] = w]
  BY <1>k, <1>1, CheckoutTypes DEF OrderReserved, CheckoutGo, KeyOf
<1> HIDE DEF row, w
<1>5. /\ checkoutRequest' \in [CheckoutHandlers -> CheckoutType]
      /\ checkoutRequest'[h] = w
      /\ \A g \in CheckoutHandlers \ {h} : checkoutRequest'[g] = checkoutRequest[g]
  BY <1>3, <1>4, CheckoutTypes
<1>6. CheckoutTypeOK' /\ RequestsSound' /\ OrdersSound' /\ NothingLost'
  <2>1. /\ clears' \in [Keys -> 0..MaxClears]
        /\ \A j \in Keys : clears'[j] > 0 => clears[j] > 0
    BY <1>1, CheckoutTypes
  <2>2. \A g \in CheckoutHandlers :
           \/ checkoutRequest'[g] = checkoutRequest[g]
           \/ /\ checkoutRequest'[g].pc = "clearing" /\ checkoutRequest'[g].key = k
              /\ checkoutRequest'[g].items = checkoutRequest[g].items
              /\ checkoutRequest'[g].known = checkoutRequest[g].known
    BY <1>3, <1>5
  <2>3. /\ orders[k].status # "absent" /\ row.status # "absent" /\ row \in OrderType /\ row.reached
        /\ row.items = orders[k].items /\ row.known = orders[k].known
        /\ shopping' = shopping /\ orders' = [orders EXCEPT ![k] = row]
        /\ checkoutRequest' \in [CheckoutHandlers -> CheckoutType]
    BY <1>1, <1>2, <1>4, <1>5
  <2> HIDE DEF r
  <2> QED BY <2>1, <2>2, <2>3, RowMoves
<1>7. BoughtLeavesCart'
  <2>1. Clearing(k)'
    BY <1>3, <1>5 DEF Clearing, CheckoutAt, KeyOf
  <2>2. ASSUME NEW j \in Keys \ {k}
        PROVE  orders'[j] = orders[j] /\ (Clearing(j) => Clearing(j)')
    BY <1>1, <1>4, <1>5, CheckoutTypes DEF Clearing, CheckoutAt, KeyOf
  <2> QED BY <1>1, <2>1, <2>2, StillClearing
<1> QED BY <1>6, <1>7 DEF CheckoutInv

(* A handler that ends: what it was to clear is noted on the order, or was *)
(* sent.                                                                   *)
LEMMA Ended ==
  ASSUME CheckoutInv, NEW h \in CheckoutHandlers,
         NEW k \in Keys, k = KeyOf(h),
         NEW row \in OrderType,
         orders[k].status # "absent", row.status # "absent",
         row.items = orders[k].items, row.known = orders[k].known,
         row.reached = orders[k].reached,
         orders[k].unheard => row.unheard,
         CheckoutAt(h, "clearing") => row.unheard,
         CheckoutGo(h, CheckoutIdle),
         orders' = [orders EXCEPT ![k] = row], shopping' = shopping, clears' = clears
  PROVE  CheckoutInv'
<1>1. /\ checkoutRequest' \in [CheckoutHandlers -> CheckoutType]
      /\ checkoutRequest'[h] = CheckoutIdle
      /\ \A g \in CheckoutHandlers \ {h} : checkoutRequest'[g] = checkoutRequest[g]
  BY CheckoutTypes, CheckoutIdleFacts DEF CheckoutGo
<1>2. CheckoutTypeOK' /\ RequestsSound' /\ OrdersSound' /\ NothingLost'
  <2>1. /\ clears' \in [Keys -> 0..MaxClears]
        /\ \A j \in Keys : clears'[j] > 0 => clears[j] > 0
    BY CheckoutTypes
  <2>2. \A g \in CheckoutHandlers : \/ checkoutRequest'[g] = checkoutRequest[g]
                                    \/ checkoutRequest'[g] = CheckoutIdle
    BY <1>1
  <2>3. orders[k].reached => row.reached
    OBVIOUS
  <2> QED BY <1>1, <2>1, <2>2, <2>3, RowMoves
<1>3. /\ orders'[k] = row
      /\ \A j \in Keys \ {k} : orders'[j] = orders[j]
  BY CheckoutTypes
<1>4. ASSUME NEW j \in Keys, j # k \/ ~CheckoutAt(h, "clearing")
      PROVE  Clearing(j) => Clearing(j)'
  BY <1>1, <1>4 DEF Clearing, CheckoutAt, KeyOf
<1>5. BoughtLeavesCart'
  BY <1>3, <1>4, StillClearing
<1> QED BY <1>2, <1>5 DEF CheckoutInv

LEMMA Refused ==
  ASSUME CheckoutInv, NEW h \in CheckoutHandlers, OrderRefused(h)
  PROVE  CheckoutInv'
<1>k. PICK k \in Keys : k = KeyOf(h)
  BY KeyTyped
<1> DEFINE row == [orders[k] EXCEPT !.status = "failed"]
<1>1. /\ checkoutRequest[h].pc = "reserving" /\ orders[k].status # "absent"
      /\ orders[k] \in OrderType /\ ~CheckoutAt(h, "clearing")
      /\ shopping' = shopping /\ clears' = clears /\ CheckoutGo(h, CheckoutIdle)
  BY <1>k, CheckoutTypes DEF OrderRefused, CheckoutAt, KeyOf, CheckoutInv, RequestsSound
<1>2. /\ row \in OrderType /\ row.status = "failed" /\ row.reached = orders[k].reached
      /\ row.items = orders[k].items /\ row.known = orders[k].known
      /\ row.unheard = orders[k].unheard
  BY <1>1 DEF OrderType
<1>3. orders' = [orders EXCEPT ![k] = row]
  BY <1>k, CheckoutTypes DEF OrderRefused
<1> HIDE DEF row
<1> QED BY <1>k, <1>1, <1>2, <1>3, Ended

LEMMA Aborted ==
  ASSUME CheckoutInv, NEW h \in CheckoutHandlers, CheckoutAborts(h)
  PROVE  CheckoutInv'
<1>k. PICK k \in Keys : k = KeyOf(h)
  BY KeyTyped
<1>1. shopping' = shopping /\ clears' = clears /\ CheckoutGo(h, CheckoutIdle)
  BY DEF CheckoutAborts
<1>2. CASE CheckoutAt(h, "clearing")
  <2> DEFINE row == [orders[k] EXCEPT !.unheard = TRUE]
  <2>1. orders[k].status # "absent" /\ orders[k] \in OrderType
    BY <1>k, <1>2, CheckoutTypes DEF CheckoutAt, KeyOf, CheckoutInv, RequestsSound
  <2>2. /\ row \in OrderType /\ row.status = orders[k].status /\ row.unheard
        /\ row.items = orders[k].items /\ row.known = orders[k].known
        /\ row.reached = orders[k].reached
    BY <2>1 DEF OrderType
  <2>3. orders' = [orders EXCEPT ![k] = row]
    BY <1>k, <1>2, CheckoutTypes DEF CheckoutAborts
  <2> HIDE DEF row
  <2> QED BY <1>k, <1>1, <2>1, <2>2, <2>3, Ended
<1>3. CASE ~CheckoutAt(h, "clearing")
  <2>1. orders' = orders /\ checkoutRequest[h].pc # "clearing"
    BY <1>3 DEF CheckoutAborts, CheckoutAt
  <2> QED BY <1>1, <2>1, CheckoutIdleFacts, CheckoutMoves
<1> QED BY <1>2, <1>3

LEMMA ClearSent ==
  ASSUME CheckoutInv, NEW h \in CheckoutHandlers, SendClear(h)
  PROVE  CheckoutInv'
<1>k. PICK k \in Keys : k = KeyOf(h)
  BY KeyTyped
<1>1. /\ checkoutRequest[h].pc = "clearing" /\ orders[k].reached /\ CheckoutGo(h, CheckoutIdle)
      /\ shopping' = shopping /\ orders' = orders
      /\ clears[k] < MaxClears /\ clears' = [clears EXCEPT ![k] = clears[k] + 1]
  BY <1>k, CheckoutTypes DEF SendClear, CheckoutAt, KeyOf, CheckoutInv, RequestsSound
<1>2. /\ clears' \in [Keys -> 0..MaxClears] /\ clears'[k] > 0
      /\ \A j \in Keys \ {k} : clears'[j] = clears[j]
  BY <1>1, CheckoutTypes
<1>3. /\ checkoutRequest' \in [CheckoutHandlers -> CheckoutType]
      /\ checkoutRequest'[h] = CheckoutIdle
      /\ \A g \in CheckoutHandlers \ {h} : checkoutRequest'[g] = checkoutRequest[g]
  BY <1>1, CheckoutTypes, CheckoutIdleFacts DEF CheckoutGo
<1>4. CheckoutTypeOK'
  BY <1>1, <1>2, <1>3 DEF CheckoutInv, CheckoutTypeOK
<1>5. RequestsSound'
  BY <1>1, <1>3, CheckoutIdleFacts DEF CheckoutInv, RequestsSound, Covers
<1>6. OrdersSound' /\ NothingLost'
  BY <1>1, <1>2 DEF CheckoutInv, OrdersSound, NothingLost, Placed, Covers
<1>7. ASSUME NEW j \in Keys
      PROVE  Clearing(j) => Clearing(j)'
  BY <1>k, <1>2, <1>3, <1>7 DEF Clearing, CheckoutAt, KeyOf
<1>8. BoughtLeavesCart'
  BY <1>1, <1>7, StillClearing
<1> QED BY <1>4, <1>5, <1>6, <1>8 DEF CheckoutInv

LEMMA OrderInserted ==
  ASSUME CheckoutInv, NEW h \in CheckoutHandlers, InsertOrder(h)
  PROVE  CheckoutInv'
<1>k. PICK k \in Keys : k = KeyOf(h)
  BY KeyTyped
<1> DEFINE r == checkoutRequest[h]
           row == [NoOrderYet EXCEPT !.status = "reserving", !.items = r.items, !.known = r.known]
           w == [CheckoutIdle EXCEPT !.pc = "relock", !.key = k]
<1>1. /\ r.pc = "insert" /\ r.key = k /\ r \in CheckoutType
      /\ r.items # {} /\ Covers(r.items, r.known)
      /\ r.items \subseteq r.known /\ r.known \subseteq shopping.put
      /\ shopping' = shopping /\ clears' = clears
  BY <1>k, CheckoutTypes DEF InsertOrder, KeyOf, CheckoutInv, RequestsSound
<1>2. CASE orders[k].status # "absent"
  <2>1. /\ orders' = orders
        /\ CheckoutGo(h, [CheckoutIdle EXCEPT !.pc = "reread", !.key = k])
    BY <1>k, <1>2 DEF InsertOrder, KeyOf
  <2> DEFINE v == [CheckoutIdle EXCEPT !.pc = "reread", !.key = k]
  <2>2. /\ v \in CheckoutType /\ v.pc = "reread" /\ v.key = k /\ v.items = {} /\ v.known = {}
    BY JoinedType
  <2>3. CheckoutGo(h, v) /\ checkoutRequest[h].pc # "clearing"
    BY <1>1, <2>1
  <2> HIDE DEF v, r
  <2> QED BY <1>1, <1>2, <2>1, <2>2, <2>3, CheckoutMoves
<1>3. CASE orders[k].status = "absent"
  <2>1. /\ orders' = [orders EXCEPT ![k] = row]
        /\ CheckoutGo(h, w)
    BY <1>k, <1>3 DEF InsertOrder, KeyOf
  <2>2. /\ row \in OrderType /\ row.status = "reserving" /\ ~row.reached
        /\ row.items = r.items /\ row.known = r.known
    BY <1>1 DEF NoOrderYet, OrderType, CheckoutType
  <2>3. /\ w \in CheckoutType /\ w.pc = "relock" /\ w.key = k /\ w.items = {} /\ w.known = {}
    BY JoinedType
  <2>4. ~orders[k].reached /\ clears[k] = 0
    BY <1>3, CheckoutTypes DEF CheckoutInv, OrdersSound
  <2> HIDE DEF row, w
  <2>5. /\ orders'[k] = row
        /\ \A j \in Keys \ {k} : orders'[j] = orders[j]
        /\ orders' \in [Keys -> OrderType]
    BY <2>1, <2>2, CheckoutTypes
  <2>6. /\ checkoutRequest' \in [CheckoutHandlers -> CheckoutType]
        /\ checkoutRequest'[h] = w
        /\ \A g \in CheckoutHandlers \ {h} : checkoutRequest'[g] = checkoutRequest[g]
    BY <2>1, <2>3, CheckoutTypes DEF CheckoutGo
  <2>7. CheckoutTypeOK'
    BY <1>1, <2>2, <2>5, <2>6 DEF CheckoutInv, CheckoutTypeOK
  <2>8. RequestsSound'
    <3> SUFFICES ASSUME NEW g \in CheckoutHandlers
                 PROVE  LET q == checkoutRequest'[g] IN
                        /\ q.items \subseteq q.known /\ q.known \subseteq shopping.put
                        /\ q.pc = "insert" => q.items # {} /\ Covers(q.items, q.known)
                        /\ q.pc \in {"relock", "reread", "reserving", "clearing"} =>
                              orders'[q.key].status # "absent"
                        /\ q.pc = "clearing" => orders'[q.key].reached
      BY <1>1 DEF RequestsSound, Covers
    <3>1. CASE g = h
      BY <2>2, <2>3, <2>5, <2>6, <3>1
    <3>2. CASE g # h
      <4>1. checkoutRequest[g].key \in Keys
        BY CheckoutTypes DEF CheckoutType
      <4>2. checkoutRequest[g].pc \in {"relock", "reread", "reserving", "clearing"} =>
               checkoutRequest[g].key # k
        BY <1>3 DEF CheckoutInv, RequestsSound
      <4> QED BY <2>5, <2>6, <3>2, <4>1, <4>2 DEF CheckoutInv, RequestsSound
    <3> QED BY <3>1, <3>2
  <2>9. OrdersSound' /\ NothingLost'
    BY <1>1, <2>2, <2>4, <2>5, CheckoutTypes
    DEF CheckoutInv, OrdersSound, NothingLost, Placed, Covers
  <2>10. ASSUME NEW j \in Keys
         PROVE  Clearing(j) => Clearing(j)'
    BY <1>1, <2>6 DEF Clearing, CheckoutAt, KeyOf
  <2>11. BoughtLeavesCart'
    BY <1>1, <2>2, <2>5, <2>10, StillClearing
  <2> QED BY <2>7, <2>8, <2>9, <2>11 DEF CheckoutInv
<1> QED BY <1>2, <1>3

-----------------------------------------------------------------------------
(* CheckoutCart: the customer, and what is behind checkout                 *)

LEMMA UnitPut ==
  ASSUME CheckoutInv, NEW u \in Units, PutIntoCart(u)
  PROVE  CheckoutInv'
<1>1. /\ shopping'.cart = shopping.cart \cup {u} /\ shopping'.put = shopping.put \cup {u}
      /\ shopping'.removed = shopping.removed /\ shopping' \in ShoppingType
      /\ u \notin shopping.put
      /\ orders' = orders /\ clears' = clears /\ checkoutRequest' = checkoutRequest
  BY CheckoutTypes DEF PutIntoCart, ShoppingType
<1>2. CheckoutTypeOK'
  BY <1>1 DEF CheckoutInv, CheckoutTypeOK
<1>3. RequestsSound' /\ OrdersSound'
  BY <1>1 DEF CheckoutInv, CheckoutTypeOK, RequestsSound, OrdersSound, Covers
<1>4. NothingLost' /\ BoughtLeavesCart'
  BY <1>1 DEF CheckoutInv, CheckoutTypeOK, NothingLost, BoughtLeavesCart, Placed, CheckoutAt, KeyOf
<1> QED BY <1>2, <1>3, <1>4 DEF CheckoutInv

LEMMA UnitsTaken ==
  ASSUME CheckoutInv, NEW us \in SUBSET Units, TakeOutOfCart(us)
  PROVE  CheckoutInv'
<1>1. /\ shopping'.cart = shopping.cart \ us /\ shopping'.put = shopping.put
      /\ shopping'.removed = shopping.removed \cup us /\ shopping' \in ShoppingType
      /\ us \subseteq shopping.cart
      /\ orders' = orders /\ clears' = clears /\ checkoutRequest' = checkoutRequest
  BY CheckoutTypes DEF TakeOutOfCart, ShoppingType
<1>2. CheckoutTypeOK'
  BY <1>1 DEF CheckoutInv, CheckoutTypeOK
<1>3. RequestsSound' /\ OrdersSound'
  BY <1>1 DEF CheckoutInv, RequestsSound, OrdersSound, Covers
<1>4. NothingLost' /\ BoughtLeavesCart'
  BY <1>1 DEF CheckoutInv, NothingLost, BoughtLeavesCart, Placed, CheckoutAt, KeyOf
<1> QED BY <1>2, <1>3, <1>4 DEF CheckoutInv

(* A clear takes what its order has bought, and what was put into the cart *)
(* after the order's snapshot.                                             *)
LEMMA Cleared ==
  ASSUME CheckoutInv, NEW k \in Keys, CartCleared(k)
  PROVE  CheckoutInv'
<1>1. /\ shopping'.cart = {} /\ shopping'.put = shopping.put
      /\ shopping'.removed = shopping.removed /\ shopping' \in ShoppingType
      /\ orders' = orders /\ checkoutRequest' = checkoutRequest
      /\ clears' \in [Keys -> 0..MaxClears]
      /\ \A j \in Keys : clears'[j] > 0 => clears[j] > 0
  BY CheckoutTypes DEF CartCleared, ShoppingType
<1>2. orders[k].reached /\ Covers(orders[k].items, orders[k].known)
  BY DEF CartCleared, CheckoutInv, OrdersSound
<1>3. CheckoutTypeOK'
  BY <1>1 DEF CheckoutInv, CheckoutTypeOK
<1>4. RequestsSound' /\ OrdersSound'
  BY <1>1 DEF CheckoutInv, RequestsSound, OrdersSound, Covers
<1>5. NothingLost'
  BY <1>1, <1>2 DEF CheckoutInv, NothingLost, Placed, Covers
<1>6. BoughtLeavesCart'
  BY <1>1 DEF BoughtLeavesCart
<1> QED BY <1>3, <1>4, <1>5, <1>6 DEF CheckoutInv

(* A step behind checkout that writes the row of an order.                 *)
LEMMA RowBehind ==
  ASSUME CheckoutInv, NEW k \in Keys, ClearLost(k) \/ OrderCancelled(k)
  PROVE  CheckoutInv'
<1>1. PICK row \in OrderType :
         /\ orders' = [orders EXCEPT ![k] = row]
         /\ row.status # "absent" /\ row.reached = orders[k].reached
         /\ row.items = orders[k].items /\ row.known = orders[k].known
         /\ row.unheard \/ (row.unheard = orders[k].unheard /\ clears'[k] = clears[k])
  <2>1. CASE ClearLost(k)
    <3> DEFINE row == [orders[k] EXCEPT !.unheard = TRUE]
    <3>1. orders[k] \in OrderType /\ orders[k].status # "absent"
      BY <2>1, CheckoutTypes DEF ClearLost, CheckoutInv, OrdersSound
    <3>2. /\ row \in OrderType /\ row.status # "absent" /\ row.reached = orders[k].reached
          /\ row.items = orders[k].items /\ row.known = orders[k].known /\ row.unheard
      BY <3>1 DEF OrderType
    <3>3. orders' = [orders EXCEPT ![k] = row]
      BY <2>1, CheckoutTypes DEF ClearLost
    <3> QED BY <3>2, <3>3
  <2>2. CASE OrderCancelled(k)
    <3> DEFINE row == [orders[k] EXCEPT !.status = "cancelled"]
    <3>1. /\ row \in OrderType /\ row.status = "cancelled" /\ row.reached = orders[k].reached
          /\ row.items = orders[k].items /\ row.known = orders[k].known
          /\ row.unheard = orders[k].unheard
      BY CheckoutTypes DEF OrderType
    <3>2. orders' = [orders EXCEPT ![k] = row] /\ clears' = clears
      BY <2>2, CheckoutTypes DEF OrderCancelled
    <3> QED BY <3>1, <3>2
  <2> QED BY <2>1, <2>2
<1>2. /\ shopping' = shopping /\ checkoutRequest' = checkoutRequest
      /\ clears' \in [Keys -> 0..MaxClears]
      /\ \A j \in Keys : clears'[j] > 0 => clears[j] > 0
      /\ \A j \in Keys \ {k} : clears'[j] = clears[j]
      /\ orders[k].status # "absent"
  BY CheckoutTypes DEF ClearLost, OrderCancelled, CheckoutInv, OrdersSound
<1>3. CheckoutTypeOK' /\ RequestsSound' /\ OrdersSound' /\ NothingLost'
  BY <1>1, <1>2, CheckoutTypes, RowMoves
<1>4. /\ orders'[k] = row
      /\ \A j \in Keys \ {k} : orders'[j] = orders[j]
  BY <1>1, CheckoutTypes
<1>5. ASSUME NEW j \in Keys, clears'[j] = clears[j]
      PROVE  Clearing(j) => Clearing(j)'
  BY <1>2, <1>5 DEF Clearing, CheckoutAt, KeyOf
<1>6. BoughtLeavesCart'
  BY <1>1, <1>2, <1>4, <1>5, StillClearing
<1> QED BY <1>3, <1>6 DEF CheckoutInv

(* Every step of checkout and around it preserves the invariant.           *)
LEMMA CheckoutStep == CheckoutInv /\ [CheckoutNext]_checkoutVars => CheckoutInv'
<1> SUFFICES ASSUME CheckoutInv, [CheckoutNext]_checkoutVars
             PROVE  CheckoutInv'
  OBVIOUS
<1>1. CASE UNCHANGED checkoutVars
  BY <1>1 DEF checkoutVars, CheckoutInv, CheckoutTypeOK, RequestsSound, OrdersSound, Covers,
              NothingLost, BoughtLeavesCart, Placed, CheckoutAt, KeyOf
<1> QED BY <1>1, UnitPut, UnitsTaken, OrderFound, CartRead, OrderInserted, Relocked, Reserved,
           Refused, ClearSent, Aborted, Cleared, RowBehind
        DEF CheckoutNext

LEMMA CheckoutStart == CheckoutInit => CheckoutInv
<1> SUFFICES ASSUME CheckoutInit PROVE CheckoutInv
  OBVIOUS
<1>1. /\ shopping.cart = {} /\ shopping.put = {} /\ shopping.removed = {}
      /\ shopping \in ShoppingType
      /\ \A k \in Keys : orders[k] = NoOrderYet /\ clears[k] = 0
      /\ \A h \in CheckoutHandlers : checkoutRequest[h] = CheckoutIdle
  BY DEF CheckoutInit, ShoppingType
<1>2. /\ NoOrderYet \in OrderType /\ NoOrderYet.status = "absent" /\ ~NoOrderYet.reached
      /\ NoOrderYet.items = {} /\ NoOrderYet.known = {}
  BY DEF NoOrderYet, OrderType
<1>3. CheckoutTypeOK
  BY <1>1, <1>2, CheckoutIdleFacts, CheckoutAssumption DEF CheckoutInit, CheckoutTypeOK
<1> QED BY <1>1, <1>2, <1>3, CheckoutIdleFacts
        DEF CheckoutInv, RequestsSound, OrdersSound, NothingLost, BoughtLeavesCart, Placed

(* The inductive invariant holds of every reachable state.                 *)
THEOREM CheckoutInductive == CheckoutSpec => []CheckoutInv
BY CheckoutStart, CheckoutStep, PTL DEF CheckoutSpec

(* The type invariant of checkout: in particular an order is of units that *)
(* were put into the cart before its snapshot, never none.                 *)
THEOREM CheckoutTypeCorrect == CheckoutSpec => []CheckoutTypeOK
<1>1. CheckoutInv => CheckoutTypeOK
  BY DEF CheckoutInv
<1> QED BY <1>1, CheckoutInductive, PTL

(* checkout and its clear of the cart cost no unit, except that was put    *)
(* into the cart after the snapshot of an order that was placed.           *)
THEOREM NoUnitLost == CheckoutSpec => []NothingLost
<1>1. CheckoutInv => NothingLost
  BY DEF CheckoutInv
<1> QED BY <1>1, CheckoutInductive, PTL

(* What an order has bought stays in the cart only while its clear is under*)
(* way or after a fault.                                                   *)
THEOREM BoughtUnitsLeave == CheckoutSpec => []BoughtLeavesCart
<1>1. CheckoutInv => BoughtLeavesCart
  BY DEF CheckoutInv
<1> QED BY <1>1, CheckoutInductive, PTL

-----------------------------------------------------------------------------
(* Storefront: the inductive invariant                                     *)

Known(c) == c = Nothing \/ (c.id \in givenOut /\ c.changes <= stored[c.id])

(* What a request knows of the cart it is about: its answer is of the cart *)
(* that it named, and is not older than what the bag showed before it.     *)
FetchSound(r) ==
    /\ r.id \in givenOut \cup {NoId}
    /\ Known(r.shown)
    /\ Known(r.answer)
    /\ r.shown # Nothing => r.id = r.shown.id
    /\ r.state = "answered" =>
          /\ r.answer.id \in CartIds
          /\ r.id # NoId => r.answer.id = r.id
          /\ r.answer.id = r.shown.id => r.answer.changes >= r.shown.changes

(* A request that no other overlapped still finds what it was sent with.   *)
AloneSound(f) ==
    fetch[f].alone /\ f \in InFlight =>
       /\ InFlight = {f}
       /\ fetch[f].id = rememberedId
       /\ fetch[f].state = "answered" /\ ~fetch[f].uncleared =>
             fetch[f].answer.changes = stored[fetch[f].answer.id]

StoreInv ==
    /\ StorefrontTypeOK
    /\ SpinnersEnd
    /\ givenOut \subseteq CartIds
    /\ bag.cart # Nothing => bag.cart.id = rememberedId
    /\ \A f \in Fetches : FetchSound(fetch[f]) /\ AloneSound(f)

LEMMA StoreTypes ==
  ASSUME StoreInv
  PROVE  /\ bag \in Bag
         /\ rememberedId \in CartIds \cup {NoId}
         /\ fetch \in [Fetches -> Fetch]
         /\ stored \in [CartIds -> 0..MaxChanges]
         /\ NoId \notin CartIds /\ NoVariant \notin Variants /\ MaxChanges \in Nat
BY StorefrontAssumption DEF StoreInv, StorefrontTypeOK

LEMMA NothingFacts ==
  /\ Nothing \in Content
  /\ Nothing.id = NoId /\ Nothing.changes = 0
BY StorefrontAssumption DEF Nothing, Content

LEMMA NoFetchFacts ==
  /\ NoFetch \in Fetch
  /\ NoFetch.state = "free" /\ NoFetch.id = NoId /\ ~NoFetch.alone
  /\ NoFetch.answer = Nothing /\ NoFetch.shown = Nothing
BY NothingFacts DEF NoFetch, Fetch

(* Of the parts of the type invariant that speak of contents.              *)
LEMMA KnownType ==
  ASSUME bag \in Bag, fetch \in [Fetches -> Fetch], stored \in [CartIds -> 0..MaxChanges],
         rememberedId \in givenOut \cup {NoId},
         Known(bag.cart), \A f \in Fetches : Known(fetch[f].answer)
  PROVE  StorefrontTypeOK
BY DEF StorefrontTypeOK, Known

LEMMA KnownFacts ==
  ASSUME StoreInv
  PROVE  /\ Known(bag.cart)
         /\ \A f \in Fetches : fetch[f] \in Fetch /\ FetchSound(fetch[f]) /\ AloneSound(f)
BY StoreTypes DEF StoreInv, StorefrontTypeOK, Known

-----------------------------------------------------------------------------
(* Storefront: requests are sent                                           *)

LEMMA RequestSent ==
  ASSUME StoreInv, NEW f \in Fetches, NEW op \in {"load", "change", "clear", "order"},
         NEW v \in Variants \cup {NoVariant}, SendRequest(f, op, v),
         bag' \in Bag, bag'.cart = bag.cart,
         bag'.isLoading => bag.isLoading \/ op \in {"load", "clear"},
         bag'.pending = bag.pending \/ (op = "change" /\ bag'.pending = v)
  PROVE  StoreInv'
<1> DEFINE w == [NoFetch EXCEPT !.state = "sent", !.op = op, !.id = Header, !.variant = v,
                                !.shown = bag.cart, !.alone = InFlight = {}]
<1>1. /\ w \in Fetch /\ w.state = "sent" /\ w.op = op /\ w.id = rememberedId /\ w.variant = v
      /\ w.shown = bag.cart /\ w.alone = (InFlight = {}) /\ w.answer = Nothing
  <2>1. bag.cart \in Content /\ rememberedId \in CartIds \cup {NoId} /\ (InFlight = {}) \in BOOLEAN
    BY StoreTypes DEF Bag
  <2>2. NoFetch \in Fetch /\ NoFetch.answer = Nothing
    BY NoFetchFacts
  <2> QED BY <2>1, <2>2 DEF Fetch, Header
<1>2. /\ f \notin InFlight
      /\ fetch' = [g \in Fetches |-> IF g = f THEN w ELSE [fetch[g] EXCEPT !.alone = FALSE]]
      /\ rememberedId' = rememberedId /\ stored' = stored /\ givenOut' = givenOut
  BY DEF SendRequest
<1> HIDE DEF w
<1>3. ASSUME NEW g \in Fetches \ {f}
      PROVE  /\ fetch'[g] \in Fetch /\ ~fetch'[g].alone
             /\ fetch'[g].state = fetch[g].state /\ fetch'[g].op = fetch[g].op
             /\ fetch'[g].id = fetch[g].id /\ fetch'[g].variant = fetch[g].variant
             /\ fetch'[g].answer = fetch[g].answer /\ fetch'[g].shown = fetch[g].shown
  <2>1. fetch'[g] = [fetch[g] EXCEPT !.alone = FALSE] /\ fetch[g] \in Fetch
    BY <1>2, StoreTypes
  <2> QED BY <2>1 DEF Fetch
<1>4. fetch'[f] = w /\ fetch' \in [Fetches -> Fetch]
  BY <1>1, <1>2, <1>3
<1>5. \A c : Known(c) => Known(c)'
  BY <1>2 DEF Known
<1>6. Known(bag.cart)' /\ Known(Nothing)'
  BY <1>5, KnownFacts DEF Known
<1>7. InFlight' = InFlight \cup {f}
  BY <1>1, <1>3, <1>4 DEF InFlight
<1>8. ASSUME NEW g \in Fetches
      PROVE  FetchSound(fetch[g])' /\ AloneSound(g)' /\ Known(fetch[g].answer)'
  <2>1. CASE g = f
    BY <1>1, <1>2, <1>4, <1>6, <1>7, <2>1
    DEF FetchSound, AloneSound, StoreInv, StorefrontTypeOK, Known
  <2>2. CASE g # f
    <3>1. Known(fetch[g].shown) /\ Known(fetch[g].answer) /\ FetchSound(fetch[g])
      BY KnownFacts DEF FetchSound
    <3>2. FetchSound(fetch[g])' /\ Known(fetch[g].answer)'
      BY <1>2, <1>3, <2>2, <3>1 DEF FetchSound, Known
    <3>3. AloneSound(g)'
      BY <1>3, <2>2 DEF AloneSound
    <3> QED BY <3>2, <3>3
  <2> QED BY <2>1, <2>2
<1>9. StorefrontTypeOK'
  BY <1>2, <1>4, <1>6, <1>8, StoreTypes DEF StorefrontTypeOK, Known, StoreInv
<1>10. SpinnersEnd'
  <2>0. f \in InFlight' /\ \A g \in InFlight : g \in InFlight' /\ g \in Fetches \ {f}
    BY <1>2, <1>7 DEF InFlight
  <2>1. bag'.isLoading => \E g \in InFlight' : fetch'[g].op \in {"load", "clear"}
    <3>1. CASE bag.isLoading
      BY <1>3, <2>0, <3>1 DEF StoreInv, SpinnersEnd
    <3>2. CASE ~bag.isLoading
      BY <1>1, <1>4, <2>0, <3>2
    <3> QED BY <3>1, <3>2
  <2>2. bag'.pending # NoVariant =>
           \E g \in InFlight' : fetch'[g].op = "change" /\ fetch'[g].variant = bag'.pending
    <3>1. CASE bag'.pending = bag.pending
      BY <1>3, <2>0, <3>1 DEF StoreInv, SpinnersEnd
    <3>2. CASE bag'.pending # bag.pending
      BY <1>1, <1>4, <2>0, <3>2
    <3> QED BY <3>1, <3>2
  <2> QED BY <2>1, <2>2 DEF SpinnersEnd
<1> QED BY <1>2, <1>8, <1>9, <1>10 DEF StoreInv

LEMMA Sending ==
  ASSUME StoreInv, NEW f \in Fetches,
         LoadBag(f) \/ ClearBag(f) \/ OrderBag(f) \/ \E v \in Variants : ChangeBag(f, v)
  PROVE  StoreInv'
<1>1. CASE LoadBag(f) \/ ClearBag(f)
  <2>1. /\ bag' = [bag EXCEPT !.isLoading = TRUE]
        /\ SendRequest(f, "load", NoVariant) \/ SendRequest(f, "clear", NoVariant)
    BY <1>1 DEF LoadBag, ClearBag
  <2>2. bag' \in Bag /\ bag'.cart = bag.cart /\ bag'.pending = bag.pending
    BY <2>1, StoreTypes DEF Bag
  <2>3. NoVariant \in Variants \cup {NoVariant}
    OBVIOUS
  <2> QED BY <2>1, <2>2, <2>3, RequestSent
<1>2. CASE OrderBag(f)
  <2>1. SendRequest(f, "order", NoVariant) /\ bag' = bag /\ bag \in Bag
    BY <1>2, StoreTypes DEF OrderBag
  <2>2. NoVariant \in Variants \cup {NoVariant}
    OBVIOUS
  <2> QED BY <2>1, <2>2, RequestSent
<1>3. ASSUME NEW v \in Variants, ChangeBag(f, v)
      PROVE  StoreInv'
  <2>1. /\ bag' = [bag EXCEPT !.pending = v] /\ SendRequest(f, "change", v)
    BY <1>3 DEF ChangeBag
  <2>2. /\ bag' \in Bag /\ bag'.cart = bag.cart /\ bag'.isLoading = bag.isLoading
        /\ bag'.pending = v
    BY <2>1, StoreTypes DEF Bag
  <2>3. v \in Variants \cup {NoVariant}
    OBVIOUS
  <2> QED BY <2>1, <2>2, <2>3, RequestSent
<1> QED BY <1>1, <1>2, <1>3

-----------------------------------------------------------------------------
(* Storefront: requests are served                                         *)

(* A step of the services that writes an answer.  It may change carts, but *)
(* never takes a change back.                                              *)
LEMMA AnswerWritten ==
  ASSUME StoreInv, NEW f \in Fetches, NEW w \in Fetch,
         fetch' = [fetch EXCEPT ![f] = w], bag' = bag, rememberedId' = rememberedId,
         givenOut \subseteq givenOut', givenOut' \subseteq CartIds,
         stored' \in [CartIds -> 0..MaxChanges], \A i \in CartIds : stored[i] <= stored'[i],
         f \in InFlight, w.state # "free",
         w.op = fetch[f].op, w.variant = fetch[f].variant, w.id = fetch[f].id,
         w.shown = fetch[f].shown, w.alone = fetch[f].alone,
         \/ w.answer = Nothing
         \/ w.answer.id \in givenOut' /\ w.answer.changes <= stored'[w.answer.id],
         w.state = "answered" =>
            /\ w.answer.id \in CartIds
            /\ w.id # NoId => w.answer.id = w.id
            /\ w.answer.id = w.shown.id => w.answer.changes >= w.shown.changes
            /\ ~w.uncleared => w.answer.changes = stored'[w.answer.id]
  PROVE  StoreInv'
<1>1. /\ fetch'[f] = w
      /\ \A g \in Fetches \ {f} : fetch'[g] = fetch[g]
      /\ fetch' \in [Fetches -> Fetch]
  BY StoreTypes
<1>2. ASSUME NEW c \in Content, Known(c)
      PROVE  Known(c)'
  BY <1>2, StoreTypes DEF Known, StoreInv, Content
<1>3. Known(bag.cart)'
  BY <1>2, KnownFacts, StoreTypes DEF Bag
<1>4. InFlight' = InFlight
  BY <1>1 DEF InFlight
<1>5. ASSUME NEW g \in Fetches
      PROVE  FetchSound(fetch[g])' /\ AloneSound(g)' /\ Known(fetch[g].answer)'
  <2>1. fetch[g].shown \in Content /\ fetch[g].answer \in Content
    BY StoreTypes DEF Fetch
  <2>2. Known(fetch[g].shown) /\ Known(fetch[g].answer)
    BY KnownFacts DEF FetchSound
  <2>3. /\ fetch[g].shown = Nothing \/
              (fetch[g].shown.id \in givenOut' /\ fetch[g].shown.changes <= stored'[fetch[g].shown.id])
        /\ fetch[g].answer = Nothing \/
              (fetch[g].answer.id \in givenOut' /\ fetch[g].answer.changes <= stored'[fetch[g].answer.id])
    BY <2>1, <2>2, StoreTypes DEF Known, StoreInv, Content
  <2>4. CASE g = f
    BY <1>1, <1>4, <2>3, <2>4, KnownFacts DEF FetchSound, AloneSound, Known
  <2>5. CASE g # f
    <3>1. FetchSound(fetch[g])' /\ Known(fetch[g].answer)'
      BY <1>1, <2>3, <2>5, KnownFacts DEF FetchSound, Known
    <3>2. AloneSound(g)'
      BY <1>1, <1>4, <2>5, KnownFacts DEF AloneSound
    <3> QED BY <3>1, <3>2
  <2> QED BY <2>4, <2>5
<1>6. StorefrontTypeOK'
  BY <1>1, <1>3, <1>5, StoreTypes DEF StorefrontTypeOK, Known, StoreInv
<1>7. SpinnersEnd'
  BY <1>1, <1>4 DEF StoreInv, SpinnersEnd, InFlight
<1> QED BY <1>5, <1>6, <1>7 DEF StoreInv
(* The cart that a request is served from.                                 *)
LEMMA CartServed ==
  ASSUME StoreInv, NEW f \in Fetches, NEW i \in CartIds, fetch[f].state = "sent", Identified(f, i)
  PROVE  /\ fetch[f].id # NoId => i = fetch[f].id
         /\ fetch[f].shown.id = i => fetch[f].shown.changes <= stored[i]
BY KnownFacts, StoreTypes, NothingFacts DEF Identified, FetchSound, Known

LEMMA IsServed ==
  ASSUME StoreInv, NEW f \in Fetches, NEW i \in CartIds, Served(f, i)
  PROVE  StoreInv'
<1>1. PICK n \in 0..MaxChanges :
         /\ fetch' = [fetch EXCEPT ![f].state = "answered", ![f].answer = [id |-> i, changes |-> n]]
         /\ stored' = [stored EXCEPT ![i] = n] /\ stored[i] <= n
  <2>1. stored[i] \in 0..MaxChanges /\ MaxChanges \in Nat
    BY StoreTypes
  <2>2. CASE fetch[f].op = "load"
    BY <2>1, <2>2, StoreTypes DEF Served, AnswerWith, Reads
  <2>3. CASE fetch[f].op # "load"
    <3>1. stored[i] + 1 \in 0..MaxChanges /\ stored[i] <= stored[i] + 1
      BY <2>1, <2>3 DEF Served
    <3> QED BY <2>3, <3>1 DEF Served, AnswerWith, Writes
  <2> QED BY <2>2, <2>3
<1> DEFINE a == [id |-> i, changes |-> n]
           w == [fetch[f] EXCEPT !.state = "answered", !.answer = a]
<1>2. /\ fetch[f].state = "sent" /\ Identified(f, i) /\ f \in InFlight
      /\ bag' = bag /\ rememberedId' = rememberedId /\ givenOut' = givenOut \cup {i}
  BY DEF Served, InFlight
<1>3. a \in Content /\ a.id = i /\ a.changes = n
  BY DEF Content
<1> HIDE DEF a
<1>4. /\ w \in Fetch /\ w.state = "answered" /\ w.answer = a
      /\ w.op = fetch[f].op /\ w.variant = fetch[f].variant /\ w.id = fetch[f].id
      /\ w.shown = fetch[f].shown /\ w.alone = fetch[f].alone
  BY <1>3, StoreTypes DEF Fetch
<1>5. fetch' = [fetch EXCEPT ![f] = w]
  BY <1>1, StoreTypes DEF a
<1> HIDE DEF w
<1>6. /\ givenOut \subseteq givenOut' /\ givenOut' \subseteq CartIds /\ i \in givenOut'
      /\ stored' \in [CartIds -> 0..MaxChanges] /\ stored'[i] = n
      /\ \A j \in CartIds : stored[j] <= stored'[j]
  BY <1>1, <1>2, StoreTypes DEF StoreInv
<1>7. /\ fetch[f].id # NoId => i = fetch[f].id
      /\ fetch[f].shown.id = i => fetch[f].shown.changes <= stored[i]
  BY <1>2, CartServed
<1>8. w.answer.id = w.shown.id => w.answer.changes >= w.shown.changes
  <2>1. w.shown \in Content /\ stored[i] \in 0..MaxChanges /\ MaxChanges \in Nat
    BY <1>4, StoreTypes DEF Fetch
  <2> QED BY <1>1, <1>3, <1>4, <1>7, <2>1 DEF Content
<1>9. w.answer.changes <= stored'[w.answer.id]
  BY <1>3, <1>4, <1>6, StoreTypes
<1> QED BY <1>2, <1>3, <1>4, <1>5, <1>6, <1>7, <1>8, <1>9, AnswerWritten

LEMMA UnclearedAnswer ==
  ASSUME StoreInv, NEW f \in Fetches, NEW i \in CartIds, OrderedUncleared(f, i)
  PROVE  StoreInv'
<1> DEFINE a == [id |-> i, changes |-> stored[i]]
           w == [fetch[f] EXCEPT !.state = "answered", !.uncleared = TRUE, !.answer = a]
<1>1. /\ fetch[f].state = "sent" /\ f \in InFlight /\ i = fetch[f].id
      /\ bag' = bag /\ rememberedId' = rememberedId /\ givenOut' = givenOut /\ stored' = stored
  BY DEF OrderedUncleared, InFlight
<1>2. i \in givenOut /\ Identified(f, i)
  BY <1>1, KnownFacts, StoreTypes DEF FetchSound, Identified
<1>3. a \in Content /\ a.id = i /\ a.changes = stored[i]
  BY StoreTypes DEF Content
<1>4. fetch' = [fetch EXCEPT ![f] = w]
  BY StoreTypes DEF OrderedUncleared, Reads
<1> HIDE DEF a
<1>5. /\ w \in Fetch /\ w.state = "answered" /\ w.answer = a /\ w.uncleared
      /\ w.op = fetch[f].op /\ w.variant = fetch[f].variant /\ w.id = fetch[f].id
      /\ w.shown = fetch[f].shown /\ w.alone = fetch[f].alone
  BY <1>3, StoreTypes DEF Fetch
<1> HIDE DEF w
<1>6. w.answer.id = w.shown.id => w.answer.changes >= w.shown.changes
  <2>1. w.shown \in Content /\ stored[i] \in 0..MaxChanges /\ MaxChanges \in Nat
    BY <1>5, StoreTypes DEF Fetch
  <2>2. fetch[f].shown.id = i => fetch[f].shown.changes <= stored[i]
    BY <1>1, <1>2, CartServed
  <2> QED BY <1>3, <1>5, <2>1, <2>2 DEF Content
<1>7. /\ stored' \in [CartIds -> 0..MaxChanges] /\ givenOut' \subseteq CartIds
      /\ \A j \in CartIds : stored[j] <= stored'[j]
      /\ w.answer.changes <= stored'[w.answer.id]
  BY <1>1, <1>3, <1>5, StoreTypes DEF StoreInv
<1> QED BY <1>1, <1>2, <1>3, <1>4, <1>5, <1>6, <1>7, AnswerWritten

LEMMA FetchFailed ==
  ASSUME StoreInv, NEW f \in Fetches, FetchFails(f)
  PROVE  StoreInv'
<1> DEFINE w == [fetch[f] EXCEPT !.state = "failed", !.answer = Nothing]
<1>1. /\ f \in InFlight /\ fetch' = [fetch EXCEPT ![f] = w]
      /\ bag' = bag /\ rememberedId' = rememberedId /\ givenOut' = givenOut /\ stored' = stored
  BY StoreTypes DEF FetchFails, InFlight, AnswerWith
<1>2. /\ w \in Fetch /\ w.state = "failed" /\ w.answer = Nothing
      /\ w.op = fetch[f].op /\ w.variant = fetch[f].variant /\ w.id = fetch[f].id
      /\ w.shown = fetch[f].shown /\ w.alone = fetch[f].alone
  BY NothingFacts, StoreTypes DEF Fetch
<1> HIDE DEF w
<1>3. /\ stored' \in [CartIds -> 0..MaxChanges] /\ givenOut' \subseteq CartIds
      /\ \A j \in CartIds : stored[j] <= stored'[j]
  BY <1>1, StoreTypes DEF StoreInv
<1> QED BY <1>1, <1>2, <1>3, AnswerWritten

-----------------------------------------------------------------------------
(* Storefront: answers are received                                        *)

LEMMA FinallyFacts ==
  ASSUME NEW b \in Bag, NEW f \in Fetches, fetch[f] \in Fetch
  PROVE  LET c == Finally(b, f) IN
         /\ c \in Bag /\ c.cart = b.cart
         /\ c.isLoading => b.isLoading /\ fetch[f].op \notin {"load", "clear"}
         /\ c.pending # NoVariant => c.pending = b.pending /\ fetch[f].op # "change"
<1>1. CASE fetch[f].op = "load"
  BY <1>1 DEF Finally, Bag
<1>2. CASE fetch[f].op = "clear"
  BY <1>2 DEF Finally, Bag
<1>3. CASE fetch[f].op = "change"
  BY <1>3 DEF Finally, Bag
<1>4. CASE fetch[f].op = "order"
  BY <1>4 DEF Finally, Bag
<1> QED BY <1>1, <1>2, <1>3, <1>4 DEF Fetch

(* The end of a request: what the bag shows then is what it showed before, *)
(* or is nothing, or is the answer.                                        *)
LEMMA FetchEnds ==
  ASSUME StoreInv, NEW f \in Fetches, NEW b \in Bag, f \in InFlight,
         bag' = Finally(b, f), b.isLoading = bag.isLoading, b.pending = bag.pending,
         Known(b.cart), b.cart # Nothing => b.cart.id = rememberedId',
         rememberedId' \in givenOut \cup {NoId},
         fetch' = [fetch EXCEPT ![f] = NoFetch], stored' = stored, givenOut' = givenOut
  PROVE  StoreInv'
<1>1. /\ fetch'[f] = NoFetch
      /\ \A g \in Fetches \ {f} : fetch'[g] = fetch[g]
      /\ fetch' \in [Fetches -> Fetch]
  BY NoFetchFacts, StoreTypes
<1>2. /\ bag' \in Bag /\ bag'.cart = b.cart
      /\ bag'.isLoading => bag.isLoading /\ fetch[f].op \notin {"load", "clear"}
      /\ bag'.pending # NoVariant => bag'.pending = bag.pending /\ fetch[f].op # "change"
  <2>1. fetch[f] \in Fetch
    BY KnownFacts
  <2> QED BY <2>1, FinallyFacts
<1>3. InFlight' = InFlight \ {f}
  BY <1>1, NoFetchFacts DEF InFlight
<1>4. Known(bag.cart)'
  BY <1>2 DEF Known
<1>5. ASSUME NEW g \in Fetches
      PROVE  FetchSound(fetch[g])' /\ AloneSound(g)' /\ Known(fetch[g].answer)'
  <2>1. CASE g = f
    BY <1>1, <1>3, <2>1, NoFetchFacts DEF FetchSound, AloneSound, Known
  <2>2. CASE g # f
    <3>1. Known(fetch[g].shown) /\ Known(fetch[g].answer) /\ FetchSound(fetch[g])
      BY KnownFacts DEF FetchSound
    <3>2. FetchSound(fetch[g])' /\ Known(fetch[g].answer)'
      BY <1>1, <2>2, <3>1 DEF FetchSound, Known
    <3>3. AloneSound(g)'
      BY <1>1, <1>3, <2>2, KnownFacts DEF AloneSound
    <3> QED BY <3>2, <3>3
  <2> QED BY <2>1, <2>2
<1>6. StorefrontTypeOK'
  BY <1>1, <1>2, <1>4, <1>5, StoreTypes DEF StorefrontTypeOK, Known
<1>7. SpinnersEnd'
  <2>0. \A g \in InFlight : g # f => g \in InFlight' /\ fetch'[g] = fetch[g]
    BY <1>1, <1>3 DEF InFlight
  <2>1. bag'.isLoading => \E g \in InFlight' : fetch'[g].op \in {"load", "clear"}
    BY <1>2, <2>0 DEF StoreInv, SpinnersEnd
  <2>2. bag'.pending # NoVariant =>
           \E g \in InFlight' : fetch'[g].op = "change" /\ fetch'[g].variant = bag'.pending
    BY <1>2, <2>0 DEF StoreInv, SpinnersEnd
  <2> QED BY <2>1, <2>2 DEF SpinnersEnd
<1> QED BY <1>2, <1>5, <1>6, <1>7 DEF StoreInv

(* What an answer brings into the bag and into localStorage.  The bag shows*)
(* the answer, or it was emptied by a request that was not about its cart, *)
(* or did not clear it.                                                    *)
LEMMA AnswerFacts ==
  ASSUME StoreInv, NEW f \in Fetches, ReceiveAnswer(f)
  PROVE  /\ f \in InFlight /\ fetch[f].state = "answered"
         /\ fetch[f].answer.id \in givenOut
         /\ fetch[f].id # NoId => fetch[f].answer.id = fetch[f].id
         /\ Shown(f) \in Content /\ Known(Shown(f))
         /\ \/ Shown(f) = fetch[f].answer
            \/ /\ Shown(f).id = bag.cart.id /\ rememberedId' = rememberedId
               /\ bag.cart.id # fetch[f].answer.id \/ fetch[f].uncleared
               /\ bag.cart = Nothing => Shown(f) = Nothing
         /\ rememberedId' \in givenOut \cup {NoId}
         /\ Shown(f) # Nothing => Shown(f).id = rememberedId'
         /\ fetch' = [fetch EXCEPT ![f] = NoFetch] /\ stored' = stored /\ givenOut' = givenOut
<1> DEFINE emptied == [bag.cart EXCEPT !.changes = 0]
<1>1. /\ f \in InFlight /\ fetch[f].state = "answered" /\ rememberedId' = Remembered(f)
      /\ fetch' = [fetch EXCEPT ![f] = NoFetch] /\ stored' = stored /\ givenOut' = givenOut
  BY DEF ReceiveAnswer, InFlight
<1>2. /\ Known(fetch[f].answer) /\ fetch[f].answer.id \in CartIds /\ fetch[f].answer \in Content
      /\ fetch[f].id # NoId => fetch[f].answer.id = fetch[f].id
  BY <1>1, KnownFacts DEF FetchSound, Fetch
<1>3. fetch[f].answer.id \in givenOut /\ fetch[f].answer.id # NoId
  BY <1>2, NothingFacts, StoreTypes DEF Known
<1>4. /\ fetch[f].op \in {"load", "change", "clear", "order"}
      /\ rememberedId \in givenOut \cup {NoId}
      /\ bag.cart # Nothing => bag.cart.id = rememberedId
  BY KnownFacts DEF Fetch, StoreInv, StorefrontTypeOK
<1>5. /\ emptied \in Content /\ Known(emptied) /\ emptied.id = bag.cart.id
      /\ bag.cart = Nothing => emptied = Nothing
  <2>1. /\ bag.cart \in Content /\ Known(bag.cart)
        /\ MaxChanges \in Nat /\ stored \in [CartIds -> 0..MaxChanges] /\ givenOut \subseteq CartIds
    BY StoreTypes, KnownFacts DEF Bag, StoreInv
  <2>2. emptied = [id |-> bag.cart.id, changes |-> 0]
    BY <2>1 DEF Content
  <2>3. emptied \in Content /\ emptied.id = bag.cart.id /\ emptied.changes = 0
    BY <2>1, <2>2 DEF Content
  <2>4. CASE bag.cart = Nothing
    BY <2>2, <2>3, <2>4, NothingFacts DEF Known, Nothing
  <2>5. CASE bag.cart # Nothing
    BY <2>1, <2>3, <2>5 DEF Known
  <2> QED BY <2>3, <2>4, <2>5
<1> HIDE DEF emptied
<1>6. CASE fetch[f].op \in {"load", "change"}
  <2>1. Shown(f) = fetch[f].answer /\ rememberedId' = fetch[f].answer.id
    BY <1>1, <1>6 DEF Shown, Remembered
  <2> QED BY <1>1, <1>2, <1>3, <2>1
<1>7. CASE fetch[f].op \in {"clear", "order"}
  <2>1. rememberedId' = rememberedId
    BY <1>1, <1>7 DEF Remembered
  <2>2. CASE bag.cart.id = fetch[f].answer.id /\ ~fetch[f].uncleared
    <3>1. Shown(f) = fetch[f].answer /\ bag.cart # Nothing
      BY <1>3, <2>2, NothingFacts DEF Shown
    <3> QED BY <1>1, <1>2, <1>3, <1>4, <2>1, <2>2, <3>1
  <2>3. CASE bag.cart.id # fetch[f].answer.id \/ fetch[f].uncleared
    <3>1. Shown(f) = emptied
      BY <1>7, <2>3 DEF Shown, emptied
    <3> QED BY <1>1, <1>2, <1>3, <1>4, <1>5, <2>1, <2>3, <3>1
  <2> QED BY <2>2, <2>3
<1> QED BY <1>4, <1>6, <1>7

LEMMA AnswerReceived ==
  ASSUME StoreInv, NEW f \in Fetches, ReceiveAnswer(f)
  PROVE  StoreInv'
<1> DEFINE b == [bag EXCEPT !.cart = Shown(f)]
<1>1. /\ f \in InFlight /\ Shown(f) \in Content /\ Known(Shown(f))
      /\ rememberedId' \in givenOut \cup {NoId}
      /\ Shown(f) # Nothing => Shown(f).id = rememberedId'
      /\ fetch' = [fetch EXCEPT ![f] = NoFetch] /\ stored' = stored /\ givenOut' = givenOut
  BY AnswerFacts
<1>2. /\ b \in Bag /\ b.cart = Shown(f) /\ b.isLoading = bag.isLoading /\ b.pending = bag.pending
  BY <1>1, StoreTypes DEF Bag
<1>3. bag' = Finally(b, f)
  BY DEF ReceiveAnswer
<1>4. Known(b.cart) /\ (b.cart # Nothing => b.cart.id = rememberedId')
  BY <1>1, <1>2
<1> HIDE DEF b
<1> QED BY <1>1, <1>2, <1>3, <1>4, FetchEnds

LEMMA FailureReceived ==
  ASSUME StoreInv, NEW f \in Fetches, ReceiveFailure(f)
  PROVE  StoreInv'
<1>1. /\ f \in InFlight /\ bag' = Finally(bag, f) /\ rememberedId' = rememberedId
      /\ fetch' = [fetch EXCEPT ![f] = NoFetch] /\ stored' = stored /\ givenOut' = givenOut
  BY DEF ReceiveFailure, InFlight
<1>2. /\ bag \in Bag /\ Known(bag.cart) /\ rememberedId' \in givenOut \cup {NoId}
      /\ bag.cart # Nothing => bag.cart.id = rememberedId'
  BY <1>1, KnownFacts DEF StoreInv, StorefrontTypeOK
<1> QED BY <1>1, <1>2, FetchEnds

LEMMA StoreStep == StoreInv /\ [StorefrontNext]_storefrontVars => StoreInv'
<1> SUFFICES ASSUME StoreInv, [StorefrontNext]_storefrontVars
             PROVE  StoreInv'
  OBVIOUS
<1>1. CASE UNCHANGED storefrontVars
  BY <1>1 DEF storefrontVars, StoreInv, StorefrontTypeOK, SpinnersEnd, InFlight, FetchSound,
              AloneSound, Known
<1> QED BY <1>1, Sending, IsServed, UnclearedAnswer, FetchFailed, AnswerReceived, FailureReceived
        DEF StorefrontNext

LEMMA StoreStart == StorefrontInit => StoreInv
<1> SUFFICES ASSUME StorefrontInit PROVE StoreInv
  OBVIOUS
<1>1. /\ bag.cart = Nothing /\ ~bag.isLoading /\ bag.pending = NoVariant /\ bag \in Bag
      /\ rememberedId = NoId /\ givenOut = {}
      /\ fetch \in [Fetches -> Fetch] /\ \A f \in Fetches : fetch[f] = NoFetch
      /\ stored \in [CartIds -> 0..MaxChanges]
  BY NothingFacts, NoFetchFacts, StorefrontAssumption DEF StorefrontInit, Bag
<1>2. StorefrontTypeOK
  BY <1>1, NoFetchFacts DEF StorefrontTypeOK
<1> QED BY <1>1, <1>2, NoFetchFacts DEF StoreInv, SpinnersEnd, InFlight, FetchSound, AloneSound, Known

(* The inductive invariant holds of every reachable state.                 *)
THEOREM StorefrontInductive == StorefrontSpec => []StoreInv
BY StoreStart, StoreStep, PTL DEF StorefrontSpec

(* The type invariant of the storefront: in particular the bag and the     *)
(* answers show only carts that were given out, and no more than is stored.*)
THEOREM StorefrontTypeCorrect == StorefrontSpec => []StorefrontTypeOK
<1>1. StoreInv => StorefrontTypeOK
  BY DEF StoreInv
<1> QED BY <1>1, StorefrontInductive, PTL

(* Whatever order overlapping requests are answered in and however they    *)
(* fail, loading and pending are reset once their requests have ended.     *)
THEOREM SpinnersStop == StorefrontSpec => []SpinnersEnd
<1>1. StoreInv => SpinnersEnd
  BY DEF StoreInv
<1> QED BY <1>1, StorefrontInductive, PTL

-----------------------------------------------------------------------------
(* Storefront: what an answer shows                                        *)

(* Only ReceiveAnswer ends a request that was answered.                    *)
LEMMA AnswerEnds ==
  ASSUME StoreInv, [StorefrontNext]_storefrontVars, NEW f \in Fetches, Answered(f)
  PROVE  ReceiveAnswer(f)
<1>1. fetch[f] \in Fetch /\ fetch[f].state = "answered" /\ fetch'[f] = NoFetch
      /\ fetch \in [Fetches -> Fetch] /\ NoFetch.state = "free" /\ f \in InFlight
  BY StoreTypes, NoFetchFacts DEF Answered, InFlight
<1>2. fetch' # fetch
  BY <1>1
<1>3. ASSUME NEW g \in Fetches, NEW op, NEW v, SendRequest(g, op, v)
      PROVE  FALSE
  <2>1. f # g /\ fetch'[f] = [fetch[f] EXCEPT !.alone = FALSE]
    BY <1>1, <1>3 DEF SendRequest
  <2>2. fetch'[f].state = "answered"
    BY <1>1, <2>1 DEF Fetch
  <2> QED BY <1>1, <2>2
<1>4. ASSUME NEW g \in Fetches,
             LoadBag(g) \/ ClearBag(g) \/ OrderBag(g) \/ \E v \in Variants : ChangeBag(g, v)
      PROVE  FALSE
  BY <1>3, <1>4 DEF LoadBag, ClearBag, OrderBag, ChangeBag
<1>5. ASSUME NEW g \in Fetches, NEW i \in CartIds, Served(g, i) \/ OrderedUncleared(g, i)
      PROVE  FALSE
  <2>1. fetch[g].state = "sent" /\ f # g
    BY <1>1, <1>5 DEF Served, OrderedUncleared
  <2>2. fetch'[f] = fetch[f]
    BY <1>1, <1>5, <2>1 DEF Served, OrderedUncleared, AnswerWith
  <2> QED BY <1>1, <2>2
<1>6. ASSUME NEW g \in Fetches, FetchFails(g)
      PROVE  FALSE
  <2>1. fetch' = [fetch EXCEPT ![g] = [fetch[g] EXCEPT !.state = "failed", !.answer = Nothing]]
    BY <1>1, <1>6 DEF FetchFails, AnswerWith
  <2>2. [fetch[g] EXCEPT !.state = "failed", !.answer = Nothing].state = "failed"
    BY <1>1 DEF Fetch
  <2> QED BY <1>1, <2>1, <2>2
<1>7. ASSUME NEW g \in Fetches, ReceiveAnswer(g) \/ ReceiveFailure(g), g # f
      PROVE  FALSE
  BY <1>1, <1>7 DEF ReceiveAnswer, ReceiveFailure
<1>8. ~ReceiveFailure(f)
  BY <1>1 DEF ReceiveFailure
<1>9. StorefrontNext
  BY <1>2 DEF storefrontVars
<1> QED BY <1>4, <1>5, <1>6, <1>7, <1>8, <1>9 DEF StorefrontNext

LEMMA BagShows ==
  ASSUME StoreInv, NEW f \in Fetches, ReceiveAnswer(f)
  PROVE  bag'.cart = Shown(f)
<1>1. [bag EXCEPT !.cart = Shown(f)] \in Bag /\ [bag EXCEPT !.cart = Shown(f)].cart = Shown(f)
  BY AnswerFacts, StoreTypes DEF Bag
<1>2. fetch[f] \in Fetch
  BY KnownFacts
<1> QED BY <1>1, <1>2, FinallyFacts DEF ReceiveAnswer

(* A request that no other overlapped leaves the bag showing what is       *)
(* stored under the identifier that the next request will send.            *)
THEOREM AloneIsCurrent == StorefrontSpec => AloneShowsStored
<1>1. StoreInv /\ [StorefrontNext]_storefrontVars =>
        [\A f \in Fetches :
            Answered(f) /\ fetch[f].alone /\ ~fetch[f].uncleared =>
               \/ bag'.cart = Nothing
               \/ bag'.cart = [id |-> rememberedId', changes |-> stored[rememberedId']]]_storefrontVars
  <2> SUFFICES ASSUME StoreInv, [StorefrontNext]_storefrontVars, NEW f \in Fetches,
                      Answered(f), fetch[f].alone, ~fetch[f].uncleared, bag'.cart # Nothing
               PROVE  bag'.cart = [id |-> rememberedId', changes |-> stored[rememberedId']]
    OBVIOUS
  <2>1. ReceiveAnswer(f)
    BY AnswerEnds
  <2>2. bag'.cart = Shown(f) /\ Shown(f) # Nothing /\ bag'.cart \in Content
    BY <2>1, BagShows, AnswerFacts
  <2>3. /\ f \in InFlight /\ fetch[f].state = "answered"
        /\ fetch[f].id # NoId => fetch[f].answer.id = fetch[f].id
        /\ Shown(f).id = rememberedId'
    BY <2>1, <2>2, AnswerFacts
  <2>4. fetch[f].id = rememberedId /\ fetch[f].answer.changes = stored[fetch[f].answer.id]
    BY <2>3, KnownFacts DEF AloneSound
  <2>5. Shown(f) = fetch[f].answer
    <3> SUFFICES ASSUME Shown(f) # fetch[f].answer PROVE FALSE
      OBVIOUS
    <3>1. bag.cart.id # fetch[f].answer.id /\ bag.cart # Nothing
      BY <2>1, <2>2, AnswerFacts
    <3>2. bag.cart.id = rememberedId /\ rememberedId # NoId
      BY <3>1, KnownFacts, StoreTypes DEF StoreInv, Known
    <3> QED BY <2>3, <2>4, <3>1, <3>2
  <2> QED BY <2>2, <2>3, <2>4, <2>5 DEF Content
<1> QED BY <1>1, StorefrontInductive, PTL DEF StorefrontSpec, AloneShowsStored

(* An answer never takes the bag back behind what it showed when the       *)
(* request was sent.                                                       *)
THEOREM NeverOlder == StorefrontSpec => NeverOlderThanSeen
<1>1. StoreInv /\ [StorefrontNext]_storefrontVars =>
        [\A f \in Fetches :
            Answered(f) /\ ~fetch[f].uncleared /\ bag'.cart.id = fetch[f].shown.id =>
               bag'.cart.changes >= fetch[f].shown.changes]_storefrontVars
  <2> SUFFICES ASSUME StoreInv, [StorefrontNext]_storefrontVars, NEW f \in Fetches,
                      Answered(f), ~fetch[f].uncleared, bag'.cart.id = fetch[f].shown.id
               PROVE  bag'.cart.changes >= fetch[f].shown.changes
    OBVIOUS
  <2>1. ReceiveAnswer(f)
    BY AnswerEnds
  <2>2. bag'.cart = Shown(f) /\ f \in InFlight /\ fetch[f].state = "answered"
    BY <2>1, BagShows, AnswerFacts
  <2>3. CASE Shown(f) = fetch[f].answer
    BY <2>2, <2>3, KnownFacts DEF FetchSound
  <2>4. CASE Shown(f) # fetch[f].answer
    <3>1. Shown(f).id = bag.cart.id /\ bag.cart.id # fetch[f].answer.id
      BY <2>1, <2>4, AnswerFacts
    <3>2. Known(fetch[f].shown) /\ (fetch[f].shown # Nothing => fetch[f].id = fetch[f].shown.id)
      BY KnownFacts DEF FetchSound
    <3>3. fetch[f].shown = Nothing
      <4> SUFFICES ASSUME fetch[f].shown # Nothing PROVE FALSE
        OBVIOUS
      <4>1. fetch[f].id = fetch[f].shown.id /\ fetch[f].id # NoId
        BY <3>2, StoreTypes DEF Known, StoreInv
      <4>2. fetch[f].answer.id = fetch[f].id
        BY <2>1, <4>1, AnswerFacts
      <4> QED BY <2>2, <3>1, <4>1, <4>2
    <3>4. bag'.cart \in Content /\ MaxChanges \in Nat
      BY <2>1, <2>2, AnswerFacts, StoreTypes
    <3> QED BY <3>3, <3>4, NothingFacts DEF Content
  <2> QED BY <2>3, <2>4
<1> QED BY <1>1, StorefrontInductive, PTL DEF StorefrontSpec, NeverOlderThanSeen

(* The guest's cart is exchanged for another only by a request that        *)
(* another overlapped.                                                     *)
THEOREM CartStays == StorefrontSpec => CartKept
<1>1. StoreInv /\ [StorefrontNext]_storefrontVars =>
        [rememberedId # NoId /\ rememberedId' # rememberedId =>
            \E f \in Fetches : Answered(f) /\ ~fetch[f].alone]_storefrontVars
  <2> SUFFICES ASSUME StoreInv, [StorefrontNext]_storefrontVars,
                      rememberedId # NoId, rememberedId' # rememberedId
               PROVE  \E f \in Fetches : Answered(f) /\ ~fetch[f].alone
    OBVIOUS
  <2>1. PICK f \in Fetches : ReceiveAnswer(f)
    BY DEF StorefrontNext, storefrontVars, LoadBag, ClearBag, OrderBag, ChangeBag, SendRequest,
           Served, OrderedUncleared, FetchFails, ReceiveFailure
  <2>2. Answered(f)
    BY <2>1, StoreTypes DEF ReceiveAnswer, Answered
  <2>3. f \in InFlight /\ (fetch[f].id # NoId => fetch[f].answer.id = fetch[f].id)
    BY <2>1, AnswerFacts
  <2>4. rememberedId' = fetch[f].answer.id
    BY <2>1 DEF ReceiveAnswer, Remembered
  <2>5. ~fetch[f].alone
    BY <2>3, <2>4, KnownFacts DEF AloneSound
  <2> QED BY <2>2, <2>5
<1> QED BY <1>1, StorefrontInductive, PTL DEF StorefrontSpec, CartKept

-----------------------------------------------------------------------------
(* MCShop: what is shown of each part holds beside the others              *)

(* Every behaviour of the composition is one of each of its parts, so that *)
(* their theorems hold of it.                                              *)
THEOREM ShopParts == Spec => CategorySpec /\ VariantSpec /\ CheckoutSpec /\ StorefrontSpec
<1>1. Init => CategoryInit /\ VariantInit /\ CheckoutInit /\ StorefrontInit
  BY DEF Init
<1>2. [Next]_shopVars => /\ [CategoryNext]_categoryVars
                         /\ [VariantNext]_variantVars
                         /\ [CheckoutNext]_checkoutVars
                         /\ [StorefrontNext]_storefrontVars
  BY DEF Next, shopVars
<1> QED BY <1>1, <1>2, PTL DEF Spec, CategorySpec, VariantSpec, CheckoutSpec, StorefrontSpec

(* Type correctness of the catalogue, checkout and the storefront.         *)
THEOREM ShopTypeCorrect == Spec => []ShopTypeOK
<1>1. CategoryTypeOK /\ VariantTypeOK /\ CheckoutTypeOK /\ StorefrontTypeOK => ShopTypeOK
  BY DEF ShopTypeOK
<1> QED BY <1>1, ShopParts, CategoryTypeCorrect, VariantTypeCorrect, CheckoutTypeCorrect,
           StorefrontTypeCorrect, PTL
===============================================================================
