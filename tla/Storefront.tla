----------------------------- MODULE Storefront -----------------------------
(***************************************************************************)
(* The cart store of the storefront, in one browser tab of a guest, and    *)
(* cart-service as it sees it.  Every action of the store sends a request  *)
(* and sets the whole bag from its answer; requests overlap, and answers   *)
(* arrive in any order or not at all.                                      *)
(*                                                                         *)
(* A cart is known by the identifier cart-service gave to the first request*)
(* that came without one.  Of its content it matters how recent it is:     *)
(* stored[i] counts the changes made to cart i, and a bag shows the cart of*)
(* some identifier after some number of changes.  isOpen and error are left*)
(* out, nothing depends on them.  A request that failed is not served any  *)
(* more, and no one else changes the cart meanwhile.                       *)
(***************************************************************************)
EXTENDS Naturals

CONSTANTS
    Fetches,       \* requests that may be in flight at the same time
    CartIds,       \* identifiers cart-service may give out
    Variants,      \* what a customer adds, updates or removes
    NoId,          \* no identifier in localStorage, no X-Cart-ID
    NoVariant,     \* pendingVariantId: null
    MaxChanges     \* bound: changes made to one cart

ASSUME StorefrontAssumption ==
    NoId \notin CartIds /\ NoVariant \notin Variants /\ MaxChanges \in Nat

VARIABLES
    bag,           \* the state of useCartStore
    rememberedId,  \* scalecart_cart_id in localStorage
    fetch,         \* fetch[f]: a request and its answer
    stored,        \* stored[i]: changes made to cart i
    givenOut       \* the identifiers cart-service has given out

storefrontVars == <<bag, rememberedId, fetch, stored, givenOut>>

(* What a bag or an answer shows; of NoId nothing (cart: null).            *)
Content == [id: CartIds \cup {NoId}, changes: 0..MaxChanges]

Nothing == [id |-> NoId, changes |-> 0]

Bag ==
    [cart: Content, isLoading: BOOLEAN, hasLoaded: BOOLEAN, pending: Variants \cup {NoVariant}]

(* "change" is any of add, update and remove; "order" is createOrder.      *)
(* uncleared: the order was placed, its clear of the cart was lost.  Kept  *)
(* besides: what the bag showed when the request was sent, and whether no  *)
(* other request was in flight since.                                      *)
Fetch ==
    [state: {"free", "sent", "answered", "failed"}, op: {"load", "change", "clear", "order"},
     id: CartIds \cup {NoId}, variant: Variants \cup {NoVariant},
     answer: Content, uncleared: BOOLEAN, shown: Content, alone: BOOLEAN]

NoFetch ==
    [state |-> "free", op |-> "load", id |-> NoId, variant |-> NoVariant,
     answer |-> Nothing, uncleared |-> FALSE, shown |-> Nothing, alone |-> FALSE]

StorefrontInit ==
    /\ bag = [cart |-> Nothing, isLoading |-> FALSE, hasLoaded |-> FALSE, pending |-> NoVariant]
    /\ rememberedId = NoId
    /\ fetch = [f \in Fetches |-> NoFetch]
    /\ stored = [i \in CartIds |-> 0]
    /\ givenOut = {}

InFlight == {f \in Fetches : fetch[f].state # "free"}

-----------------------------------------------------------------------------
(* The actions of the store, up to their await                             *)

(* Fault: cartHeaders leaves the identifier out.                           *)
HeaderMissing == NoId

Header == rememberedId

SendRequest(f, op, v) ==
    /\ f \notin InFlight
    /\ fetch' = [g \in Fetches |->
                   IF g = f THEN [NoFetch EXCEPT !.state = "sent", !.op = op, !.id = Header,
                                                 !.variant = v, !.shown = bag.cart,
                                                 !.alone = InFlight = {}]
                   ELSE [fetch[g] EXCEPT !.alone = FALSE]]
    /\ UNCHANGED <<rememberedId, stored, givenOut>>

LoadBag(f) ==
    /\ ~bag.isLoading
    /\ SendRequest(f, "load", NoVariant)
    /\ bag' = [bag EXCEPT !.isLoading = TRUE]

(* The buttons of the variant that is pending are disabled.                *)
ChangeBag(f, v) ==
    /\ bag.pending # v
    /\ SendRequest(f, "change", v)
    /\ bag' = [bag EXCEPT !.pending = v]

ClearBag(f) ==
    /\ SendRequest(f, "clear", NoVariant)
    /\ bag' = [bag EXCEPT !.isLoading = TRUE]

(* The checkout page, which shows a cart.                                  *)
OrderBag(f) ==
    /\ bag.cart # Nothing
    /\ SendRequest(f, "order", NoVariant)
    /\ UNCHANGED bag

-----------------------------------------------------------------------------
(* cart-service, and order-service which clears the cart                   *)

AnswerWith(f, state, content) ==
    fetch' = [fetch EXCEPT ![f].state = state, ![f].answer = content]

(* A request without an identifier is given one; its cart is empty.        *)
Identified(f, i) == IF fetch[f].id = NoId THEN i \notin givenOut ELSE i = fetch[f].id

Writes(i, changes) == stored' = [stored EXCEPT ![i] = changes]

(* Fault: carts are read where the last change may be missing.             *)
ReadsBehind(i) == IF stored[i] > 0 THEN stored[i] - 1 ELSE 0

Reads(i) == stored[i]

Served(f, i) ==
    /\ fetch[f].state = "sent"
    /\ Identified(f, i)
    /\ givenOut' = givenOut \cup {i}
    /\ IF fetch[f].op = "load"
       THEN /\ AnswerWith(f, "answered", [id |-> i, changes |-> Reads(i)])
            /\ UNCHANGED stored
       ELSE /\ stored[i] < MaxChanges
            /\ Writes(i, stored[i] + 1)
            /\ AnswerWith(f, "answered", [id |-> i, changes |-> stored[i] + 1])
    /\ UNCHANGED <<bag, rememberedId>>

(* order-service passes over a clear that failed.                          *)
OrderedUncleared(f, i) ==
    /\ fetch[f].state = "sent"
    /\ fetch[f].op = "order"
    /\ i = fetch[f].id
    /\ fetch' = [fetch EXCEPT ![f].state = "answered", ![f].uncleared = TRUE,
                              ![f].answer = [id |-> i, changes |-> Reads(i)]]
    /\ UNCHANGED <<bag, rememberedId, stored, givenOut>>

(* Refused, or lost before it was served or after.                         *)
FetchFails(f) ==
    /\ fetch[f].state \in {"sent", "answered"}
    /\ AnswerWith(f, "failed", Nothing)
    /\ UNCHANGED <<bag, rememberedId, stored, givenOut>>

-----------------------------------------------------------------------------
(* The actions of the store, after their await                             *)

(* finally: hasLoaded is set by load only.                                 *)
Finally(b, f) ==
    CASE fetch[f].op = "load"   -> [b EXCEPT !.isLoading = FALSE, !.hasLoaded = TRUE]
      [] fetch[f].op = "clear"  -> [b EXCEPT !.isLoading = FALSE]
      [] fetch[f].op = "change" -> [b EXCEPT !.pending = NoVariant]
      [] OTHER                  -> b

(* Fault: what is emptied in the bag is not what was emptied in the store. *)
ShownUncleared(f) ==
    IF fetch[f].op \in {"clear", "order"} THEN bag.cart ELSE fetch[f].answer

(* clear and completeCheckout empty the bag they find, of whatever cart it *)
(* is by then; null stays null.  Where that is the cart that was cleared,  *)
(* it is as the store has it; otherwise it looks as if nothing had ever    *)
(* been put in.                                                            *)
Shown(f) ==
    LET new == fetch[f].answer IN
    IF \/ fetch[f].op \in {"load", "change"}
       \/ bag.cart.id = new.id /\ ~fetch[f].uncleared
    THEN new
    ELSE [bag.cart EXCEPT !.changes = 0]

(* The answers to clear and to order carry no identifier.                  *)
Remembered(f) ==
    IF fetch[f].op \in {"load", "change"} THEN fetch[f].answer.id ELSE rememberedId

ReceiveAnswer(f) ==
    /\ fetch[f].state = "answered"
    /\ bag' = Finally([bag EXCEPT !.cart = Shown(f)], f)
    /\ rememberedId' = Remembered(f)
    /\ fetch' = [fetch EXCEPT ![f] = NoFetch]
    /\ UNCHANGED <<stored, givenOut>>

(* Fault: the end of the request is not noted when it failed.              *)
ReceiveFailureSilently(f) ==
    /\ fetch[f].state = "failed"
    /\ fetch' = [fetch EXCEPT ![f] = NoFetch]
    /\ UNCHANGED <<bag, rememberedId, stored, givenOut>>

ReceiveFailure(f) ==
    /\ fetch[f].state = "failed"
    /\ bag' = Finally(bag, f)
    /\ fetch' = [fetch EXCEPT ![f] = NoFetch]
    /\ UNCHANGED <<rememberedId, stored, givenOut>>

-----------------------------------------------------------------------------

StorefrontNext ==
    \E f \in Fetches :
       \/ LoadBag(f) \/ ClearBag(f) \/ OrderBag(f)
       \/ \E v \in Variants : ChangeBag(f, v)
       \/ \E i \in CartIds : Served(f, i) \/ OrderedUncleared(f, i)
       \/ FetchFails(f) \/ ReceiveAnswer(f) \/ ReceiveFailure(f)

StorefrontSpec == StorefrontInit /\ [][StorefrontNext]_storefrontVars

-----------------------------------------------------------------------------
(* Properties                                                              *)

(* Types; and neither the bag nor an answer shows more than was stored, nor*)
(* a cart nobody was given.                                                *)
StorefrontTypeOK ==
    /\ bag \in Bag
    /\ rememberedId \in givenOut \cup {NoId}
    /\ fetch \in [Fetches -> Fetch]
    /\ stored \in [CartIds -> 0..MaxChanges]
    /\ \A c \in {bag.cart} \cup {fetch[f].answer : f \in Fetches} :
          c = Nothing \/ (c.id \in givenOut /\ c.changes <= stored[c.id])

(* Buttons come back and spinners stop: whatever order the answers of      *)
(* overlapping requests have and however they fail, the bag is loading only*)
(* while a load or a clear is in flight, and a variant pending only while  *)
(* its own request is.                                                     *)
SpinnersEnd ==
    /\ bag.isLoading => \E f \in InFlight : fetch[f].op \in {"load", "clear"}
    /\ bag.pending # NoVariant =>
          \E f \in InFlight : fetch[f].op = "change" /\ fetch[f].variant = bag.pending

Answered(f) == fetch[f].state = "answered" /\ fetch'[f] = NoFetch

(* A request that no other overlapped leaves the bag showing the cart that *)
(* is stored under the identifier the next request will send; but an order *)
(* empties the bag also when the cart was not cleared.                     *)
AloneShowsStored ==
    [][\A f \in Fetches :
          Answered(f) /\ fetch[f].alone /\ ~fetch[f].uncleared =>
             \/ bag'.cart = Nothing
             \/ bag'.cart = [id |-> rememberedId', changes |-> stored[rememberedId']]]_storefrontVars

(* An answer that was overtaken shows an older cart again, but never one   *)
(* older than the customer saw when sending the request; the order whose   *)
(* cart was not cleared apart.                                             *)
NeverOlderThanSeen ==
    [][\A f \in Fetches :
          Answered(f) /\ ~fetch[f].uncleared /\ bag'.cart.id = fetch[f].shown.id =>
             bag'.cart.changes >= fetch[f].shown.changes]_storefrontVars

(* The guest's cart is not exchanged for another, which would lose what is *)
(* in it, by a request that no other overlapped: only requests that were   *)
(* sent before the first identifier came back bring a second one.          *)
CartKept ==
    [][rememberedId # NoId /\ rememberedId' # rememberedId =>
          \E f \in Fetches : Answered(f) /\ ~fetch[f].alone]_storefrontVars
=============================================================================
