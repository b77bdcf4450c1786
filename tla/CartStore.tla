----------------------------- MODULE CartStore ------------------------------
(***************************************************************************)
(* cart-service: the requests about carts and the Redis commands they issue*)
(*                                                                         *)
(* Every await is a step of its own: the lookup of a variant, WATCH, GET,  *)
(* EXEC (the SET queued behind MULTI is sent with it), DEL.  As in Redis, a*)
(* connection that watches a key is marked when anyone touches the key, and*)
(* its EXEC then does nothing.  A request can end at any await (Abort).    *)
(***************************************************************************)
EXTENDS CartLines

CONSTANTS
    Keys,          \* the keys of the carts
    Infos,         \* Infos[v]: what the catalogue may say of v
    Handlers,      \* handler executions that may run at the same time
    Requests       \* the requests customers make

Ops == {"read", "add", "update", "remove", "clear", "merge"}

(* "from" is the key of the guest cart of a merge; what an operation does  *)
(* not take is arbitrary.                                                  *)
RequestType ==
    [op: Ops, key: Keys, from: Keys, variant: Variants, qty: Nat \ {0}]

ASSUME InfosAssumption ==
    Infos \in [Variants -> SUBSET Info] /\ \A v \in Variants : Infos[v] # {}

ASSUME RequestAssumption ==
    /\ Requests # {}
    /\ Requests \subseteq RequestType
    /\ \A q \in Requests : q.op = "merge" => q.from # q.key

VARIABLES
    cart,          \* cart[k]: what Redis holds under k
    catalog,       \* catalog[v]: stock and currency in product-service
    handler        \* handler[h]: its request, how far it is, what it has read

vars == <<cart, catalog, handler>>

Known == (UNION {Infos[v] : v \in Variants}) \cup {Unread}

(* req means nothing once the answer is being prepared ("answering"), and  *)
(* after the request.  seen: the variants looked up; guest: the guest cart *)
(* of a merge; copy: the cart GET returned; touched: someone wrote the     *)
(* watched key.                                                            *)
HandlerType ==
    [pc: {"done", "failed", "new", "pricing", "ready", "watching", "computed", "merged",
          "answering"},
     req: RequestType, seen: [Variants -> Known], guest: CartType, copy: CartType,
     touched: BOOLEAN]

Ended == {"done", "failed"}

(* Every variable has its type; a cart never exceeds the quantity limit.   *)
CartTypeOK ==
    /\ cart \in [Keys -> CartType]
    /\ catalog \in [Variants -> Known]
    /\ \A v \in Variants : catalog[v] \in Infos[v]
    /\ handler \in [Handlers -> HandlerType]
    /\ \A h \in Handlers : handler[h].pc \notin Ended => handler[h].req \in Requests

AtRest(pc, q) ==
    [pc |-> pc, req |-> q, seen |-> [v \in Variants |-> Unread],
     guest |-> EmptyCart, copy |-> EmptyCart, touched |-> FALSE]

End(pc) == AtRest(pc, CHOOSE q \in Requests : TRUE)

Init ==
    /\ cart = [k \in Keys |-> EmptyCart]
    /\ catalog \in [Variants -> Known]
    /\ \A v \in Variants : catalog[v] \in Infos[v]
    /\ handler = [h \in Handlers |-> End("done")]

-----------------------------------------------------------------------------
(* Redis                                                                   *)

Watches(h, k) == handler[h].pc \in {"watching", "computed"} /\ handler[h].req.key = k

(* Fault: the key is not watched, EXEC always goes through.                *)
TouchNobody(k, h, new) == handler' = [handler EXCEPT ![h] = new]

(* h becomes new; the connections that watch the key k are marked.         *)
Touch(k, h, new) ==
    handler' = [g \in Handlers |->
                   IF g = h THEN new
                   ELSE IF Watches(g, k) THEN [handler[g] EXCEPT !.touched = TRUE]
                   ELSE handler[g]]

Go(h, new) == handler' = [handler EXCEPT ![h] = new]

-----------------------------------------------------------------------------
(* What the closures of the handlers do to the cart they are given.        *)

(* w is the state of the handler.                                          *)

May(w, c) ==
    LET q == w.req
        info == w.seen[q.variant] IN
    CASE q.op = "add"    -> MayAdd(c, q.variant, q.qty, info)
      [] q.op = "update" -> MayUpdate(c, q.variant)
      [] q.op = "remove" -> MayRemove(c, q.variant)
      [] q.op = "merge"  -> MayMerge(c, w.guest, w.seen)
      [] OTHER           -> FALSE

Mutation(w, c) ==
    LET q == w.req
        info == w.seen[q.variant] IN
    CASE q.op = "add"    -> Added(c, q.variant, q.qty, info)
      [] q.op = "update" -> Updated(c, q.variant, q.qty, info)
      [] q.op = "remove" -> Removed(c, q.variant)
      [] q.op = "merge"  -> Merged(c, w.guest, w.seen)
      [] OTHER           -> c

-----------------------------------------------------------------------------
(* Before the transaction                                                  *)

Start(h, q) ==
    /\ handler[h].pc \in Ended
    /\ Go(h, AtRest("new", q))
    /\ UNCHANGED <<cart, catalog>>

(* GET and EXPIRE: a read prolongs the life of the key, which touches it.  *)
(* A key that does not exist is touched too: a conflict more, no other     *)
(* outcome.                                                                *)
Read(h) ==
    /\ handler[h].req.op = "read"
    /\ handler[h].pc = "new"
    /\ Touch(handler[h].req.key, h, End("answering"))
    /\ UNCHANGED <<cart, catalog>>

Lookup(h) ==
    LET q == handler[h].req
        info == catalog[q.variant] IN
    /\ q.op \in {"add", "update"}
    /\ handler[h].pc = "new"
    /\ Go(h, IF q.op = "update" /\ ~CheckQuantity(q.qty, info)
             THEN End("failed")
             ELSE [handler[h] EXCEPT !.pc = "ready", !.seen[q.variant] = info])
    /\ UNCHANGED <<cart, catalog>>

MergeRead(h) ==
    LET k == handler[h].req.from IN
    /\ handler[h].req.op = "merge"
    /\ handler[h].pc = "new"
    /\ Touch(k, h, [handler[h] EXCEPT !.pc = "pricing", !.guest = cart[k]])
    /\ UNCHANGED <<cart, catalog>>

Unpriced(h) == {v \in Lines(handler[h].guest) : handler[h].seen[v] = Unread}

(* The variants of the guest cart are asked for together and answered in   *)
(* any order.                                                              *)
MergeLookup(h, v) ==
    /\ handler[h].pc = "pricing"
    /\ v \in Unpriced(h)
    /\ Go(h, [handler[h] EXCEPT !.seen[v] = catalog[v]])
    /\ UNCHANGED <<cart, catalog>>

-----------------------------------------------------------------------------
(* RedisCartStore.mutate                                                   *)

Prepared(h) ==
    \/ handler[h].pc = "ready"
    \/ handler[h].pc = "new" /\ handler[h].req.op = "remove"
    \/ handler[h].pc = "pricing" /\ Unpriced(h) = {}

(* Fault: a retry keeps the mark of the conflict before.                   *)
WatchMarked(h) ==
    /\ Prepared(h)
    /\ Go(h, [handler[h] EXCEPT !.pc = "watching"])
    /\ UNCHANGED <<cart, catalog>>

Watch(h) ==
    /\ Prepared(h)
    /\ Go(h, [handler[h] EXCEPT !.pc = "watching", !.touched = FALSE])
    /\ UNCHANGED <<cart, catalog>>

(* The closure runs on what GET returned; when it raises, the request ends.*)
Get(h) ==
    LET c == cart[handler[h].req.key] IN
    /\ handler[h].pc = "watching"
    /\ Go(h, IF May(handler[h], c)
             THEN [handler[h] EXCEPT !.pc = "computed", !.copy = c]
             ELSE End("failed"))
    /\ UNCHANGED <<cart, catalog>>

(* Fault: a conflict is taken for success.                                 *)
ExecConflictDone(h) ==
    /\ handler[h].pc = "computed"
    /\ handler[h].touched
    /\ Go(h, End("answering"))
    /\ UNCHANGED <<cart, catalog>>

ExecConflict(h) ==
    /\ handler[h].pc = "computed"
    /\ handler[h].touched
    /\ Go(h, [handler[h] EXCEPT !.pc = "ready", !.copy = EmptyCart])
    /\ UNCHANGED <<cart, catalog>>

(* Fault: without MULTI, the SET is sent at once.                          *)
StoreAnyway(h, new) ==
    LET k == handler[h].req.key IN
    /\ handler[h].pc = "computed"
    /\ cart' = [cart EXCEPT ![k] = Mutation(handler[h], handler[h].copy)]
    /\ Touch(k, h, new)
    /\ UNCHANGED catalog

Store(h, new) ==
    LET k == handler[h].req.key IN
    /\ handler[h].pc = "computed"
    /\ ~handler[h].touched
    /\ cart' = [cart EXCEPT ![k] = Mutation(handler[h], handler[h].copy)]
    /\ Touch(k, h, new)
    /\ UNCHANGED catalog

Exec(h) ==
    Store(h, IF handler[h].req.op = "merge"
             THEN [handler[h] EXCEPT !.pc = "merged", !.copy = EmptyCart]
             ELSE End("answering"))

(* The connection breaks after Redis executed.  The client library reports *)
(* a broken connection that watches a key as a WatchError, and the loop    *)
(* goes round again.                                                       *)
ExecUnanswered(h) ==
    Store(h, [handler[h] EXCEPT !.pc = "ready", !.copy = EmptyCart])

(* It breaks before that, and the loop goes round too.  (With a key that is*)
(* marked that is what ExecConflict does.)                                 *)
ConnectionBreaks(h) ==
    /\ \/ handler[h].pc = "watching"
       \/ handler[h].pc = "computed" /\ ~handler[h].touched
    /\ Go(h, [handler[h] EXCEPT !.pc = "ready", !.copy = EmptyCart])
    /\ UNCHANGED <<cart, catalog>>

-----------------------------------------------------------------------------
(* DELETE, the end of a merge, and what happens to a key by itself         *)

Clear(h) ==
    LET k == handler[h].req.key IN
    /\ handler[h].req.op = "clear"
    /\ handler[h].pc = "new"
    /\ cart' = [cart EXCEPT ![k] = EmptyCart]
    /\ Touch(k, h, End("done"))
    /\ UNCHANGED catalog

MergeDelete(h) ==
    LET k == handler[h].req.from IN
    /\ handler[h].pc = "merged"
    /\ cart' = [cart EXCEPT ![k] = EmptyCart]
    /\ Touch(k, h, End("answering"))
    /\ UNCHANGED catalog

(* _to_response asks the catalogue for every line before it answers; when  *)
(* that fails (Abort), the answer is 503 for what has been applied.        *)
Answer(h) ==
    /\ handler[h].pc = "answering"
    /\ Go(h, End("done"))
    /\ UNCHANGED <<cart, catalog>>

(* The time to live of a key runs out.                                     *)
KeyExpires(k) ==
    /\ cart[k] # EmptyCart
    /\ cart' = [cart EXCEPT ![k] = EmptyCart]
    /\ handler' = [h \in Handlers |->
                      IF Watches(h, k) THEN [handler[h] EXCEPT !.touched = TRUE]
                      ELSE handler[h]]
    /\ UNCHANGED catalog

Abort(h) ==
    /\ handler[h].pc \notin Ended
    /\ Go(h, End("failed"))
    /\ UNCHANGED <<cart, catalog>>

CatalogChanges(v, info) ==
    /\ catalog' = [catalog EXCEPT ![v] = info]
    /\ UNCHANGED <<cart, handler>>

-----------------------------------------------------------------------------

Serve(h) ==
    \/ Read(h) \/ Clear(h)
    \/ Lookup(h)
    \/ MergeRead(h) \/ (\E v \in Variants : MergeLookup(h, v)) \/ MergeDelete(h)
    \/ Watch(h) \/ Get(h) \/ ExecConflict(h) \/ Exec(h)
    \/ Answer(h)

Next ==
    \/ \E h \in Handlers :
          \/ \E q \in Requests : Start(h, q)
          \/ Serve(h) \/ ExecUnanswered(h) \/ ConnectionBreaks(h) \/ Abort(h)
    \/ \E k \in Keys : KeyExpires(k)
    \/ \E v \in Variants : \E info \in Infos[v] : CatalogChanges(v, info)

Spec == Init /\ [][Next]_vars

(* A request whose answer has come goes on.                                *)
RequestFairness == \A h \in Handlers : WF_vars(Serve(h))

-----------------------------------------------------------------------------
(* Properties                                                              *)

(* Optimistic locking works: a handler whose watched key nobody touched    *)
(* computed from the cart as it still is.                                  *)
CopyCurrent ==
    \A h \in Handlers :
       handler[h].pc = "computed" /\ ~handler[h].touched =>
          /\ handler[h].copy = cart[handler[h].req.key]
          /\ May(handler[h], handler[h].copy)

(* The number of lines is limited however many requests check it at once.  *)
CartLimits == \A k \in Keys : Cardinality(Lines(cart[k])) <= MaxItems

OneCurrency(c) == \A v, w \in Lines(c) : c[v].currency = c[w].currency

(* A cart contains one currency, however additions and merges meet in it:  *)
(* the check is part of the transaction.  Only an update, which has none,  *)
(* of a line whose variant has changed its currency mixes two.             *)
MixedOnlyByUpdate ==
    [][\A k \in Keys :
          OneCurrency(cart[k]) /\ ~OneCurrency(cart'[k]) =>
             \E h \in Handlers :
                LET q == handler[h].req IN
                /\ handler'[h] # handler[h] /\ q.op = "update" /\ q.key = k
                /\ handler[h].seen[q.variant].currency # cart[k][q.variant].currency]_vars

(* No lost update: every change of a cart is one that AtomicCarts allows,  *)
(* made in one step of what the cart is then.  (Which request makes it, and*)
(* how often, is not seen there: see ExecUnanswered.)                      *)
Atomic == INSTANCE AtomicCarts
CartsAtomic == Atomic!Spec

(* A change is answered with success only when its whole effect was applied*)
(* in one step, to the cart as it was then and not as it was read.  Not    *)
(* only if: what is answered 503, or not at all, may have been applied too.*)
AcknowledgedApplied ==
    [][\A h \in Handlers :
          LET w == handler[h]
              k == w.req.key
              pc == handler'[h].pc IN
          /\ pc = "done" => w.pc \in {"done", "answering"} \/ w.req.op = "clear"
          /\ pc = "answering" =>
                w.pc \in {"computed", "merged", "answering"} \/ w.req.op = "read"
          /\ w.pc = "computed" /\ pc \in {"merged", "answering"} =>
                /\ May(w, cart[k])
                /\ cart' = [cart EXCEPT ![k] = Mutation(w, cart[k])]]_vars

(* The retry loop cannot go round for ever without any request ending,     *)
(* unless the connection keeps breaking.                                   *)
SomeRequestEnds ==
    <>[][\A h \in Handlers : ~ExecUnanswered(h) /\ ~ConnectionBreaks(h)]_vars =>
       \/ []<>(\A h \in Handlers : handler[h].pc \in Ended)
       \/ []<><<\E h \in Handlers :
                   handler[h].pc \notin Ended /\ handler'[h].pc \in Ended>>_vars
=============================================================================
