----------------------------- MODULE CartProofs -----------------------------
(***************************************************************************)
(* Proofs about CartStore: an optimistic transaction computes from the cart*)
(* as it still is, acknowledged requests are applied, the limits hold, and *)
(* the store implements carts that change atomically.                      *)
(***************************************************************************)
EXTENDS CartStore, FiniteSetTheorems, TLAPS

-----------------------------------------------------------------------------
(* What the closures return                                                *)

LEMMA LineFacts ==
  ASSUME NEW c \in CartType, NEW v \in Variants
  PROVE  c[v].qty \in Nat /\ c[v].qty <= MaxQuantity
BY CartLimitsAssumption DEF CartType, Line, NoLine

LEMMA FromCatalogLine ==
  ASSUME NEW info \in Info, NEW n \in 1..MaxQuantity
  PROVE  FromCatalog(info, n) \in Line /\ FromCatalog(info, n) # NoLine
BY CartLimitsAssumption DEF FromCatalog, Line, Info, NoLine

LEMMA KnownInfo ==
  ASSUME NEW v \in Variants, NEW info \in Infos[v] \cup {Unread}, info.stock > 0
  PROVE  info \in Infos[v] /\ info \in Info
BY InfosAssumption DEF Unread

LEMMA AddedCart ==
  ASSUME NEW c \in CartType, NEW v \in Variants, NEW n \in Nat \ {0},
         NEW info \in Infos[v] \cup {Unread}, MayAdd(c, v, n, info)
  PROVE  /\ Added(c, v, n, info) \in CartType
         /\ Lines(Added(c, v, n, info)) \subseteq Lines(c) \cup {v}
         /\ n \in 1..MaxQuantity
         /\ info \in Infos[v]
<1>1. /\ n + c[v].qty <= MaxQuantity /\ n + c[v].qty <= info.stock
      /\ c[v].qty \in Nat /\ MaxQuantity \in Nat
  BY LineFacts, CartLimitsAssumption DEF MayAdd, CheckQuantity
<1>2. info.stock \in Nat
  BY InfosAssumption DEF Info, Unread
<1>3. info \in Infos[v] /\ info \in Info
  BY <1>1, <1>2, KnownInfo
<1>4. FromCatalog(info, n + c[v].qty) \in Line
  BY <1>1, <1>3, FromCatalogLine
<1> QED BY <1>1, <1>3, <1>4 DEF Added, CartType, Lines

LEMMA UpdatedCart ==
  ASSUME NEW c \in CartType, NEW v \in Variants, NEW n \in Nat \ {0},
         NEW info \in Infos[v] \cup {Unread}, MayUpdate(c, v), CheckQuantity(n, info)
  PROVE  /\ Updated(c, v, n, info) \in CartType
         /\ Lines(Updated(c, v, n, info)) \subseteq Lines(c)
         /\ n \in 1..MaxQuantity
         /\ info \in Infos[v]
<1>1. n \in 1..MaxQuantity /\ n <= info.stock
  BY CartLimitsAssumption DEF CheckQuantity
<1>2. info.stock \in Nat
  BY InfosAssumption DEF Info, Unread
<1>3. info \in Infos[v] /\ info \in Info
  BY <1>1, <1>2, KnownInfo
<1>4. FromCatalog(info, n) \in Line
  BY <1>1, <1>3, FromCatalogLine
<1> QED BY <1>1, <1>3, <1>4 DEF Updated, MayUpdate, CartType, Lines

LEMMA RemovedCart ==
  ASSUME NEW c \in CartType, NEW v \in Variants
  PROVE  /\ Removed(c, v) \in CartType
         /\ Lines(Removed(c, v)) \subseteq Lines(c)
BY DEF Removed, CartType, Line, Lines

LEMMA MergedCart ==
  ASSUME NEW c \in CartType, NEW guest \in CartType, NEW infos,
         \A v \in Variants : infos[v] \in Infos[v] \cup {Unread}
  PROVE  /\ Merged(c, guest, infos) \in CartType
         /\ Lines(Merged(c, guest, infos)) \subseteq Lines(c) \cup Mergeable(guest, infos)
<1>1. ASSUME NEW v \in Mergeable(guest, infos)
      PROVE  Merged(c, guest, infos)[v] \in Line
  <2> DEFINE n == Least(guest[v].qty + c[v].qty, Least(infos[v].stock, MaxQuantity))
  <2>1. v \in Variants /\ guest[v] # NoLine /\ infos[v].stock > 0
    BY DEF Mergeable, Lines
  <2>2. infos[v] \in Info /\ infos[v].stock \in Nat \ {0}
    <3>1. infos[v] \in Info BY <2>1, KnownInfo
    <3> QED BY <3>1, <2>1 DEF Info
  <2>3. guest[v].qty \in 1..MaxQuantity
    BY <2>1 DEF CartType, Line
  <2>4. c[v].qty \in Nat
    BY <2>1, LineFacts
  <2>5. n \in 1..MaxQuantity
    BY <2>2, <2>3, <2>4, CartLimitsAssumption DEF Least
  <2>6. FromCatalog(infos[v], n) \in Line
    BY <2>2, <2>5, FromCatalogLine
  <2> QED BY <2>1, <2>6 DEF Merged
<1>2. ASSUME NEW v \in Variants, v \notin Mergeable(guest, infos)
      PROVE  Merged(c, guest, infos)[v] = c[v]
  BY <1>2 DEF Merged
<1>3. \A v \in Variants : Merged(c, guest, infos)[v] \in Line
  BY <1>1, <1>2 DEF CartType
<1>4. Merged(c, guest, infos) = [v \in Variants |-> Merged(c, guest, infos)[v]]
  BY DEF Merged
<1> QED BY <1>2, <1>3, <1>4 DEF CartType, Lines

-----------------------------------------------------------------------------
(* The inductive invariant                                                 *)

Transacting == {"ready", "watching", "computed"}

(* What is known of a handler in the state w: its type, and what it has    *)
(* checked or read before its transaction.                                 *)
Sound(w) ==
    /\ w \in HandlerType
    /\ w.pc \notin Ended => w.req \in Requests
    /\ \A v \in Variants : w.seen[v] \in Infos[v] \cup {Unread}
    /\ w.pc \in {"pricing", "merged"} => w.req.op = "merge"
    /\ w.pc \in Transacting /\ w.req.op = "update" =>
          CheckQuantity(w.req.qty, w.seen[w.req.variant])
    /\ w.pc \in Transacting /\ w.req.op = "merge" =>
          \A v \in Lines(w.guest) : w.seen[v] # Unread

CartInv ==
    /\ CartTypeOK
    /\ \A h \in Handlers : Sound(handler[h])
    /\ CopyCurrent

(* What w does to a cart, when it may, is a cart within the limits.        *)
LEMMA MutationCart ==
  ASSUME NEW w, Sound(w), w.pc = "computed", NEW c \in CartType, May(w, c)
  PROVE  /\ Mutation(w, c) \in CartType
         /\ Cardinality(Lines(c)) <= MaxItems =>
               Cardinality(Lines(Mutation(w, c))) <= MaxItems
<1> DEFINE q == w.req
           v == q.variant
           info == w.seen[v]
<1>0. /\ q \in RequestType /\ v \in Variants /\ q.qty \in Nat \ {0}
      /\ info \in Infos[v] \cup {Unread}
      /\ w.guest \in CartType
  BY DEF Sound, HandlerType, RequestType
<1>1. IsFiniteSet(Lines(c)) /\ Cardinality(Lines(c)) \in Nat /\ MaxItems \in Nat
  BY CartLimitsAssumption, FS_Subset, FS_CardinalityType DEF Lines
<1>2. ASSUME NEW m \in CartType, Lines(m) \subseteq Lines(c)
      PROVE  Cardinality(Lines(c)) <= MaxItems => Cardinality(Lines(m)) <= MaxItems
  <2>1. Cardinality(Lines(m)) <= Cardinality(Lines(c)) /\ IsFiniteSet(Lines(m))
    BY <1>1, <1>2, FS_Subset
  <2> QED BY <1>1, <2>1, FS_CardinalityType
<1>3. CASE q.op = "add"
  <2>1. Mutation(w, c) = Added(c, v, q.qty, info) /\ MayAdd(c, v, q.qty, info)
    BY <1>3 DEF Mutation, May
  <2>2. Added(c, v, q.qty, info) \in CartType /\
        Lines(Added(c, v, q.qty, info)) \subseteq Lines(c) \cup {v}
    BY <1>0, <2>1, AddedCart
  <2>3. CASE c[v] = NoLine
    <3>1. v \notin Lines(c) /\ Cardinality(Lines(c)) < MaxItems
      BY <2>1, <2>3 DEF MayAdd, Lines
    <3>2. IsFiniteSet(Lines(c) \cup {v}) /\
          Cardinality(Lines(c) \cup {v}) = Cardinality(Lines(c)) + 1
      BY <1>1, <3>1, FS_AddElement
    <3>3. /\ Cardinality(Lines(Mutation(w, c))) <= Cardinality(Lines(c) \cup {v})
          /\ IsFiniteSet(Lines(Mutation(w, c)))
      BY <2>1, <2>2, <3>2, FS_Subset
    <3>4. Cardinality(Lines(Mutation(w, c))) \in Nat
      BY <3>3, FS_CardinalityType
    <3> QED BY <1>1, <2>1, <2>2, <3>1, <3>2, <3>3, <3>4
  <2>4. CASE c[v] # NoLine
    <3>1. Lines(c) \cup {v} = Lines(c)
      BY <1>0, <2>4 DEF Lines
    <3> QED BY <2>1, <2>2, <3>1, <1>2
  <2> QED BY <2>3, <2>4
<1>4. CASE q.op = "update"
  <2>1. Mutation(w, c) = Updated(c, v, q.qty, info) /\ MayUpdate(c, v)
    BY <1>4 DEF Mutation, May
  <2>2. CheckQuantity(q.qty, info)
    BY <1>4 DEF Sound, Transacting
  <2> QED BY <1>0, <1>2, <2>1, <2>2, UpdatedCart
<1>5. CASE q.op = "remove"
  <2>1. Mutation(w, c) = Removed(c, v)
    BY <1>5 DEF Mutation
  <2> QED BY <1>0, <1>2, <2>1, RemovedCart
<1>6. CASE q.op = "merge"
  <2> DEFINE all == Lines(c) \cup Mergeable(w.guest, w.seen)
  <2>1. Mutation(w, c) = Merged(c, w.guest, w.seen) /\ MayMerge(c, w.guest, w.seen)
    BY <1>6 DEF Mutation, May
  <2>2. Mutation(w, c) \in CartType /\ Lines(Mutation(w, c)) \subseteq all
    <3>1. \A x \in Variants : w.seen[x] \in Infos[x] \cup {Unread}
      BY DEF Sound
    <3> QED BY <1>0, <2>1, <3>1, MergedCart
  <2>3. IsFiniteSet(all) /\ Cardinality(all) <= MaxItems
    <3>1. all \subseteq Variants
      BY DEF Lines, Mergeable
    <3> QED BY <2>1, <3>1, CartLimitsAssumption, FS_Subset DEF MayMerge
  <2>4. Cardinality(Lines(Mutation(w, c))) <= Cardinality(all) /\
        IsFiniteSet(Lines(Mutation(w, c)))
    BY <2>2, <2>3, FS_Subset
  <2> QED BY <1>1, <2>2, <2>3, <2>4, FS_CardinalityType
<1> QED BY <1>3, <1>4, <1>5, <1>6 DEF May

-----------------------------------------------------------------------------
(* What a step does to the handlers                                        *)

CatalogOK == catalog \in [Variants -> Known] /\ \A v \in Variants : catalog[v] \in Infos[v]

LEMMA SoundTouched ==
  ASSUME NEW w, Sound(w)
  PROVE  Sound([w EXCEPT !.touched = TRUE])
BY DEF Sound, HandlerType

LEMMA SoundEnd ==
  ASSUME NEW pc \in Ended \cup {"answering"}
  PROVE  Sound(End(pc)) /\ End(pc).pc = pc
<1>1. EmptyCart \in CartType
  BY DEF CartType, EmptyCart, Line
<1>2. [v \in Variants |-> Unread] \in [Variants -> Known]
  BY DEF Known
<1>3. (CHOOSE q \in Requests : TRUE) \in Requests \cap RequestType
  BY RequestAssumption
<1>4. End(pc) \in HandlerType
  BY <1>1, <1>2, <1>3 DEF HandlerType, End, AtRest, Ended
<1> QED BY <1>3, <1>4 DEF Sound, End, AtRest, Ended, Transacting

(* A handler step: h becomes new, the carts stay.                          *)
LEMMA GoStep ==
  ASSUME CartInv, CatalogOK', cart' = cart,
         NEW h \in Handlers, NEW new, Sound(new), Go(h, new),
         new.pc = "computed" /\ ~new.touched =>
            new.copy = cart[new.req.key] /\ May(new, new.copy)
  PROVE  CartInv'
<1>1. \A g \in Handlers : Sound(handler'[g])
  BY DEF CartInv, CartTypeOK, Go
<1>2. handler' \in [Handlers -> HandlerType]
  BY DEF CartInv, CartTypeOK, Go, Sound
<1>3. CartTypeOK'
  BY <1>1, <1>2 DEF CartInv, CartTypeOK, CatalogOK, Sound
<1>4. CopyCurrent'
  BY DEF CartInv, CartTypeOK, CopyCurrent, Go
<1> QED BY <1>1, <1>3, <1>4 DEF CartInv

(* Whoever watches k is marked when its content becomes c.                 *)
LEMMA MarkedStep ==
  ASSUME CartInv, UNCHANGED catalog, NEW k \in Keys, NEW c \in CartType,
         cart' = [cart EXCEPT ![k] = c],
         handler' \in [Handlers -> HandlerType],
         \A g \in Handlers :
            \/ Sound(handler'[g]) /\ handler'[g].pc # "computed"
            \/ Watches(g, k) /\ handler'[g] = [handler[g] EXCEPT !.touched = TRUE]
            \/ ~Watches(g, k) /\ handler'[g] = handler[g]
  PROVE  CartInv'
<1>1. \A g \in Handlers : Sound(handler'[g])
  BY SoundTouched DEF CartInv
<1>2. CartTypeOK'
  BY <1>1 DEF CartInv, CartTypeOK, Sound
<1>3. ASSUME NEW g \in Handlers, handler'[g].pc = "computed", ~handler'[g].touched
      PROVE  /\ handler'[g].copy = cart'[handler'[g].req.key]
             /\ May(handler'[g], handler'[g].copy)
  <2>1. handler[g] \in HandlerType
    BY DEF CartInv, CartTypeOK
  <2>2. ~Watches(g, k) /\ handler'[g] = handler[g]
    BY <1>3, <2>1 DEF HandlerType
  <2>3. handler[g].req.key # k /\ handler[g].req.key \in Keys
    BY <1>3, <2>1, <2>2 DEF Watches, HandlerType, RequestType
  <2> QED BY <1>3, <2>2, <2>3 DEF CartInv, CartTypeOK, CopyCurrent
<1> QED BY <1>1, <1>2, <1>3 DEF CartInv, CopyCurrent

LEMMA TouchStep ==
  ASSUME CartInv, UNCHANGED catalog, NEW k \in Keys, NEW c \in CartType,
         cart' = [cart EXCEPT ![k] = c],
         NEW h \in Handlers, NEW new, Sound(new), new.pc # "computed", Touch(k, h, new)
  PROVE  CartInv'
<1>1. handler' \in [Handlers -> HandlerType]
  BY SoundTouched DEF CartInv, CartTypeOK, Touch, Sound
<1>2. \A g \in Handlers :
         \/ Sound(handler'[g]) /\ handler'[g].pc # "computed"
         \/ Watches(g, k) /\ handler'[g] = [handler[g] EXCEPT !.touched = TRUE]
         \/ ~Watches(g, k) /\ handler'[g] = handler[g]
  BY DEF Touch
<1> QED BY <1>1, <1>2, MarkedStep

-----------------------------------------------------------------------------
(* The invariant is inductive                                              *)

LEMMA CartInvInit == Init => CartInv
<1> SUFFICES ASSUME Init PROVE CartInv
  OBVIOUS
<1>1. handler = [h \in Handlers |-> End("done")]
  BY DEF Init
<1>2. EmptyCart \in CartType
  BY DEF CartType, EmptyCart, Line
<1>3. Sound(End("done")) /\ End("done").pc = "done"
  BY SoundEnd DEF Ended
<1> QED BY <1>1, <1>2, <1>3 DEF Init, CartInv, CartTypeOK, CopyCurrent, Sound, Ended

LEMMA CartInvStep == CartInv /\ [Next]_vars => CartInv'
<1> SUFFICES ASSUME CartInv, [Next]_vars PROVE CartInv'
  OBVIOUS
<1>0. CatalogOK /\ cart \in [Keys -> CartType] /\
      \A h \in Handlers : /\ Sound(handler[h])
                          /\ handler[h] \in HandlerType
                          /\ handler[h].req \in RequestType
                          /\ handler[h].req.key \in Keys /\ handler[h].req.from \in Keys
                          /\ handler[h].req.variant \in Variants
  BY DEF CartInv, CartTypeOK, CatalogOK, HandlerType, RequestType
<1>a. EmptyCart \in CartType
  BY DEF CartType, EmptyCart, Line
<1>b. \A v \in Variants : catalog[v] \in Known
  BY <1>0 DEF CatalogOK
<1>1. ASSUME NEW h \in Handlers, NEW q \in Requests, Start(h, q) PROVE CartInv'
  <2>1. Sound(AtRest("new", q))
    <3>1. [v \in Variants |-> Unread] \in [Variants -> Known]
      BY DEF Known
    <3>2. AtRest("new", q) \in HandlerType
      BY <1>a, <3>1, RequestAssumption DEF HandlerType, AtRest
    <3> QED BY <3>2 DEF Sound, AtRest, Transacting
  <2>2. AtRest("new", q).pc # "computed"
    BY DEF AtRest
  <2>3. Go(h, AtRest("new", q)) /\ cart' = cart /\ CatalogOK'
    BY <1>0, <1>1 DEF Start, CatalogOK
  <2> QED BY <2>1, <2>2, <2>3, GoStep
<1>2. ASSUME NEW h \in Handlers, Read(h) PROVE CartInv'
  <2> DEFINE k == handler[h].req.key
  <2>1. Sound(End("answering")) /\ End("answering").pc # "computed"
    BY SoundEnd DEF Ended
  <2>2. cart' = [cart EXCEPT ![k] = cart[k]] /\ cart[k] \in CartType /\ k \in Keys
    BY <1>0, <1>2 DEF Read
  <2>3. UNCHANGED catalog /\ Touch(k, h, End("answering"))
    BY <1>2 DEF Read
  <2> QED BY <2>1, <2>2, <2>3, TouchStep
<1>3. ASSUME NEW h \in Handlers, Lookup(h) PROVE CartInv'
  <2> DEFINE q == handler[h].req
             info == catalog[q.variant]
             failed == q.op = "update" /\ ~CheckQuantity(q.qty, info)
             next == [handler[h] EXCEPT !.pc = "ready", !.seen[q.variant] = info]
  <2>1. CASE failed
    <3>1. Sound(End("failed")) /\ End("failed").pc # "computed"
      BY SoundEnd DEF Ended
    <3>2. Go(h, End("failed")) /\ cart' = cart /\ CatalogOK'
      BY <1>0, <1>3, <2>1 DEF Lookup, CatalogOK
    <3> QED BY <3>1, <3>2, GoStep
  <2>2. CASE ~failed
    <3>1. q \in Requests /\ q.op \in {"add", "update"} /\ q.variant \in Variants
      BY <1>0, <1>3 DEF Lookup, Sound, Ended
    <3>2. next \in HandlerType /\ next.pc = "ready" /\ next.req = q
      BY <1>0, <1>b DEF HandlerType
    <3>3. next.seen[q.variant] = info /\
          \A v \in Variants : next.seen[v] \in Infos[v] \cup {Unread}
      BY <1>0 DEF HandlerType, Sound, CatalogOK
    <3>4. Sound(next)
      BY <2>2, <3>1, <3>2, <3>3 DEF Sound
    <3>5. Go(h, next) /\ cart' = cart /\ CatalogOK'
      BY <1>0, <1>3, <2>2 DEF Lookup, CatalogOK
    <3> QED BY <3>2, <3>4, <3>5, GoStep
  <2> QED BY <2>1, <2>2
<1>4. ASSUME NEW h \in Handlers, MergeRead(h) PROVE CartInv'
  <2> DEFINE k == handler[h].req.from
             next == [handler[h] EXCEPT !.pc = "pricing", !.guest = cart[k]]
  <2>1. Sound(next) /\ next.pc # "computed"
    <3>1. next \in HandlerType /\ next.pc = "pricing" /\ next.req = handler[h].req
          /\ next.seen = handler[h].seen
      BY <1>0 DEF HandlerType
    <3> QED BY <1>0, <1>4, <3>1 DEF MergeRead, Sound, Ended, Transacting
  <2>2. cart' = [cart EXCEPT ![k] = cart[k]] /\ cart[k] \in CartType /\ k \in Keys
    BY <1>0, <1>4 DEF MergeRead
  <2>3. UNCHANGED catalog /\ Touch(k, h, next)
    BY <1>4 DEF MergeRead
  <2> QED BY <2>1, <2>2, <2>3, TouchStep
<1>5. ASSUME NEW h \in Handlers, NEW v \in Variants, MergeLookup(h, v) PROVE CartInv'
  <2> DEFINE next == [handler[h] EXCEPT !.seen[v] = catalog[v]]
  <2>1. Sound(next) /\ next.pc # "computed"
    <3>1. next \in HandlerType /\ next.pc = "pricing" /\ next.req = handler[h].req
      BY <1>0, <1>b, <1>5 DEF HandlerType, MergeLookup
    <3>2. \A x \in Variants : next.seen[x] \in Infos[x] \cup {Unread}
      BY <1>0 DEF HandlerType, Sound, CatalogOK
    <3> QED BY <1>0, <1>5, <3>1, <3>2 DEF MergeLookup, Sound, Ended, Transacting
  <2>2. Go(h, next) /\ cart' = cart /\ CatalogOK'
    BY <1>0, <1>5 DEF MergeLookup, CatalogOK
  <2> QED BY <2>1, <2>2, GoStep
<1>6. ASSUME NEW h \in Handlers, Watch(h) PROVE CartInv'
  <2> DEFINE next == [handler[h] EXCEPT !.pc = "watching", !.touched = FALSE]
  <2>1. Sound(next) /\ next.pc # "computed"
    <3>1. next \in HandlerType /\ next.pc = "watching" /\ next.req = handler[h].req
          /\ next.seen = handler[h].seen /\ next.guest = handler[h].guest
      BY <1>0 DEF HandlerType
    <3>2. handler[h].pc \notin Ended
      BY <1>6 DEF Watch, Prepared, Ended
    <3>3. CASE handler[h].pc = "ready"
      BY <1>0, <3>1, <3>2, <3>3 DEF Sound, Transacting
    <3>4. CASE handler[h].pc = "new" /\ handler[h].req.op = "remove"
      BY <1>0, <3>1, <3>2, <3>4 DEF Sound
    <3>5. CASE handler[h].pc = "pricing" /\ Unpriced(h) = {}
      BY <1>0, <3>1, <3>2, <3>5 DEF Sound, Unpriced
    <3> QED BY <1>6, <3>1, <3>3, <3>4, <3>5 DEF Watch, Prepared
  <2>2. Go(h, next) /\ cart' = cart /\ CatalogOK'
    BY <1>0, <1>6 DEF Watch, CatalogOK
  <2> QED BY <2>1, <2>2, GoStep
<1>7. ASSUME NEW h \in Handlers, Get(h) PROVE CartInv'
  <2> DEFINE c == cart[handler[h].req.key]
             next == [handler[h] EXCEPT !.pc = "computed", !.copy = c]
  <2>0. cart' = cart /\ CatalogOK' /\ handler[h].pc = "watching"
    BY <1>0, <1>7 DEF Get, CatalogOK
  <2>1. CASE ~May(handler[h], c)
    <3>1. Sound(End("failed")) /\ End("failed").pc # "computed"
      BY SoundEnd DEF Ended
    <3>2. Go(h, End("failed"))
      BY <1>7, <2>1 DEF Get
    <3> QED BY <2>0, <3>1, <3>2, GoStep
  <2>2. CASE May(handler[h], c)
    <3>1. next \in HandlerType /\ next.pc = "computed" /\ next.req = handler[h].req
          /\ next.seen = handler[h].seen /\ next.guest = handler[h].guest /\ next.copy = c
      BY <1>0 DEF HandlerType
    <3>2. Sound(next)
      BY <1>0, <2>0, <3>1 DEF Sound, Transacting, Ended
    <3>3. May(next, next.copy)
      BY <2>2, <3>1 DEF May
    <3>4. Go(h, next)
      BY <1>7, <2>2 DEF Get
    <3> QED BY <2>0, <3>1, <3>2, <3>3, <3>4, GoStep
  <2> QED BY <2>1, <2>2
<1> DEFINE again(h) == [handler[h] EXCEPT !.pc = "ready", !.copy = EmptyCart]
           merged(h) == [handler[h] EXCEPT !.pc = "merged", !.copy = EmptyCart]
<1>c. ASSUME NEW h \in Handlers, handler[h].pc \in Transacting
      PROVE  /\ Sound(again(h)) /\ again(h).pc # "computed"
             /\ handler[h].req.op = "merge" => Sound(merged(h)) /\ merged(h).pc # "computed"
  <2>1. /\ again(h) \in HandlerType /\ again(h).pc = "ready"
        /\ again(h).req = handler[h].req
        /\ again(h).seen = handler[h].seen /\ again(h).guest = handler[h].guest
    BY <1>0, <1>a DEF HandlerType
  <2>2. /\ merged(h) \in HandlerType /\ merged(h).pc = "merged"
        /\ merged(h).req = handler[h].req /\ merged(h).seen = handler[h].seen
    BY <1>0, <1>a DEF HandlerType
  <2> QED BY <1>0, <1>c, <2>1, <2>2 DEF Sound, Transacting, Ended
<1>8. ASSUME NEW h \in Handlers, ExecConflict(h) \/ ConnectionBreaks(h) PROVE CartInv'
  <2>1. handler[h].pc \in Transacting
    BY <1>8 DEF ExecConflict, ConnectionBreaks, Transacting
  <2>2. Go(h, again(h)) /\ cart' = cart /\ CatalogOK'
    BY <1>0, <1>8 DEF ExecConflict, ConnectionBreaks, CatalogOK
  <2> QED BY <1>c, <2>1, <2>2, GoStep
<1>9. ASSUME NEW h \in Handlers, NEW new, Store(h, new), Sound(new), new.pc # "computed"
      PROVE  CartInv'
  <2> DEFINE k == handler[h].req.key
  <2>1. k \in Keys /\ handler[h].pc = "computed" /\ ~handler[h].touched
    BY <1>0, <1>9 DEF Store
  <2>2. May(handler[h], handler[h].copy) /\ handler[h].copy \in CartType
    BY <1>0, <2>1 DEF CartInv, CopyCurrent, HandlerType
  <2>3. Mutation(handler[h], handler[h].copy) \in CartType
    BY <1>0, <2>1, <2>2, MutationCart
  <2>4. /\ cart' = [cart EXCEPT ![k] = Mutation(handler[h], handler[h].copy)]
        /\ Touch(k, h, new) /\ UNCHANGED catalog
    BY <1>9 DEF Store
  <2> QED BY <1>9, <2>1, <2>3, <2>4, TouchStep
<1>10. ASSUME NEW h \in Handlers, Exec(h) PROVE CartInv'
  <2>1. handler[h].pc \in Transacting
    BY <1>10 DEF Exec, Store, Transacting
  <2>2. CASE handler[h].req.op = "merge"
    <3>1. Store(h, merged(h))
      BY <1>10, <2>2 DEF Exec
    <3> QED BY <1>c, <1>9, <2>1, <2>2, <3>1
  <2>3. CASE handler[h].req.op # "merge"
    <3>1. Store(h, End("answering"))
      BY <1>10, <2>3 DEF Exec
    <3>2. Sound(End("answering")) /\ End("answering").pc # "computed"
      BY SoundEnd DEF Ended
    <3> QED BY <1>9, <3>1, <3>2
  <2> QED BY <2>2, <2>3
<1>11. ASSUME NEW h \in Handlers, ExecUnanswered(h) PROVE CartInv'
  <2>1. handler[h].pc \in Transacting /\ Store(h, again(h))
    BY <1>11 DEF ExecUnanswered, Store, Transacting
  <2> QED BY <1>c, <1>9, <2>1
<1>12. ASSUME NEW h \in Handlers, Clear(h) \/ MergeDelete(h) PROVE CartInv'
  <2>1. \A pc \in {"done", "answering"} : Sound(End(pc)) /\ End(pc).pc # "computed"
    BY SoundEnd DEF Ended
  <2>2. PICK k \in Keys, pc \in {"done", "answering"} :
           /\ cart' = [cart EXCEPT ![k] = EmptyCart]
           /\ Touch(k, h, End(pc))
           /\ UNCHANGED catalog
    BY <1>0, <1>12 DEF Clear, MergeDelete
  <2> QED BY <1>a, <2>1, <2>2, TouchStep
<1>13. ASSUME NEW k \in Keys, KeyExpires(k) PROVE CartInv'
  <2>1. handler' \in [Handlers -> HandlerType]
    BY <1>0, <1>13, SoundTouched DEF KeyExpires, CartInv, CartTypeOK, Sound
  <2>2. \A g \in Handlers :
           \/ Watches(g, k) /\ handler'[g] = [handler[g] EXCEPT !.touched = TRUE]
           \/ ~Watches(g, k) /\ handler'[g] = handler[g]
    BY <1>13 DEF KeyExpires
  <2>3. cart' = [cart EXCEPT ![k] = EmptyCart] /\ UNCHANGED catalog
    BY <1>13 DEF KeyExpires
  <2> QED BY <1>a, <2>1, <2>2, <2>3, MarkedStep
<1>14. ASSUME NEW h \in Handlers, Abort(h) PROVE CartInv'
  <2>1. Sound(End("failed")) /\ End("failed").pc # "computed"
    BY SoundEnd DEF Ended
  <2>2. Go(h, End("failed")) /\ cart' = cart /\ CatalogOK'
    BY <1>0, <1>14 DEF Abort, CatalogOK
  <2> QED BY <2>1, <2>2, GoStep
<1>15. ASSUME NEW v \in Variants, NEW info \in Infos[v], CatalogChanges(v, info)
       PROVE  CartInv'
  <2>1. info \in Known
    BY DEF Known
  <2>2. CatalogOK'
    BY <1>0, <1>15, <2>1 DEF CatalogChanges, CatalogOK
  <2> QED BY <1>15, <2>2 DEF CatalogChanges, CartInv, CartTypeOK, CopyCurrent, CatalogOK
<1>16. ASSUME NEW h \in Handlers, Answer(h) PROVE CartInv'
  <2>1. Sound(End("done")) /\ End("done").pc # "computed"
    BY SoundEnd DEF Ended
  <2>2. Go(h, End("done")) /\ cart' = cart /\ CatalogOK'
    BY <1>0, <1>16 DEF Answer, CatalogOK
  <2> QED BY <2>1, <2>2, GoStep
<1>17. CASE UNCHANGED vars
  BY <1>17 DEF vars, CartInv, CartTypeOK, CopyCurrent
<1> QED
  BY <1>1, <1>2, <1>3, <1>4, <1>5, <1>6, <1>7, <1>8, <1>10, <1>11, <1>12, <1>13, <1>14,
     <1>15, <1>16, <1>17 DEF Next, Serve

LEMMA CartInvHolds == Spec => []CartInv
<1> QED BY CartInvInit, CartInvStep, PTL DEF Spec

(* Every variable keeps its type; no line exceeds the quantity limit.      *)
THEOREM CartsAreCarts == Spec => []CartTypeOK
<1>1. CartInv => CartTypeOK
  BY DEF CartInv
<1> QED BY <1>1, CartInvHolds, PTL

(* Optimistic locking: what EXEC is about to store was computed from the   *)
(* cart as Redis still holds it (RedisCartStore.mutate).                   *)
THEOREM CopiesAreCurrent == Spec => []CopyCurrent
<1>1. CartInv => CopyCurrent
  BY DEF CartInv
<1> QED BY <1>1, CartInvHolds, PTL

-----------------------------------------------------------------------------
(* What a step does to the carts                                           *)

(* A cart changes by the mutation of a handler that may do it now, or it   *)
(* becomes empty.                                                          *)
LEMMA CartStep ==
  ASSUME CartInv, [Next]_vars
  PROVE  \/ cart' = cart
         \/ \E k \in Keys : cart' = [cart EXCEPT ![k] = EmptyCart]
         \/ \E h \in Handlers :
               LET k == handler[h].req.key IN
               /\ handler[h].pc = "computed" /\ handler'[h] # handler[h]
               /\ May(handler[h], cart[k])
               /\ cart' = [cart EXCEPT ![k] = Mutation(handler[h], cart[k])]
<1>1. \A h \in Handlers : handler[h].req.key \in Keys /\ handler[h].req.from \in Keys
  BY DEF CartInv, CartTypeOK, HandlerType, RequestType
<1>2. ASSUME NEW h \in Handlers, Clear(h) \/ MergeDelete(h)
      PROVE  \E k \in Keys : cart' = [cart EXCEPT ![k] = EmptyCart]
  BY <1>1, <1>2 DEF Clear, MergeDelete
<1>3. ASSUME NEW h \in Handlers, NEW new, Store(h, new), new.pc # "computed"
      PROVE  LET k == handler[h].req.key IN
             /\ handler[h].pc = "computed" /\ handler'[h] # handler[h]
             /\ May(handler[h], cart[k])
             /\ cart' = [cart EXCEPT ![k] = Mutation(handler[h], cart[k])]
  BY <1>3 DEF Store, Touch, CartInv, CopyCurrent
<1>4. ASSUME NEW h \in Handlers, Exec(h) \/ ExecUnanswered(h)
      PROVE  \E new : Store(h, new) /\ new.pc # "computed"
  <2> DEFINE merged == [handler[h] EXCEPT !.pc = "merged", !.copy = EmptyCart]
             again == [handler[h] EXCEPT !.pc = "ready", !.copy = EmptyCart]
             done == End("answering")
  <2>1. handler[h] \in HandlerType
    BY DEF CartInv, CartTypeOK
  <2>2. merged.pc # "computed" /\ again.pc # "computed" /\ done.pc # "computed"
    BY <2>1 DEF HandlerType, End, AtRest
  <2>3. Store(h, merged) \/ Store(h, again) \/ Store(h, done)
    BY <1>4 DEF Exec, ExecUnanswered
  <2> QED BY <2>2, <2>3
<1>5. ASSUME NEW h \in Handlers,
             \/ \E q \in Requests : Start(h, q)
             \/ Read(h) \/ Lookup(h) \/ MergeRead(h)
             \/ \E v \in Variants : MergeLookup(h, v)
             \/ Watch(h) \/ Get(h) \/ ExecConflict(h) \/ ConnectionBreaks(h) \/ Abort(h)
             \/ Answer(h)
      PROVE  cart' = cart
  BY <1>5 DEF Start, Read, Lookup, MergeRead, MergeLookup, Watch, Get, ExecConflict,
              ConnectionBreaks, Abort, Answer
<1>6. ASSUME NEW k \in Keys, KeyExpires(k)
      PROVE  cart' = [cart EXCEPT ![k] = EmptyCart]
  BY <1>6 DEF KeyExpires
<1>7. ASSUME NEW v \in Variants, NEW info \in Infos[v], CatalogChanges(v, info)
      PROVE  cart' = cart
  BY <1>7 DEF CatalogChanges
<1>8. CASE UNCHANGED vars
  BY <1>8 DEF vars
<1> QED BY <1>2, <1>3, <1>4, <1>5, <1>6, <1>7, <1>8 DEF Next, Serve

(* The number of lines stays within maximum_cart_items.                    *)
THEOREM CartsAreLimited == Spec => []CartLimits
<1>1. Init => CartLimits
  <2> SUFFICES ASSUME Init, NEW k \in Keys PROVE Cardinality(Lines(cart[k])) <= MaxItems
    BY DEF CartLimits
  <2>1. Lines(cart[k]) = {}
    BY DEF Init, Lines, EmptyCart
  <2> QED BY <2>1, FS_EmptySet, CartLimitsAssumption
<1>2. CartInv /\ CartLimits /\ [Next]_vars => CartLimits'
  <2> SUFFICES ASSUME CartInv, CartLimits, [Next]_vars PROVE CartLimits'
    OBVIOUS
  <2>0. cart \in [Keys -> CartType]
    BY DEF CartInv, CartTypeOK
  <2>1. CASE cart' = cart
    BY <2>1 DEF CartLimits
  <2>2. ASSUME NEW k \in Keys, cart' = [cart EXCEPT ![k] = EmptyCart] PROVE CartLimits'
    <3>1. Lines(EmptyCart) = {}
      BY DEF Lines, EmptyCart
    <3>2. Cardinality(Lines(EmptyCart)) <= MaxItems
      BY <3>1, FS_EmptySet, CartLimitsAssumption
    <3> QED BY <2>0, <2>2, <3>2 DEF CartLimits
  <2>3. ASSUME NEW h \in Handlers, NEW k \in Keys, k = handler[h].req.key,
               handler[h].pc = "computed", May(handler[h], cart[k]),
               cart' = [cart EXCEPT ![k] = Mutation(handler[h], cart[k])]
        PROVE  CartLimits'
    <3>1. Sound(handler[h])
      BY DEF CartInv
    <3>2. Cardinality(Lines(Mutation(handler[h], cart[k]))) <= MaxItems
      BY <2>0, <2>3, <3>1, MutationCart DEF CartLimits
    <3> QED BY <2>0, <2>3, <3>2 DEF CartLimits
  <2>4. \A h \in Handlers : handler[h].req.key \in Keys
    BY DEF CartInv, CartTypeOK, HandlerType, RequestType
  <2> QED BY <2>1, <2>2, <2>3, <2>4, CartStep
<1> QED BY <1>1, <1>2, CartInvHolds, PTL DEF Spec

(* The mutations that check currencies keep a cart to one; an update keeps  *)
(* it to one when the variant has the currency of its line.                *)
LEMMA AddedOneCurrency ==
  ASSUME NEW c \in CartType, NEW v \in Variants, NEW n, NEW info,
         MayAdd(c, v, n, info), OneCurrency(c)
  PROVE  OneCurrency(Added(c, v, n, info))
<1> DEFINE m == Added(c, v, n, info)
<1>1. m[v].currency = info.currency
  BY DEF Added, FromCatalog, CartType
<1>2. ASSUME NEW w \in Lines(m) \ {v}
      PROVE  w \in Lines(c) \ {v} /\ m[w] = c[w]
  BY <1>2 DEF Added, CartType, Lines
<1>3. ASSUME NEW w \in Lines(m) \ {v}
      PROVE  m[w].currency = info.currency
  <2>1. w \in Lines(c) \ {v} /\ m[w] = c[w]
    BY <1>2
  <2>2. PICK x \in Lines(c) \ {v} : c[x].currency = info.currency
    BY <2>1 DEF MayAdd, CurrenciesOf
  <2> QED BY <2>1, <2>2 DEF OneCurrency
<1>4. \A w \in Lines(m) : m[w].currency = info.currency
  BY <1>1, <1>3
<1> QED BY <1>4 DEF OneCurrency

LEMMA UpdatedOneCurrency ==
  ASSUME NEW c \in CartType, NEW v \in Variants, NEW n, NEW info,
         MayUpdate(c, v), info.currency = c[v].currency, OneCurrency(c)
  PROVE  OneCurrency(Updated(c, v, n, info))
<1> DEFINE m == Updated(c, v, n, info)
<1>1. m[v].currency = c[v].currency
  BY DEF Updated, FromCatalog, CartType
<1>2. ASSUME NEW w \in Lines(m)
      PROVE  w \in Lines(c) /\ m[w].currency = c[w].currency
  BY <1>1, <1>2 DEF Updated, CartType, Lines, MayUpdate
<1> QED BY <1>2 DEF OneCurrency

LEMMA MergedOneCurrency ==
  ASSUME NEW c \in CartType, NEW guest \in CartType, NEW infos,
         \A v \in Variants : infos[v] \in Infos[v] \cup {Unread},
         MayMerge(c, guest, infos)
  PROVE  OneCurrency(Merged(c, guest, infos))
<1> DEFINE m == Merged(c, guest, infos)
           incoming == Mergeable(guest, infos)
           all == CurrenciesOf(c, Lines(c)) \cup CurrenciesOf(infos, incoming)
<1>1. CurrenciesOf(c, Lines(c)) \subseteq Currencies
  BY DEF CurrenciesOf, Lines, CartType, Line
<1>2. CurrenciesOf(infos, incoming) \subseteq Currencies
  <2>1. ASSUME NEW v \in incoming PROVE infos[v].currency \in Currencies
    <3>1. v \in Variants /\ infos[v].stock > 0
      BY DEF Mergeable, Lines
    <3>2. infos[v] \in Info
      BY <3>1, KnownInfo
    <3> QED BY <3>2 DEF Info
  <2> QED BY <2>1 DEF CurrenciesOf
<1>3. IsFiniteSet(all) /\ Cardinality(all) <= 1
  BY <1>1, <1>2, FS_Subset, CurrencyAssumption DEF MayMerge
<1>4. ASSUME NEW x \in all, NEW y \in all PROVE x = y
  <2>1. Cardinality(all) \in Nat /\ all # {}
    BY <1>3, FS_CardinalityType
  <2>2. Cardinality(all) # 0
    BY <1>3, <2>1, FS_EmptySet
  <2>3. Cardinality(all) = 1
    BY <1>3, <2>1, <2>2
  <2> QED BY <1>3, <2>3, FS_Singleton
<1>5. ASSUME NEW v \in Lines(m) PROVE m[v].currency \in all
  <2>1. CASE v \in incoming
    BY <2>1 DEF Merged, FromCatalog, CurrenciesOf, Mergeable, Lines
  <2>2. CASE v \notin incoming
    BY <2>2 DEF Merged, CurrenciesOf, Lines
  <2> QED BY <2>1, <2>2
<1> QED BY <1>4, <1>5 DEF OneCurrency

(* However additions and merges meet in a cart, its currencies are mixed   *)
(* only by an update of a line whose variant has changed its currency.     *)
THEOREM MixedByUpdatesOnly == Spec => MixedOnlyByUpdate
<1> DEFINE UpdateMixes(k) ==
      \E h \in Handlers :
         LET q == handler[h].req IN
         /\ handler'[h] # handler[h] /\ q.op = "update" /\ q.key = k
         /\ handler[h].seen[q.variant].currency # cart[k][q.variant].currency
<1> DEFINE Mixed ==
      \A k \in Keys : OneCurrency(cart[k]) /\ ~OneCurrency(cart'[k]) => UpdateMixes(k)
<1>1. CartInv /\ [Next]_vars => [Mixed]_vars
  <2> SUFFICES ASSUME CartInv, [Next]_vars, NEW k \in Keys,
                      OneCurrency(cart[k]), ~OneCurrency(cart'[k])
               PROVE  UpdateMixes(k)
    OBVIOUS
  <2>0. cart \in [Keys -> CartType]
    BY DEF CartInv, CartTypeOK
  <2>1. cart' # cart
    OBVIOUS
  <2>2. ASSUME NEW g \in Keys, cart' = [cart EXCEPT ![g] = EmptyCart] PROVE FALSE
    <3>1. OneCurrency(EmptyCart)
      BY DEF OneCurrency, Lines, EmptyCart
    <3> QED BY <2>0, <2>2, <3>1
  <2>3. PICK h \in Handlers :
           LET g == handler[h].req.key IN
           /\ handler[h].pc = "computed" /\ handler'[h] # handler[h]
           /\ May(handler[h], cart[g])
           /\ cart' = [cart EXCEPT ![g] = Mutation(handler[h], cart[g])]
    BY <2>1, <2>2, CartStep
  <2> DEFINE w == handler[h]
             q == w.req
             v == q.variant
             info == w.seen[v]
  <2>4. q.key = k /\ May(w, cart[k]) /\ ~OneCurrency(Mutation(w, cart[k]))
    BY <2>0, <2>3
  <2>5. /\ Sound(w) /\ cart[k] \in CartType /\ v \in Variants
        /\ w.guest \in CartType
        /\ \A x \in Variants : w.seen[x] \in Infos[x] \cup {Unread}
    BY <2>0 DEF CartInv, Sound, HandlerType, RequestType
  <2>6. CASE q.op = "add"
    BY <2>4, <2>5, <2>6, AddedOneCurrency DEF May, Mutation
  <2>7. CASE q.op = "remove"
    <3>1. OneCurrency(Removed(cart[k], v))
      BY <2>5 DEF OneCurrency, Removed, Lines, CartType
    <3> QED BY <2>4, <2>7, <3>1 DEF Mutation
  <2>8. CASE q.op = "merge"
    BY <2>4, <2>5, <2>8, MergedOneCurrency DEF May, Mutation
  <2>9. CASE q.op = "update"
    <3>1. MayUpdate(cart[k], v) /\ ~OneCurrency(Updated(cart[k], v, q.qty, info))
      BY <2>4, <2>9 DEF May, Mutation
    <3>2. info.currency # cart[k][v].currency
      BY <2>5, <3>1, UpdatedOneCurrency
    <3> QED BY <2>3, <2>4, <2>9, <3>2
  <2> QED BY <2>4, <2>6, <2>7, <2>8, <2>9 DEF May
<1> QED BY <1>1, CartInvHolds, PTL DEF MixedOnlyByUpdate, Spec

(* What the steps of other handlers leave of a handler.                    *)
LEMMA OthersStay ==
  ASSUME CartInv, NEW h \in Handlers, NEW g \in Handlers, g # h,
         \E new : Go(g, new) \/ \E k : Touch(k, g, new)
  PROVE  handler'[h].pc = handler[h].pc
BY DEF CartInv, CartTypeOK, HandlerType, Go, Touch

(* A change is answered with success only when its whole effect was applied*)
(* in one step, to the cart as it was then (RedisCartStore.mutate).        *)
THEOREM AcknowledgedAreApplied == Spec => AcknowledgedApplied
<1> DEFINE Right(h) ==
      LET w == handler[h]
          k == w.req.key
          pc == handler'[h].pc IN
      /\ pc = "done" => w.pc \in {"done", "answering"} \/ w.req.op = "clear"
      /\ pc = "answering" =>
            w.pc \in {"computed", "merged", "answering"} \/ w.req.op = "read"
      /\ w.pc = "computed" /\ pc \in {"merged", "answering"} =>
            /\ May(w, cart[k])
            /\ cart' = [cart EXCEPT ![k] = Mutation(w, cart[k])]
<1>1. ASSUME CartInv, [Next]_vars, NEW h \in Handlers PROVE Right(h)
  <2>0. handler \in [Handlers -> HandlerType] /\ handler[h] \in HandlerType
    BY <1>1 DEF CartInv, CartTypeOK
  <2>1. ASSUME handler'[h].pc = handler[h].pc PROVE Right(h)
    BY <2>1
  <2>2. ASSUME handler'[h].pc \notin {"done", "answering", "merged"} PROVE Right(h)
    BY <2>2
  <2>3. \A pc : End(pc).pc = pc
    BY DEF End, AtRest
  <2>4. ASSUME NEW new, Go(h, new) \/ \E k : Touch(k, h, new)
        PROVE  handler'[h] = new
    BY <2>0, <2>4 DEF Go, Touch
  <2>5. ASSUME NEW g \in Handlers, g # h,
               \/ \E q \in Requests : Start(g, q)
               \/ Serve(g) \/ ExecUnanswered(g) \/ ConnectionBreaks(g) \/ Abort(g)
        PROVE  Right(h)
    <3>1. \E new : Go(g, new) \/ \E k : Touch(k, g, new)
      BY <2>5 DEF Start, Serve, Read, Clear, Lookup, MergeRead, MergeLookup, MergeDelete,
                  Watch, Get, ExecConflict, Exec, Answer, ExecUnanswered, Store,
                  ConnectionBreaks, Abort
    <3>2. handler'[h].pc = handler[h].pc
      BY <1>1, <2>5, <3>1, OthersStay
    <3> QED BY <2>1, <3>2
  <2>6. ASSUME Answer(h) \/ Clear(h) \/ Read(h) \/ MergeDelete(h)
        PROVE  Right(h)
    <3>1. CASE Answer(h)
      BY <2>3, <2>4, <3>1 DEF Answer
    <3>2. CASE Clear(h)
      <4>1. handler'[h].pc = "done" /\ handler[h].pc = "new" /\ handler[h].req.op = "clear"
        BY <2>3, <2>4, <3>2 DEF Clear
      <4> QED BY <4>1
    <3>3. CASE Read(h)
      <4>1. /\ handler'[h].pc = "answering" /\ handler[h].pc = "new"
            /\ handler[h].req.op = "read"
        BY <2>3, <2>4, <3>3 DEF Read
      <4> QED BY <4>1
    <3>4. CASE MergeDelete(h)
      <4>1. handler'[h].pc = "answering" /\ handler[h].pc = "merged"
        BY <2>3, <2>4, <3>4 DEF MergeDelete
      <4> QED BY <4>1
    <3> QED BY <2>6, <3>1, <3>2, <3>3, <3>4
  <2>7. ASSUME Exec(h) PROVE Right(h)
    <3>1. PICK new : Store(h, new) /\ new.pc \in {"merged", "answering"}
      <4>1. CASE handler[h].req.op = "merge"
        <5>1. [handler[h] EXCEPT !.pc = "merged", !.copy = EmptyCart].pc = "merged"
          BY <2>0 DEF HandlerType
        <5> QED BY <2>7, <4>1, <5>1 DEF Exec
      <4>2. CASE handler[h].req.op # "merge"
        BY <2>3, <2>7, <4>2 DEF Exec
      <4> QED BY <4>1, <4>2
    <3>2. handler[h].pc = "computed" /\ handler'[h].pc \in {"merged", "answering"}
      BY <2>4, <3>1 DEF Store
    <3>3. LET k == handler[h].req.key IN
          /\ May(handler[h], cart[k])
          /\ cart' = [cart EXCEPT ![k] = Mutation(handler[h], cart[k])]
      BY <1>1, <3>1 DEF Store, CartInv, CopyCurrent
    <3> QED BY <3>2, <3>3
  <2>8. ASSUME \/ \E q \in Requests : Start(h, q)
               \/ Lookup(h) \/ MergeRead(h) \/ \E v \in Variants : MergeLookup(h, v)
               \/ Watch(h) \/ Get(h)
        PROVE  Right(h)
    <3>1. handler'[h].pc \in {"new", "ready", "failed", "pricing", "watching", "computed"}
      <4>1. CASE \E q \in Requests : Start(h, q)
        BY <2>4, <4>1 DEF Start, AtRest
      <4>2. CASE Lookup(h)
        BY <2>0, <2>3, <2>4, <4>2 DEF Lookup, HandlerType
      <4>3. CASE MergeRead(h)
        BY <2>0, <2>4, <4>3 DEF MergeRead, HandlerType
      <4>4. CASE \E v \in Variants : MergeLookup(h, v)
        BY <2>0, <2>4, <4>4 DEF MergeLookup, HandlerType
      <4>5. CASE Watch(h)
        BY <2>0, <2>4, <4>5 DEF Watch, HandlerType
      <4>6. CASE Get(h)
        BY <2>0, <2>3, <2>4, <4>6 DEF Get, HandlerType
      <4> QED BY <2>8, <4>1, <4>2, <4>3, <4>4, <4>5, <4>6
    <3> QED BY <2>2, <3>1
  <2>9. ASSUME ExecConflict(h) \/ ExecUnanswered(h) \/ ConnectionBreaks(h) \/ Abort(h)
        PROVE  Right(h)
    <3>1. [handler[h] EXCEPT !.pc = "ready", !.copy = EmptyCart].pc = "ready"
      BY <2>0 DEF HandlerType
    <3>2. handler'[h].pc \in {"ready", "failed"}
      BY <2>3, <2>4, <2>9, <3>1 DEF ExecConflict, ExecUnanswered, Store, ConnectionBreaks, Abort
    <3> QED BY <2>2, <3>2
  <2>10. ASSUME NEW k \in Keys, KeyExpires(k) PROVE Right(h)
    <3>1. handler'[h].pc = handler[h].pc
      BY <2>0, <2>10 DEF KeyExpires, HandlerType
    <3> QED BY <2>1, <3>1
  <2>11. ASSUME UNCHANGED handler PROVE Right(h)
    BY <2>1, <2>11
  <2>12. CASE UNCHANGED vars
    BY <2>11, <2>12 DEF vars
  <2>13. ASSUME NEW g \in Handlers,
                \/ \E q \in Requests : Start(g, q)
                \/ Serve(g) \/ ExecUnanswered(g) \/ ConnectionBreaks(g) \/ Abort(g)
         PROVE  Right(h)
    <3>1. CASE g # h
      BY <2>5, <2>13, <3>1
    <3>2. CASE g = h
      BY <2>6, <2>7, <2>8, <2>9, <2>13, <3>2 DEF Serve
    <3> QED BY <3>1, <3>2
  <2>14. ASSUME NEW v \in Variants, NEW info \in Infos[v], CatalogChanges(v, info)
         PROVE  Right(h)
    BY <2>11, <2>14 DEF CatalogChanges
  <2> HIDE DEF Right
  <2> QED BY <1>1, <2>10, <2>12, <2>13, <2>14 DEF Next
<1>2. CartInv /\ [Next]_vars => [\A h \in Handlers : Right(h)]_vars
  BY <1>1
<1> QED BY <1>2, CartInvHolds, PTL DEF Spec, AcknowledgedApplied

-----------------------------------------------------------------------------
(* Refinement                                                              *)

(* AtomicCarts uses CartLines with the same constants.                     *)
LEMMA SameLines ==
  /\ Atomic!EmptyCart = EmptyCart /\ Atomic!CartType = CartType /\ Atomic!Known = Known
  /\ \A c, v : /\ Atomic!MayUpdate(c, v) = MayUpdate(c, v)
               /\ Atomic!MayRemove(c, v) = MayRemove(c, v)
               /\ Atomic!Removed(c, v) = Removed(c, v)
               /\ Atomic!Lines(c) = Lines(c)
  /\ \A c, v, n, info : /\ Atomic!MayAdd(c, v, n, info) <=> MayAdd(c, v, n, info)
                        /\ Atomic!Added(c, v, n, info) = Added(c, v, n, info)
                        /\ Atomic!Updated(c, v, n, info) = Updated(c, v, n, info)
                        /\ Atomic!CheckQuantity(n, info) = CheckQuantity(n, info)
  /\ \A c, g, infos : /\ Atomic!MayMerge(c, g, infos) <=> MayMerge(c, g, infos)
                      /\ Atomic!Merged(c, g, infos) = Merged(c, g, infos)
<1>1. Atomic!NoLine = NoLine /\ Atomic!Unread = Unread
  BY DEF Atomic!NoLine, NoLine, Atomic!Unread, Unread
<1>2. Atomic!EmptyCart = EmptyCart /\ Atomic!CartType = CartType /\ Atomic!Known = Known
  BY <1>1 DEF Atomic!EmptyCart, EmptyCart, Atomic!Line, Line, Atomic!CartType, CartType,
              Atomic!Known, Known
<1>3. ASSUME NEW c PROVE Atomic!Lines(c) = Lines(c)
  BY <1>1 DEF Atomic!Lines, Lines
<1>4. ASSUME NEW c, NEW vs PROVE Atomic!CurrenciesOf(c, vs) = CurrenciesOf(c, vs)
  BY DEF Atomic!CurrenciesOf, CurrenciesOf
<1>5. ASSUME NEW S PROVE Atomic!Cardinality(S) = Cardinality(S)
  BY Zenon DEF Atomic!Cardinality, Cardinality
<1>6. ASSUME NEW n, NEW info
      PROVE  /\ Atomic!CheckQuantity(n, info) = CheckQuantity(n, info)
             /\ Atomic!FromCatalog(info, n) = FromCatalog(info, n)
  BY DEF Atomic!CheckQuantity, CheckQuantity, Atomic!FromCatalog, FromCatalog
<1>7. ASSUME NEW c, NEW v
      PROVE  /\ Atomic!MayUpdate(c, v) = MayUpdate(c, v)
             /\ Atomic!MayRemove(c, v) = MayRemove(c, v)
             /\ Atomic!Removed(c, v) = Removed(c, v)
  BY <1>1 DEF Atomic!MayUpdate, MayUpdate, Atomic!MayRemove, MayRemove,
              Atomic!Removed, Removed
<1>8. ASSUME NEW c, NEW v, NEW n, NEW info
      PROVE  /\ Atomic!MayAdd(c, v, n, info) <=> MayAdd(c, v, n, info)
             /\ Atomic!Added(c, v, n, info) = Added(c, v, n, info)
             /\ Atomic!Updated(c, v, n, info) = Updated(c, v, n, info)
  BY <1>1, <1>3, <1>4, <1>6, <1>5 DEF Atomic!MayAdd, MayAdd, Atomic!Added, Added,
                                Atomic!Updated, Updated
<1>9. ASSUME NEW c, NEW g, NEW infos
      PROVE  /\ Atomic!MayMerge(c, g, infos) <=> MayMerge(c, g, infos)
             /\ Atomic!Merged(c, g, infos) = Merged(c, g, infos)
  <2>1. Atomic!Mergeable(g, infos) = Mergeable(g, infos)
    BY <1>3 DEF Atomic!Mergeable, Mergeable
  <2>2. ASSUME NEW m, NEW n PROVE Atomic!Least(m, n) = Least(m, n)
    BY DEF Atomic!Least, Least
  <2>3. Atomic!MayMerge(c, g, infos) <=> MayMerge(c, g, infos)
    BY <1>3, <1>4, <1>5, <2>1 DEF Atomic!MayMerge, MayMerge
  <2>4. Atomic!Merged(c, g, infos) = Merged(c, g, infos)
    BY <1>6, <2>1, <2>2 DEF Atomic!Merged, Merged
  <2> QED BY <2>3, <2>4
<1> QED BY <1>2, <1>3, <1>6, <1>7, <1>8, <1>9

(* No update is lost: every change of a cart is one permitted operation,   *)
(* made in one step of what the cart is then.                              *)
THEOREM CartsImplementAtomic == Spec => CartsAtomic
<1>1. Init => Atomic!Init
  BY SameLines DEF Init, Atomic!Init
<1>2. CartInv /\ [Next]_vars => [Atomic!Next]_cart
  <2> SUFFICES ASSUME CartInv, [Next]_vars, cart' # cart PROVE Atomic!Next
    OBVIOUS
  <2>0. cart \in [Keys -> CartType]
    BY DEF CartInv, CartTypeOK
  <2>1. ASSUME NEW k \in Keys, NEW c, cart' = [cart EXCEPT ![k] = c]
        PROVE  Atomic!Changes(k) /\ Atomic!Become(k, c)
    BY <2>0, <2>1 DEF Atomic!Changes, Atomic!Become
  <2>2. ASSUME NEW k \in Keys, cart' = [cart EXCEPT ![k] = EmptyCart]
        PROVE  Atomic!Next
    BY <2>1, <2>2, SameLines DEF Atomic!Next, Atomic!Empty
  <2>3. ASSUME NEW h \in Handlers, NEW k \in Keys, k = handler[h].req.key,
               handler[h].pc = "computed", May(handler[h], cart[k]),
               cart' = [cart EXCEPT ![k] = Mutation(handler[h], cart[k])]
        PROVE  Atomic!Next
    <3> DEFINE w == handler[h]
               q == w.req
               v == q.variant
               info == w.seen[v]
    <3>1. /\ Sound(w) /\ v \in Variants /\ q.qty \in Nat \ {0}
          /\ info \in Infos[v] \cup {Unread}
          /\ w.guest \in CartType /\ cart[k] \in CartType
          /\ w.seen \in [Variants -> Known]
      BY <2>0 DEF CartInv, Sound, HandlerType, RequestType
    <3>2. Atomic!Changes(k) /\ Atomic!Become(k, Mutation(w, cart[k]))
      BY <2>1, <2>3
    <3>3. CASE q.op = "add"
      <4>1. MayAdd(cart[k], v, q.qty, info) /\
            Mutation(w, cart[k]) = Added(cart[k], v, q.qty, info)
        BY <2>3, <3>3 DEF May, Mutation
      <4>2. q.qty \in 1..MaxQuantity /\ info \in Infos[v]
        BY <3>1, <4>1, AddedCart
      <4>3. Atomic!Add(k, v, q.qty, info)
        BY <3>2, <4>1, SameLines DEF Atomic!Add
      <4> QED BY <3>1, <3>2, <4>2, <4>3 DEF Atomic!Next
    <3>4. CASE q.op = "update"
      <4>1. MayUpdate(cart[k], v) /\
            Mutation(w, cart[k]) = Updated(cart[k], v, q.qty, info)
        BY <2>3, <3>4 DEF May, Mutation
      <4>2. CheckQuantity(q.qty, info)
        BY <2>3, <3>1, <3>4 DEF Sound, Transacting
      <4>3. q.qty \in 1..MaxQuantity /\ info \in Infos[v]
        BY <3>1, <4>1, <4>2, UpdatedCart
      <4>4. Atomic!Update(k, v, q.qty, info)
        BY <3>2, <4>1, <4>2, SameLines DEF Atomic!Update
      <4> QED BY <3>1, <3>2, <4>3, <4>4 DEF Atomic!Next
    <3>5. CASE q.op = "remove"
      <4>1. MayRemove(cart[k], v) /\ Mutation(w, cart[k]) = Removed(cart[k], v)
        BY <2>3, <3>5 DEF May, Mutation
      <4>2. Atomic!Remove(k, v)
        BY <3>2, <4>1, SameLines DEF Atomic!Remove
      <4> QED BY <3>1, <3>2, <4>2 DEF Atomic!Next
    <3>6. CASE q.op = "merge"
      <4>1. MayMerge(cart[k], w.guest, w.seen) /\
            Mutation(w, cart[k]) = Merged(cart[k], w.guest, w.seen)
        BY <2>3, <3>6 DEF May, Mutation
      <4>2. \A x \in Lines(w.guest) : w.seen[x] \in Infos[x]
        BY <2>3, <3>1, <3>6 DEF Sound, Transacting, Lines
      <4>3. Atomic!Merge(k, w.guest, w.seen)
        BY <3>2, <4>1, SameLines DEF Atomic!Merge
      <4>4. /\ w.guest \in Atomic!CartType /\ w.seen \in [Variants -> Atomic!Known]
            /\ \A x \in Atomic!Lines(w.guest) : w.seen[x] \in Infos[x]
        BY <3>1, <4>2, SameLines
      <4> QED BY <3>2, <4>3, <4>4 DEF Atomic!Next
    <3> QED BY <2>3, <3>3, <3>4, <3>5, <3>6 DEF May
  <2>4. \A h \in Handlers : handler[h].req.key \in Keys
    BY DEF CartInv, CartTypeOK, HandlerType, RequestType
  <2> QED BY <2>2, <2>3, <2>4, CartStep
<1> QED BY <1>1, <1>2, CartInvHolds, PTL DEF Spec, CartsAtomic, Atomic!Spec
=============================================================================
