---------------------------- MODULE HistoryProofs ----------------------------
(***************************************************************************)
(* What a step does to the row and the audit trail of one order, and the   *)
(* theorems about order histories that follow from it and from the         *)
(* inductive invariant of OrderProofs.                                     *)
(***************************************************************************)
EXTENDS OrderProofs

-----------------------------------------------------------------------------
(* Steps of one order                                                      *)

RowKept(o) == status'[o] = status[o] /\ history'[o] = history[o]

RowInserted(o) ==
    /\ status[o] = "absent"
    /\ status'[o] = "reserving_inventory"
    /\ history'[o] = <<[from |-> "absent", to |-> "reserving_inventory"]>>

RowMoved(o) ==
    /\ status[o] # "absent"
    /\ status'[o] \in Statuses
    /\ \E from \in Statuses :
          history'[o] = Append(history[o], [from |-> from, to |-> status'[o]])
    /\ status'[o] \in Downstream =>
          status[o] \in Statuses /\ status'[o] \in Transitions[status[o]]

(* A transition moves the orders it is about and keeps the others.         *)
LEMMA TransitionMoves ==
  ASSUME TypeOK, NEW os \in SUBSET Orders, NEW from, NEW to, Transition(os, from, to),
         \A x \in os : /\ status[x] # "absent"
                       /\ from[x] \in Statuses /\ to[x] \in Statuses
                       /\ to[x] \in Downstream => to[x] \in Transitions[status[x]],
         NEW o \in Orders
  PROVE  RowKept(o) \/ RowMoved(o)
<1>1. CASE o \in os
  <2>1. /\ status'[o] = to[o]
        /\ history'[o] = Append(history[o], [from |-> from[o], to |-> to[o]])
    BY <1>1 DEF Transition
  <2>2. status[o] \in Statuses
    BY <1>1 DEF TypeOK, OrderTypeOK
  <2> QED BY <1>1, <2>1, <2>2 DEF RowMoved
<1>2. CASE o \notin os
  BY <1>2 DEF Transition, RowKept
<1> QED BY <1>1, <1>2

(* The same for a handler that moves the order it has locked.              *)
LEMMA TransitionOneMoves ==
  ASSUME TypeOK, NEW p \in Orders, NEW from, NEW to \in Statuses,
         Transition({p}, from, [x \in {p} |-> to]),
         status[p] # "absent", from[p] \in Statuses,
         to \in Downstream => to \in Transitions[status[p]],
         NEW o \in Orders
  PROVE  RowKept(o) \/ RowMoved(o)
<1>1. \A x \in {p} : [y \in {p} |-> to][x] = to
  OBVIOUS
<1>2. {p} \in SUBSET Orders
  OBVIOUS
<1> DEFINE target == [x \in {p} |-> to]
<1>3. \A x \in {p} : /\ status[x] # "absent"
                     /\ from[x] \in Statuses /\ target[x] \in Statuses
                     /\ target[x] \in Downstream => target[x] \in Transitions[status[x]]
  BY <1>1
<1>4. Transition({p}, from, target)
  OBVIOUS
<1> HIDE DEF target
<1> QED BY <1>2, <1>3, <1>4, TransitionMoves

(* The locked row of a waiting handler exists.                             *)
LEMMA WaitingRow ==
  ASSUME IInv, NEW w \in Workers, worker[w].pc \in Waiting
  PROVE  /\ worker[w].order \in Orders /\ worker[w].call \in Calls
         /\ status[worker[w].order] # "absent"
<1>1. worker[w].order \in Orders /\ lock[worker[w].order] = w /\ worker[w].call \in Calls
  BY WaitingFacts
<1> QED BY <1>1, NullAssumption DEF IInv, RowsLocked

LEMMA RowStep ==
  ASSUME IInv, [Next]_vars, NEW o \in Orders
  PROVE  RowKept(o) \/ RowInserted(o) \/ RowMoved(o)
<1> USE DEF IInv
<1>1. ASSUME UNCHANGED orderVars PROVE RowKept(o)
  BY <1>1 DEF orderVars, RowKept
<1>2. CASE Checkout
  <2>1. ASSUME NEW w \in Workers, CheckoutInsert(w)
        PROVE  RowKept(o) \/ RowInserted(o)
    BY <2>1 DEF CheckoutInsert, RowKept, RowInserted, TypeOK, OrderTypeOK
  <2>2. ASSUME NEW w \in Workers, ReserveOk(w) \/ ReserveRefused(w)
        PROVE  RowKept(o) \/ RowMoved(o)
    <3> DEFINE p == worker[w].order
    <3>1. /\ p \in Orders /\ status[p] # "absent"
      BY <2>2, WaitingRow DEF ReserveOk, ReserveRefused, Answered, Waiting
    <3>2. \E to \in {"pending_payment", "checkout_failed"} :
             Transition({p}, [x \in {p} |-> "reserving_inventory"], [x \in {p} |-> to])
      BY <2>2 DEF ReserveOk, ReserveRefused
    <3>3. [x \in {p} |-> "reserving_inventory"][p] \in Statuses
      BY DEF Statuses
    <3>4. \A to \in {"pending_payment", "checkout_failed"} : to \in Statuses \ Downstream
      BY DEF Statuses, Downstream
    <3> QED BY <3>1, <3>2, <3>3, <3>4, TransitionOneMoves
  <2>3. ASSUME NEW w \in Workers, ClearCart(w)
        PROVE  RowKept(o)
    BY <2>3 DEF ClearCart, RowKept
  <2> QED BY <1>1, <1>2, <2>1, <2>2, <2>3
          DEF Checkout, CheckoutMiss, CheckoutResume, CheckoutReplay, CheckoutCollide,
              CheckoutRelock, CheckoutReread
<1>3. CASE Manage
  <2>1. ASSUME NEW w \in Workers, CancelCommit(w)
        PROVE  RowKept(o) \/ RowMoved(o)
    <3> DEFINE p == worker[w].order
    <3>1. worker[w].pc = "cancelling" /\ Transition({p}, status, [x \in {p} |-> "cancelled"])
      BY <2>1 DEF CancelCommit, Answered
    <3>2. p \in Orders /\ status[p] \in {"pending_payment", "confirmed"}
      BY <3>1, WaitingRow DEF Waiting, RowsLocked
    <3>3. "cancelled" \in Transitions[status[p]]
      BY <3>2 DEF Transitions, Statuses
    <3>4. status[p] \in Statuses /\ "cancelled" \in Statuses /\ status[p] # "absent"
      BY <3>2 DEF Statuses
    <3> QED BY <3>1, <3>2, <3>3, <3>4, TransitionOneMoves
  <2>2. ASSUME NEW p \in Orders, NEW to \in AdminTargets, AdminTransition(p, to)
        PROVE  RowKept(o) \/ RowMoved(o)
    <3>1. /\ Transition({p}, status, [x \in {p} |-> to])
          /\ status[p] \in Statuses /\ to \in Transitions[status[p]]
      BY <2>2 DEF AdminTransition
    <3>2. status[p] # "absent" /\ to \in Statuses
      BY <3>1 DEF Statuses, Transitions
    <3> QED BY <3>1, <3>2, TransitionOneMoves
  <2> QED BY <1>1, <1>3, <2>1, <2>2 DEF Manage, CustomerCancel, AdminCancel
<1>4. CASE Expire
  <2>1. ASSUME NEW w \in Workers, ExpireCommit(w)
        PROVE  RowKept(o) \/ RowMoved(o)
    <3> DEFINE os == LockedBy(w)
               to == [x \in os |-> IF status[x] = "reserving_inventory"
                                   THEN "checkout_failed" ELSE "cancelled"]
    <3>1. worker[w].pc = "expiring" /\ Transition(os, status, to)
      BY <2>1 DEF ExpireCommit, Answered
    <3>2. os \in SUBSET Orders
      BY DEF LockedBy
    <3>3. ASSUME NEW x \in os
          PROVE  /\ status[x] # "absent" /\ status[x] \in Statuses /\ to[x] \in Statuses
                 /\ to[x] \in Downstream => to[x] \in Transitions[status[x]]
      <4>1. status[x] \in {"reserving_inventory", "pending_payment"}
        BY <3>1 DEF RowsLocked, ActiveReservationStatuses
      <4> QED BY <4>1 DEF Statuses, Downstream, Transitions
    <3> HIDE DEF os, to
    <3> QED BY <3>1, <3>2, <3>3, TransitionMoves
  <2> QED BY <1>1, <1>4, <2>1 DEF Expire, ExpireBegin, ExpireNext
<1>5. CASE Environment \/ Product \/ UNCHANGED vars
  BY <1>5 DEF Environment, Abort, OrphanEnds, DeadlinePasses, Product, ProductServes,
              orderVars, vars, RowKept
<1> QED BY <1>2, <1>3, <1>4, <1>5 DEF Next

(* Only a handler that commits its reserved order begins to clear a cart.  *)
LEMMA NobodyStartsClearing ==
  ASSUME TypeOK, [Next]_vars, ~\E w \in Workers : ReserveOk(w)
  PROVE  \A x \in Workers : worker'[x].pc = "clearing" => worker'[x] = worker[x]
<1> DEFINE Goal == \A x \in Workers : worker'[x].pc = "clearing" => worker'[x] = worker[x]
<1>1. ASSUME NEW w \in Workers, worker'[w].pc # "clearing",
             \A x \in Workers \ {w} : worker'[x] = worker[x]
      PROVE  Goal
  BY <1>1
<1>2. ASSUME NEW w \in Workers, NEW os, NEW o, NEW pc \in Waiting, NEW c, NEW op,
             LockAndCall(w, os, o, pc, c, op)
      PROVE  Goal
  <2>1. /\ worker'[w].pc = pc
        /\ \A x \in Workers \ {w} : worker'[x] = worker[x]
    BY <1>2 DEF LockAndCall, TypeOK, OrderTypeOK
  <2> QED BY <1>1, <1>2, <2>1 DEF Waiting
<1>3. ASSUME NEW w \in Workers, Finish(w) PROVE Goal
  <2>1. /\ worker'[w].pc = "idle"
        /\ \A x \in Workers \ {w} : worker'[x] = worker[x]
    BY <1>3 DEF Finish, IdleWorker, TypeOK, OrderTypeOK
  <2> QED BY <1>1, <2>1
<1>4. ASSUME NEW w \in Workers, NEW o \in Orders,
             CheckoutMiss(w, o) \/ CheckoutInsert(w) \/ CheckoutCollide(w) \/ ExpireNext(w, o)
      PROVE  Goal
  <2>1. /\ worker'[w].pc \in {"cart", "inserted", "collided", "expiring"}
        /\ \A x \in Workers \ {w} : worker'[x] = worker[x]
    BY <1>4 DEF CheckoutMiss, CheckoutInsert, CheckoutCollide, ExpireNext, Answered,
                TypeOK, OrderTypeOK, WorkerType
  <2> QED BY <1>1, <2>1
<1>5. ASSUME UNCHANGED worker PROVE Goal
  BY <1>5
<1> SUFFICES Goal
  OBVIOUS
<1> HIDE DEF Goal
<1>6. "reserving" \in Waiting /\ "cancelling" \in Waiting /\ "expiring" \in Waiting
  BY DEF Waiting
<1>7. CASE Checkout
  <2>1. ASSUME NEW w \in Workers, CheckoutInsert(w) \/ CheckoutCollide(w)
        PROVE  Goal
    <3>1. worker[w].order \in Orders
      BY <2>1 DEF CheckoutInsert, CheckoutCollide, TypeOK, OrderTypeOK
    <3> QED BY <1>4, <2>1, <3>1
  <2> QED BY <1>7, <1>2, <1>3, <1>4, <1>5, <1>6, <2>1
          DEF Checkout, CheckoutResume, CheckoutReplay, CheckoutRelock, CheckoutReread,
              ReserveRefused, ClearCart, handlerVars
<1>8. CASE Manage
  BY <1>8, <1>2, <1>3, <1>5, <1>6
     DEF Manage, CustomerCancel, AdminCancel, CancelCommit, AdminTransition, handlerVars
<1>9. CASE Expire
  BY <1>9, <1>2, <1>3, <1>4, <1>6 DEF Expire, ExpireBegin, ExpireCommit
<1>10. CASE Environment \/ Product \/ UNCHANGED vars
  <2>1. UNCHANGED worker \/ \E w \in Workers : Abort(w)
    BY <1>10 DEF Environment, OrphanEnds, DeadlinePasses, Product, ProductServes,
                handlerVars, vars
  <2> QED BY <1>3, <1>5, <2>1 DEF Abort
<1> QED BY <1>7, <1>8, <1>9, <1>10 DEF Next

-----------------------------------------------------------------------------
(* Theorems                                                                *)

(* Fulfilment and cancellation are entered only along TRANSITIONS.         *)
THEOREM EntriesAreTransitions == Spec => EntryAlongTransitions
<1>1. ASSUME IInv, [Next]_vars, NEW o \in Orders,
             status'[o] # status[o], status'[o] \in Downstream
      PROVE  status[o] \in Statuses /\ status'[o] \in Transitions[status[o]]
  <2>1. RowMoved(o)
    BY <1>1, RowStep DEF RowKept, RowInserted, Downstream
  <2> QED BY <1>1, <2>1 DEF RowMoved
<1>2. IInv /\ [Next]_vars =>
         [\A o \in Orders :
             status'[o] # status[o] /\ status'[o] \in Downstream =>
                status[o] \in Statuses /\ status'[o] \in Transitions[status[o]]]_vars
  BY <1>1
<1> QED BY <1>2, Inductive, PTL DEF Spec, EntryAlongTransitions

(* The audit trail and the row never disagree.                             *)
THEOREM HistoriesEndInStatus == Spec => []HistoryEndsInStatus
<1>1. Init => HistoryEndsInStatus
  BY DEF Init, HistoryEndsInStatus
<1>2. ASSUME IInv, HistoryEndsInStatus, [Next]_vars
      PROVE  HistoryEndsInStatus'
  <2> SUFFICES ASSUME NEW o \in Orders
               PROVE  IF status'[o] = "absent"
                      THEN history'[o] = <<>>
                      ELSE /\ history'[o] # <<>>
                           /\ history'[o][1] = [from |-> "absent", to |-> "reserving_inventory"]
                           /\ history'[o][Len(history'[o])].to = status'[o]
    BY DEF HistoryEndsInStatus
  <2>1. CASE RowKept(o)
    BY <1>2, <2>1 DEF RowKept, HistoryEndsInStatus
  <2>2. CASE RowInserted(o)
    BY <2>2 DEF RowInserted
  <2>3. CASE RowMoved(o)
    <3>1. /\ history[o] \in Seq(HistoryEntry) /\ history[o] # <<>>
          /\ history[o][1] = [from |-> "absent", to |-> "reserving_inventory"]
      BY <1>2, <2>3 DEF RowMoved, HistoryEndsInStatus, IInv, TypeOK, OrderTypeOK
    <3>2. PICK entry \in HistoryEntry :
             history'[o] = Append(history[o], entry) /\ entry.to = status'[o]
      BY <2>3 DEF RowMoved, HistoryEntry
    <3>3. status'[o] # "absent"
      BY <2>3 DEF RowMoved, Statuses
    <3> QED BY <3>1, <3>2, <3>3
  <2> QED BY <1>2, <2>1, <2>2, <2>3, RowStep
<1> QED BY <1>1, <1>2, Inductive, PTL DEF Spec

(* A cart is emptied only for an order that had its stock and got as far   *)
(* as payment.                                                             *)
THEOREM ClearedOrdersAreReserved == Spec => []ClearedOrdersReserved
<1>1. Init => ClearedOrdersReserved
  BY DEF Init, ClearedOrdersReserved, Clearing, IdleWorker
<1>2. ASSUME IInv, HistoryEndsInStatus, ClearedOrdersReserved, [Next]_vars
      PROVE  ClearedOrdersReserved'
  <2> DEFINE Paid(h) == \E i \in DOMAIN h : h[i].to = "pending_payment"
  <2>1. \A o \in Orders : reservation[o] # "none" => reservation'[o] # "none"
    BY <1>2, StepImplementsInventory, ReservationForward DEF IInv, TypeOK
  <2>2. ASSUME NEW o \in Orders, Paid(history[o]) PROVE Paid(history'[o])
    <3>1. history[o] \in Seq(HistoryEntry)
      BY <1>2 DEF IInv, TypeOK, OrderTypeOK
    <3>2. history[o] # <<>>
      BY <2>2
    <3>3. CASE RowKept(o)
      BY <2>2, <3>3 DEF RowKept
    <3>4. CASE RowInserted(o)
      BY <1>2, <3>2, <3>4 DEF RowInserted, HistoryEndsInStatus
    <3>5. CASE RowMoved(o)
      <4>1. PICK entry \in HistoryEntry : history'[o] = Append(history[o], entry)
        BY <3>5 DEF RowMoved, HistoryEntry
      <4> QED BY <2>2, <3>1, <4>1
    <3> QED BY <1>2, <3>3, <3>4, <3>5, RowStep
  <2>3. ASSUME NEW w \in Workers, ReserveOk(w)
        PROVE  \A o \in (cleared \cup Clearing)' \ (cleared \cup Clearing) :
                  /\ o \in Orders /\ reservation[o] # "none"
                  /\ Paid(history'[o])
    <3> DEFINE p == worker[w].order
    <3>1. /\ p \in Orders /\ worker[w].call \in Calls
          /\ call[worker[w].call].order = p /\ call[worker[w].call].op = "reserve"
          /\ call[worker[w].call].pc = "ok"
      BY <1>2, <2>3, WaitingFacts DEF ReserveOk, Answered, Waiting, IInv, CallsOwned
    <3>2. reservation[p] # "none"
      BY <1>2, <3>1 DEF IInv, AnswersHold
    <3>3. history[p] \in Seq(HistoryEntry)
      BY <1>2, <3>1 DEF IInv, TypeOK, OrderTypeOK
    <3>4. history'[p] = Append(history[p],
                               [from |-> "reserving_inventory", to |-> "pending_payment"])
      BY <2>3, <3>1 DEF ReserveOk, Transition
    <3>5. [from |-> "reserving_inventory", to |-> "pending_payment"] \in HistoryEntry
      BY DEF HistoryEntry, Statuses
    <3>6. Paid(history'[p])
      <4>1. /\ Len(history[p]) + 1 \in DOMAIN history'[p]
            /\ history'[p][Len(history[p]) + 1] =
                  [from |-> "reserving_inventory", to |-> "pending_payment"]
        BY <3>3, <3>4, <3>5
      <4> QED BY <4>1
    <3>7. cleared' = cleared /\ \A x \in Workers \ {w} : worker'[x] = worker[x]
      BY <1>2, <2>3 DEF ReserveOk, IInv, TypeOK, OrderTypeOK
    <3>8. worker'[w].order = p
      BY <1>2, <2>3 DEF ReserveOk, IdleWorker, IInv, TypeOK, OrderTypeOK
    <3>9. (cleared \cup Clearing)' \ (cleared \cup Clearing) \subseteq {p}
      BY <3>7, <3>8 DEF Clearing
    <3> QED BY <3>1, <3>2, <3>6, <3>9
  <2>4. ASSUME NEW w \in Workers, ClearCart(w)
        PROVE  (cleared \cup Clearing)' \subseteq cleared \cup Clearing
    <3>1. \A x \in Workers : worker'[x].pc = "clearing" => worker'[x] = worker[x]
      BY <1>2, <2>4 DEF ClearCart, Finish, IdleWorker, IInv, TypeOK, OrderTypeOK
    <3>2. worker[w].order \in Orders
      BY <1>2, <2>4 DEF ClearCart, IInv, TypeOK, OrderTypeOK
    <3>3. worker[w].order \in Clearing
      BY <2>4, <3>2 DEF ClearCart, Clearing
    <3>4. Clearing' \subseteq Clearing
      BY <3>1 DEF Clearing
    <3> QED BY <2>4, <3>3, <3>4 DEF ClearCart
  <2>5. ASSUME ~\E w \in Workers : ReserveOk(w) \/ ClearCart(w)
        PROVE  (cleared \cup Clearing)' \subseteq cleared \cup Clearing
    <3>1. cleared' = cleared
      BY <1>2, <2>5 DEF Next, Checkout, Manage, Expire, Environment, Product,
           CheckoutMiss, CheckoutResume, CheckoutReplay, CheckoutInsert, CheckoutCollide,
           CheckoutRelock, CheckoutReread, ReserveRefused, CustomerCancel, AdminCancel,
           CancelCommit, AdminTransition, ExpireBegin, ExpireNext, ExpireCommit,
           Abort, OrphanEnds, DeadlinePasses, ProductServes, orderVars, vars
    <3>2. Clearing' \subseteq Clearing
      BY <1>2, <2>5, NobodyStartsClearing DEF Clearing, IInv
    <3> QED BY <3>1, <3>2
  <2>6. cleared \cup Clearing \subseteq Orders
    BY <1>2 DEF IInv, TypeOK, OrderTypeOK, Clearing
  <2>7. ASSUME NEW o \in (cleared \cup Clearing)'
        PROVE  reservation'[o] # "none" /\ Paid(history'[o])
    <3>1. CASE o \in cleared \cup Clearing
      BY <1>2, <2>1, <2>2, <2>6, <3>1 DEF ClearedOrdersReserved
    <3>2. CASE o \notin cleared \cup Clearing
      BY <2>1, <2>3, <2>4, <2>5, <2>7, <3>2
    <3> QED BY <3>1, <3>2
  <2> QED BY <2>7 DEF ClearedOrdersReserved
<1> QED BY <1>1, <1>2, Inductive, HistoriesEndInStatus, PTL DEF Spec
=============================================================================
