---------------------------- MODULE OrderProofs -----------------------------
(* Proofs about OrderService, for all orders, handlers, calls and stocks.  *)
EXTENDS OrderService, InventoryProofs

-----------------------------------------------------------------------------
(* Types                                                                   *)

(* A commit of _transition_order keeps the rows well typed.                *)
LEMMA TransitionTyped ==
  ASSUME OrderTypeOK, NEW os \in SUBSET Orders, NEW from, NEW to,
         \A o \in os : from[o] \in Statuses \cup {"absent"} /\ to[o] \in Statuses,
         Transition(os, from, to)
  PROVE  /\ status' \in [Orders -> Statuses \cup {"absent"}]
         /\ deadline' \in [Orders -> {"none", "ahead", "passed"}]
         /\ history' \in [Orders -> Seq(HistoryEntry)]
<1>1. status' \in [Orders -> Statuses \cup {"absent"}]
  BY DEF OrderTypeOK, Transition
<1>2. deadline' \in [Orders -> {"none", "ahead", "passed"}]
  BY DEF OrderTypeOK, Transition
<1>3. ASSUME NEW o \in os
      PROVE  Append(history[o], [from |-> from[o], to |-> to[o]]) \in Seq(HistoryEntry)
  <2>1. [from |-> from[o], to |-> to[o]] \in HistoryEntry
    BY DEF HistoryEntry
  <2>2. history[o] \in Seq(HistoryEntry)
    BY DEF OrderTypeOK
  <2> QED BY <2>1, <2>2
<1>4. history' \in [Orders -> Seq(HistoryEntry)]
  BY <1>3 DEF OrderTypeOK, Transition
<1> QED BY <1>1, <1>2, <1>4

(* The same for the transition of one order.                               *)
LEMMA TransitionOneTyped ==
  ASSUME OrderTypeOK, NEW o \in Orders, NEW from, NEW to \in Statuses,
         from[o] \in Statuses \cup {"absent"},
         Transition({o}, from, [x \in {o} |-> to])
  PROVE  /\ status' \in [Orders -> Statuses \cup {"absent"}]
         /\ deadline' \in [Orders -> {"none", "ahead", "passed"}]
         /\ history' \in [Orders -> Seq(HistoryEntry)]
<1> DEFINE f == [x \in {o} |-> to]
<1>1. \A x \in {o} : from[x] \in Statuses \cup {"absent"} /\ f[x] \in Statuses
  OBVIOUS
<1>2. Transition({o}, from, f)
  OBVIOUS
<1>3. {o} \in SUBSET Orders
  OBVIOUS
<1> HIDE DEF f
<1> QED BY <1>1, <1>2, <1>3, TransitionTyped

(* A handler that goes on to a well-typed state.                           *)
LEMMA HandlerTyped ==
  ASSUME OrderTypeOK, NEW w \in Workers, NEW new \in WorkerType,
         new.pc # "idle" => new.order \in Orders,
         new.pc \in Waiting <=> new.call \in Calls,
         worker' = [worker EXCEPT ![w] = new]
  PROVE  /\ worker' \in [Workers -> WorkerType]
         /\ \A x \in Workers :
               /\ worker'[x].pc # "idle" => worker'[x].order \in Orders
               /\ worker'[x].pc \in Waiting <=> worker'[x].call \in Calls
BY DEF OrderTypeOK

(* Ending a transaction keeps the locks well typed.                        *)
LEMMA UnlockTyped ==
  ASSUME OrderTypeOK, NEW w \in Workers, Unlock(w)
  PROVE  lock' \in [Orders -> Workers \cup {NoWorker}]
BY DEF OrderTypeOK, Unlock

(* Ending a handler keeps the locks and handlers well typed.               *)
LEMMA FinishTyped ==
  ASSUME OrderTypeOK, NEW w \in Workers, Finish(w)
  PROVE  /\ lock' \in [Orders -> Workers \cup {NoWorker}]
         /\ worker' \in [Workers -> WorkerType]
         /\ \A x \in Workers :
               /\ worker'[x].pc # "idle" => worker'[x].order \in Orders
               /\ worker'[x].pc \in Waiting <=> worker'[x].call \in Calls
<1>1. worker' \in [Workers -> WorkerType]
  BY DEF OrderTypeOK, Finish, IdleWorker, WorkerType
<1>2. lock' \in [Orders -> Workers \cup {NoWorker}]
  BY UnlockTyped DEF Finish
<1>3. ASSUME NEW x \in Workers
      PROVE  /\ worker'[x].pc # "idle" => worker'[x].order \in Orders
             /\ worker'[x].pc \in Waiting <=> worker'[x].call \in Calls
  <2>1. CASE x = w
    BY <2>1, NullAssumption DEF OrderTypeOK, Finish, IdleWorker, Waiting
  <2>2. CASE x # w
    BY <2>2 DEF OrderTypeOK, Finish
  <2> QED BY <2>1, <2>2
<1> QED BY <1>1, <1>2, <1>3

(* So does locking rows and calling product-service.                       *)
LEMMA LockAndCallTyped ==
  ASSUME OrderTypeOK, NEW w \in Workers, NEW os \in SUBSET Orders, NEW o \in Orders,
         NEW pc \in Waiting, NEW c \in Calls, NEW op, LockAndCall(w, os, o, pc, c, op)
  PROVE  /\ lock' \in [Orders -> Workers \cup {NoWorker}]
         /\ worker' \in [Workers -> WorkerType]
         /\ \A x \in Workers :
               /\ worker'[x].pc # "idle" => worker'[x].order \in Orders
               /\ worker'[x].pc \in Waiting <=> worker'[x].call \in Calls
<1>1. lock' \in [Orders -> Workers \cup {NoWorker}]
  BY DEF OrderTypeOK, LockAndCall
<1> DEFINE new == [pc |-> pc, order |-> o, call |-> c,
                   todo |-> IF pc = "expiring" THEN os ELSE {}]
<1>2. new \in WorkerType /\ new.order = o /\ new.pc = pc /\ new.call = c
  BY DEF WorkerType, Waiting
<1>3. worker' = [worker EXCEPT ![w] = new]
  BY DEF LockAndCall
<1> HIDE DEF new
<1>4. worker' \in [Workers -> WorkerType]
  BY <1>2, <1>3 DEF OrderTypeOK
<1>5. ASSUME NEW x \in Workers
      PROVE  /\ worker'[x].pc # "idle" => worker'[x].order \in Orders
             /\ worker'[x].pc \in Waiting <=> worker'[x].call \in Calls
  BY <1>2, <1>3 DEF OrderTypeOK
<1> QED BY <1>1, <1>4, <1>5

(* The rows an action leaves alone keep their types.                       *)
LEMMA RowsTyped ==
  ASSUME OrderTypeOK, UNCHANGED orderVars,
         /\ lock' \in [Orders -> Workers \cup {NoWorker}]
         /\ worker' \in [Workers -> WorkerType]
         /\ \A x \in Workers :
               /\ worker'[x].pc # "idle" => worker'[x].order \in Orders
               /\ worker'[x].pc \in Waiting <=> worker'[x].call \in Calls
  PROVE  OrderTypeOK'
BY DEF OrderTypeOK, orderVars

(* Every step keeps the types of the rows, the locks and the handlers.     *)
LEMMA OrderStepTyped ==
  ASSUME TypeOK, [Next]_vars
  PROVE  OrderTypeOK'
<1> USE DEF TypeOK
<1>1. CASE Checkout
  <2>1. ASSUME NEW w \in Workers, NEW o \in Orders, CheckoutMiss(w, o)
        PROVE  OrderTypeOK'
    <3> DEFINE new == [worker[w] EXCEPT !.pc = "cart", !.order = o]
    <3>1. worker[w] \in WorkerType /\ worker[w].call \notin Calls
      BY <2>1 DEF CheckoutMiss, OrderTypeOK, Waiting
    <3>2. new \in WorkerType /\ new.pc = "cart" /\ new.order = o /\ new.call \notin Calls
      BY <3>1 DEF WorkerType
    <3>3. worker' = [worker EXCEPT ![w] = new]
      BY <2>1 DEF CheckoutMiss
    <3> HIDE DEF new
    <3>4. lock' \in [Orders -> Workers \cup {NoWorker}] /\ UNCHANGED orderVars
      BY <2>1 DEF CheckoutMiss, OrderTypeOK
    <3> QED BY <3>2, <3>3, <3>4, HandlerTyped, RowsTyped DEF Waiting
  <2>2. ASSUME NEW w \in Workers, NEW o \in Orders, NEW c \in Calls,
               CheckoutResume(w, o, c)
        PROVE  OrderTypeOK'
    BY <2>2, LockAndCallTyped, RowsTyped DEF CheckoutResume, Waiting
  <2>3. ASSUME NEW o \in Orders, CheckoutReplay(o)
        PROVE  OrderTypeOK'
    BY <2>3 DEF CheckoutReplay, OrderTypeOK, orderVars, handlerVars
  <2>4. ASSUME NEW w \in Workers, CheckoutInsert(w)
        PROVE  OrderTypeOK'
    <3> DEFINE o == worker[w].order
               e == [from |-> "absent", to |-> "reserving_inventory"]
    <3>1. o \in Orders /\ e \in HistoryEntry
      BY <2>4 DEF CheckoutInsert, OrderTypeOK, HistoryEntry, Statuses
    <3>2. <<e>> \in Seq(HistoryEntry)
      BY <3>1
    <3>3. history' \in [Orders -> Seq(HistoryEntry)]
      BY <2>4, <3>2 DEF CheckoutInsert, OrderTypeOK
    <3>4. /\ status' \in [Orders -> Statuses \cup {"absent"}]
          /\ deadline' \in [Orders -> {"none", "ahead", "passed"}]
      BY <2>4 DEF CheckoutInsert, OrderTypeOK, Statuses
    <3> DEFINE new == [worker[w] EXCEPT !.pc = "inserted"]
    <3>5. worker[w] \in WorkerType /\ worker[w].call \notin Calls
      BY <2>4 DEF CheckoutInsert, OrderTypeOK, Waiting
    <3>6. new \in WorkerType /\ new.pc = "inserted" /\ new.order = o /\ new.call \notin Calls
      BY <3>5 DEF WorkerType
    <3>7. worker' = [worker EXCEPT ![w] = new]
      BY <2>4 DEF CheckoutInsert
    <3> HIDE DEF new
    <3>8. /\ worker' \in [Workers -> WorkerType]
          /\ \A x \in Workers :
                /\ worker'[x].pc # "idle" => worker'[x].order \in Orders
                /\ worker'[x].pc \in Waiting <=> worker'[x].call \in Calls
      BY <3>1, <3>6, <3>7, HandlerTyped DEF Waiting
    <3> QED BY <2>4, <3>3, <3>4, <3>8 DEF CheckoutInsert, OrderTypeOK
  <2>5. ASSUME NEW w \in Workers, CheckoutCollide(w)
        PROVE  OrderTypeOK'
    BY <2>5 DEF CheckoutCollide, OrderTypeOK, orderVars, WorkerType, Waiting
  <2>6. ASSUME NEW w \in Workers, NEW c \in Calls, CheckoutRelock(w, c)
        PROVE  OrderTypeOK'
    <3>1. worker[w].order \in Orders
      BY <2>6 DEF CheckoutRelock, OrderTypeOK
    <3> QED BY <2>6, <3>1, LockAndCallTyped, RowsTyped DEF CheckoutRelock, Waiting
  <2>7. ASSUME NEW w \in Workers, NEW c \in Calls, CheckoutReread(w, c)
        PROVE  OrderTypeOK'
    <3>1. worker[w].order \in Orders
      BY <2>7 DEF CheckoutReread, OrderTypeOK
    <3> QED BY <2>7, <3>1, LockAndCallTyped, FinishTyped, RowsTyped
            DEF CheckoutReread, Waiting
  <2>8. ASSUME NEW w \in Workers, ReserveOk(w) \/ ReserveRefused(w)
        PROVE  OrderTypeOK'
    <3> DEFINE o == worker[w].order
    <3>1. o \in Orders
      BY <2>8 DEF ReserveOk, ReserveRefused, Answered, OrderTypeOK
    <3>2. cleared' \subseteq Orders
      BY <2>8, <3>1 DEF ReserveOk, ReserveRefused, OrderTypeOK
    <3>3. PICK to \in {"pending_payment", "checkout_failed"} :
             Transition({o}, [x \in {o} |-> "reserving_inventory"], [x \in {o} |-> to])
      BY <2>8 DEF ReserveOk, ReserveRefused
    <3>4. /\ status' \in [Orders -> Statuses \cup {"absent"}]
          /\ deadline' \in [Orders -> {"none", "ahead", "passed"}]
          /\ history' \in [Orders -> Seq(HistoryEntry)]
      <4> DEFINE from == [x \in {o} |-> "reserving_inventory"]
      <4>1. to \in Statuses /\ from[o] \in Statuses /\ Transition({o}, from, [x \in {o} |-> to])
        BY <3>3 DEF Statuses
      <4> HIDE DEF from
      <4> QED BY <3>1, <4>1, TransitionOneTyped
    <3>5. CASE ReserveRefused(w)
      <4>1. Finish(w)
        BY <3>5 DEF ReserveRefused
      <4> QED BY <3>2, <3>4, <4>1, FinishTyped DEF OrderTypeOK
    <3>6. CASE ReserveOk(w)
      <4> DEFINE new == [IdleWorker EXCEPT !.pc = "clearing", !.order = o]
      <4>1. /\ new \in WorkerType /\ new.pc = "clearing"
            /\ new.order = o /\ new.call \notin Calls
        BY <3>1, NullAssumption DEF IdleWorker, WorkerType
      <4>2. worker' = [worker EXCEPT ![w] = new] /\ Unlock(w)
        BY <3>6 DEF ReserveOk
      <4> HIDE DEF new
      <4>3. /\ worker' \in [Workers -> WorkerType]
            /\ \A x \in Workers :
                  /\ worker'[x].pc # "idle" => worker'[x].order \in Orders
                  /\ worker'[x].pc \in Waiting <=> worker'[x].call \in Calls
        BY <3>1, <4>1, <4>2, HandlerTyped DEF Waiting
      <4> QED BY <3>2, <3>4, <4>2, <4>3, UnlockTyped DEF OrderTypeOK
    <3> QED BY <2>8, <3>5, <3>6
  <2>9. ASSUME NEW w \in Workers, ClearCart(w)
        PROVE  OrderTypeOK'
    <3>1. cleared' \subseteq Orders /\ UNCHANGED <<status, deadline, history>>
      BY <2>9 DEF ClearCart, OrderTypeOK
    <3> QED BY <2>9, <3>1, FinishTyped DEF ClearCart, OrderTypeOK
  <2> QED BY <1>1, <2>1, <2>2, <2>3, <2>4, <2>5, <2>6, <2>7, <2>8, <2>9 DEF Checkout
<1>2. CASE Manage
  <2>1. ASSUME NEW w \in Workers, NEW o \in Orders, NEW c \in Calls,
               CustomerCancel(w, o, c) \/ AdminCancel(w, o, c)
        PROVE  OrderTypeOK'
    BY <2>1, LockAndCallTyped, RowsTyped DEF CustomerCancel, AdminCancel, Waiting
  <2>2. ASSUME NEW w \in Workers, CancelCommit(w)
        PROVE  OrderTypeOK'
    <3> DEFINE o == worker[w].order
    <3>1. o \in Orders
      BY <2>2 DEF CancelCommit, Answered, OrderTypeOK
    <3>2. /\ status' \in [Orders -> Statuses \cup {"absent"}]
          /\ deadline' \in [Orders -> {"none", "ahead", "passed"}]
          /\ history' \in [Orders -> Seq(HistoryEntry)]
      <4>1. status[o] \in Statuses \cup {"absent"} /\ "cancelled" \in Statuses
        BY <3>1 DEF OrderTypeOK, Statuses
      <4>2. Transition({o}, status, [x \in {o} |-> "cancelled"])
        BY <2>2 DEF CancelCommit
      <4> QED BY <3>1, <4>1, <4>2, TransitionOneTyped
    <3> QED BY <2>2, <3>2, FinishTyped DEF CancelCommit, OrderTypeOK
  <2>3. ASSUME NEW o \in Orders, NEW to \in AdminTargets, AdminTransition(o, to)
        PROVE  OrderTypeOK'
    <3>1. to \in Statuses
      BY <2>3 DEF AdminTransition, Transitions, Statuses
    <3>2. /\ status' \in [Orders -> Statuses \cup {"absent"}]
          /\ deadline' \in [Orders -> {"none", "ahead", "passed"}]
          /\ history' \in [Orders -> Seq(HistoryEntry)]
      <4>1. Transition({o}, status, [x \in {o} |-> to]) /\ status[o] \in Statuses
        BY <2>3 DEF AdminTransition
      <4> QED BY <3>1, <4>1, TransitionOneTyped
    <3> QED BY <2>3, <3>2 DEF AdminTransition, handlerVars, OrderTypeOK
  <2> QED BY <1>2, <2>1, <2>2, <2>3 DEF Manage
<1>3. CASE Expire
  <2>1. ASSUME NEW w \in Workers, NEW batch \in SUBSET Orders, NEW o \in Orders,
               NEW c \in Calls, ExpireBegin(w, batch, o, c)
        PROVE  OrderTypeOK'
    BY <2>1, LockAndCallTyped, RowsTyped DEF ExpireBegin, Waiting
  <2>2. ASSUME NEW w \in Workers, NEW o \in Orders, ExpireNext(w, o)
        PROVE  OrderTypeOK'
    <3> DEFINE new == [worker[w] EXCEPT !.order = o,
                                        !.todo = worker[w].todo \ {worker[w].order}]
    <3>1. worker[w] \in WorkerType /\ worker[w].pc = "expiring" /\ worker[w].call \in Calls
      BY <2>2 DEF ExpireNext, Answered, OrderTypeOK, Waiting
    <3>2. new \in WorkerType /\ new.pc = "expiring" /\ new.order = o /\ new.call \in Calls
      BY <3>1 DEF WorkerType
    <3>3. worker' = [worker EXCEPT ![w] = new]
      BY <2>2 DEF ExpireNext
    <3> HIDE DEF new
    <3>4. lock' \in [Orders -> Workers \cup {NoWorker}] /\ UNCHANGED orderVars
      BY <2>2 DEF ExpireNext, OrderTypeOK
    <3> QED BY <3>2, <3>3, <3>4, HandlerTyped, RowsTyped DEF Waiting
  <2>3. ASSUME NEW w \in Workers, ExpireCommit(w)
        PROVE  OrderTypeOK'
    <3> DEFINE to == [o \in LockedBy(w) |-> IF status[o] = "reserving_inventory"
                                            THEN "checkout_failed" ELSE "cancelled"]
    <3>1. \A o \in LockedBy(w) : status[o] \in Statuses \cup {"absent"} /\ to[o] \in Statuses
      BY DEF OrderTypeOK, LockedBy, Statuses
    <3>2. LockedBy(w) \in SUBSET Orders
      BY DEF LockedBy
    <3>3. Transition(LockedBy(w), status, to)
      BY <2>3 DEF ExpireCommit
    <3>4. /\ status' \in [Orders -> Statuses \cup {"absent"}]
          /\ deadline' \in [Orders -> {"none", "ahead", "passed"}]
          /\ history' \in [Orders -> Seq(HistoryEntry)]
      BY <3>1, <3>2, <3>3, TransitionTyped
    <3> QED BY <2>3, <3>4, FinishTyped DEF ExpireCommit, OrderTypeOK
  <2> QED BY <1>3, <2>1, <2>2, <2>3 DEF Expire
<1>4. CASE Environment
  <2>1. ASSUME NEW w \in Workers, Abort(w)
        PROVE  OrderTypeOK'
    BY <2>1, FinishTyped, RowsTyped DEF Abort
  <2>2. ASSUME NEW c \in Calls, OrphanEnds(c)
        PROVE  OrderTypeOK'
    BY <2>2 DEF OrphanEnds, OrderTypeOK, orderVars, handlerVars
  <2>3. ASSUME NEW o \in Orders, DeadlinePasses(o)
        PROVE  OrderTypeOK'
    BY <2>3 DEF DeadlinePasses, OrderTypeOK, handlerVars
  <2> QED BY <1>4, <2>1, <2>2, <2>3 DEF Environment
<1>5. CASE Product \/ UNCHANGED vars
  BY <1>5 DEF Product, ProductServes, vars, OrderTypeOK, orderVars, handlerVars
<1> QED BY <1>1, <1>2, <1>3, <1>4, <1>5 DEF Next

-----------------------------------------------------------------------------
(* The order service as a caller of product-service                        *)

(* A request on a free slot is a step a caller of Inventory may take.      *)
LEMMA LockAndCallCalls ==
  ASSUME NEW w, NEW os, NEW o \in Orders, NEW pc, NEW c \in Calls,
         NEW op \in {"reserve", "release"},
         LockAndCall(w, os, o, pc, c, op), UNCHANGED inventoryVars
  PROVE  InventoryNext
BY DEF LockAndCall, InventoryNext, AnyCaller

(* Every step of the composition is a step of product-service, of one of   *)
(* its callers, or none of its business.                                   *)
LEMMA StepImplementsInventory ==
  ASSUME TypeOK, [Next]_vars
  PROVE  [InventoryNext]_invVars
<1> USE DEF TypeOK
<1> DEFINE Quiet == UNCHANGED <<inventoryVars, call>>
<1>1. ASSUME Quiet PROVE [InventoryNext]_invVars
  BY <1>1 DEF inventoryVars, invVars
<1>2. CASE Checkout
  <2>1. ASSUME NEW w \in Workers, NEW o \in Orders, NEW c \in Calls,
               CheckoutResume(w, o, c)
        PROVE  InventoryNext
    BY <2>1, LockAndCallCalls DEF CheckoutResume
  <2>2. ASSUME NEW w \in Workers, NEW c \in Calls, CheckoutRelock(w, c)
        PROVE  InventoryNext
    <3>1. worker[w].order \in Orders
      BY <2>2 DEF CheckoutRelock, OrderTypeOK
    <3> QED BY <2>2, <3>1, LockAndCallCalls DEF CheckoutRelock
  <2>3. ASSUME NEW w \in Workers, NEW c \in Calls, CheckoutReread(w, c)
        PROVE  InventoryNext \/ Quiet
    <3>1. worker[w].order \in Orders
      BY <2>3 DEF CheckoutReread, OrderTypeOK
    <3> QED BY <2>3, <3>1, LockAndCallCalls DEF CheckoutReread
  <2>4. ASSUME NEW w \in Workers, ReserveOk(w) \/ ReserveRefused(w)
        PROVE  InventoryNext
    <3>1. worker[w].call \in Calls
      BY <2>4 DEF ReserveOk, ReserveRefused, Answered, OrderTypeOK, Waiting
    <3> QED BY <2>4, <3>1 DEF ReserveOk, ReserveRefused, InventoryNext, AnyCaller
  <2>5. ASSUME \/ \E w \in Workers, o \in Orders : CheckoutMiss(w, o)
               \/ \E o \in Orders : CheckoutReplay(o)
               \/ \E w \in Workers : CheckoutInsert(w) \/ CheckoutCollide(w)
               \/ \E w \in Workers : ClearCart(w)
        PROVE  Quiet
    BY <2>5 DEF CheckoutMiss, CheckoutReplay, CheckoutInsert, CheckoutCollide, ClearCart
  <2> QED BY <1>1, <1>2, <2>1, <2>2, <2>3, <2>4, <2>5 DEF Checkout
<1>3. CASE Manage
  <2>1. ASSUME NEW w \in Workers, NEW o \in Orders, NEW c \in Calls,
               CustomerCancel(w, o, c) \/ AdminCancel(w, o, c)
        PROVE  InventoryNext
    BY <2>1, LockAndCallCalls DEF CustomerCancel, AdminCancel
  <2>2. ASSUME NEW w \in Workers, CancelCommit(w)
        PROVE  InventoryNext
    <3>1. worker[w].call \in Calls
      BY <2>2 DEF CancelCommit, Answered, OrderTypeOK, Waiting
    <3> QED BY <2>2, <3>1 DEF CancelCommit, InventoryNext, AnyCaller
  <2>3. ASSUME NEW o \in Orders, NEW to \in AdminTargets, AdminTransition(o, to)
        PROVE  Quiet
    BY <2>3 DEF AdminTransition
  <2> QED BY <1>1, <1>3, <2>1, <2>2, <2>3 DEF Manage
<1>4. CASE Expire
  <2>1. ASSUME NEW w \in Workers, NEW batch \in SUBSET Orders, NEW o \in Orders,
               NEW c \in Calls, ExpireBegin(w, batch, o, c)
        PROVE  InventoryNext
    BY <2>1, LockAndCallCalls DEF ExpireBegin
  <2>2. ASSUME NEW w \in Workers, NEW o \in Orders, ExpireNext(w, o)
        PROVE  InventoryNext
    <3>1. worker[w].call \in Calls
      BY <2>2 DEF ExpireNext, Answered, OrderTypeOK, Waiting
    <3> QED BY <2>2, <3>1 DEF ExpireNext, InventoryNext, AnyCaller
  <2>3. ASSUME NEW w \in Workers, ExpireCommit(w)
        PROVE  InventoryNext
    <3>1. worker[w].call \in Calls
      BY <2>3 DEF ExpireCommit, Answered, OrderTypeOK, Waiting
    <3> QED BY <2>3, <3>1 DEF ExpireCommit, InventoryNext, AnyCaller
  <2> QED BY <1>4, <2>1, <2>2, <2>3 DEF Expire
<1>5. CASE Environment
  <2>1. ASSUME NEW c \in Calls, OrphanEnds(c)
        PROVE  InventoryNext
    BY <2>1 DEF OrphanEnds, InventoryNext, AnyCaller
  <2>2. ASSUME \/ \E w \in Workers : Abort(w)
               \/ \E o \in Orders : DeadlinePasses(o)
        PROVE  Quiet
    BY <2>2 DEF Abort, DeadlinePasses
  <2> QED BY <1>1, <1>5, <2>1, <2>2 DEF Environment
<1>6. CASE Product
  BY <1>6 DEF Product, ProductServes, InventoryNext, Serve
<1>7. CASE UNCHANGED vars
  BY <1>7 DEF vars, invVars
<1> QED BY <1>2, <1>3, <1>4, <1>5, <1>6, <1>7 DEF Next

(* The types of the whole composition are an invariant, stock >= 0 with it.*)
LEMMA StepTyped ==
  ASSUME TypeOK, [Next]_vars
  PROVE  TypeOK'
<1>1. InventoryTypeOK'
  BY StepImplementsInventory, InventoryStepTyped DEF TypeOK
<1> QED BY <1>1, OrderStepTyped DEF TypeOK

(* It holds at the start.                                                  *)
LEMMA InitTyped == Init => TypeOK
<1> SUFFICES ASSUME Init PROVE TypeOK
  OBVIOUS
<1>1. InventoryTypeOK
  BY StockAssumption DEF Init, InventoryInit, InventoryTypeOK, Free, CallType
<1>2. OrderTypeOK
  BY NullAssumption DEF Init, OrderTypeOK, IdleWorker, WorkerType, Waiting
<1> QED BY <1>1, <1>2 DEF TypeOK

(* Type correctness of orders, handlers and reservations together.         *)
THEOREM TypeCorrect == Spec => []TypeOK
BY InitTyped, StepTyped, PTL DEF Spec

(* Every behaviour of the composition is one of Inventory, which assumes   *)
(* nothing of its callers: what is proved there carries over.              *)
LEMMA IsInventory == Spec => InventorySpec
<1>1. Init => InventoryInit
  BY DEF Init
<1> QED BY <1>1, TypeCorrect, StepImplementsInventory, PTL
        DEF Spec, InventorySpec

(* In particular the stock of an order is taken at most once and returned  *)
(* at most once whatever its handlers do.                                  *)
THEOREM OrdersImplementLedger == Spec => LedgerSpec
BY IsInventory, InventoryImplementsLedger

(* Nor does any of them lose or make up a unit, as long as no administrator*)
(* writes stock_quantity.                                                  *)
THEOREM OrdersConserveStock == StockLevels = {} /\ Spec => []StockConserved
BY IsInventory, StockIsConserved

-----------------------------------------------------------------------------
(* The inductive invariant                                                 *)

(* Facts about a state of IInv that the proofs below use.                  *)
LEMMA WaitingFacts ==
  ASSUME IInv, NEW w \in Workers, worker[w].pc \in Waiting
  PROVE  /\ worker[w].order \in Orders /\ worker[w].call \in Calls
         /\ lock[worker[w].order] = w
         /\ call[worker[w].call].order = worker[w].order
         /\ \A x \in Workers \ {w} : worker[x].call # worker[w].call
<1>1. worker[w].pc # "idle"
  BY DEF Waiting
<1> QED BY <1>1 DEF IInv, TypeOK, OrderTypeOK, CallsOwned, RowsLocked

(* A transaction that ends: what it leaves to the other handlers.  Only    *)
(* rows it had locked may have changed, and of the calls only its own.     *)
LEMMA UnlockStep ==
  ASSUME IInv, NEW w \in Workers, Unlock(w), UNCHANGED inventoryVars,
         worker'[w].pc \in {"idle", "clearing"}, worker'[w].call = NoCall,
         \A x \in Workers \ {w} : worker'[x] = worker[x],
         \A o \in Orders : /\ lock[o] # w => status'[o] = status[o]
                           /\ status'[o] = "absent" => status[o] = "absent",
         \A c \in Calls : c # worker[w].call => call'[c] = call[c]
  PROVE  CallsOwned' /\ RowsLocked' /\ BatchReleased'
<1> USE DEF IInv
<1>1. /\ worker'[w].pc \in {"idle", "clearing"} /\ worker'[w].call = NoCall
      /\ \A x \in Workers \ {w} : worker'[x] = worker[x]
  OBVIOUS
<1>2. \A o \in Orders : /\ lock[o] = w => lock'[o] = NoWorker
                        /\ lock[o] # w => lock'[o] = lock[o]
  BY DEF Unlock
<1>3. \A x \in Workers : worker'[x].pc \in Waiting \cup {"inserted"} => x # w
  BY <1>1 DEF Waiting
<1>4. \A x \in Workers \ {w} : LockedBy(x)' = LockedBy(x)
  BY <1>2, NullAssumption DEF LockedBy
<1>5. CallsOwned'
  <2> SUFFICES ASSUME NEW x \in Workers, worker'[x].pc \in Waiting
               PROVE  /\ call'[worker'[x].call].order = worker'[x].order
                      /\ call'[worker'[x].call].op =
                            (IF worker'[x].pc = "reserving" THEN "reserve" ELSE "release")
                      /\ call'[worker'[x].call].pc # "free"
                      /\ /\ call'[worker'[x].call].op = "release"
                         /\ call'[worker'[x].call].pc = "missing"
                         => status'[call'[worker'[x].call].order] \notin Backed
                      /\ \A y \in Workers \ {x} : worker'[y].call # worker'[x].call
    BY DEF CallsOwned
  <2>1. x # w /\ worker'[x] = worker[x] /\ worker[x].pc \in Waiting
    BY <1>1, <1>3
  <2>2. /\ worker[x].order \in Orders /\ worker[x].call \in Calls
        /\ lock[worker[x].order] = x
        /\ worker[w].call # worker[x].call
    BY <2>1, WaitingFacts
  <2>3. /\ call'[worker[x].call] = call[worker[x].call]
        /\ status'[worker[x].order] = status[worker[x].order]
    BY <2>1, <2>2
  <2>4. \A y \in Workers \ {x} : worker'[y].call # worker[x].call
    BY <1>1, <2>1, <2>2, NullAssumption DEF CallsOwned
  <2> QED BY <2>1, <2>2, <2>3, <2>4 DEF CallsOwned
<1>6. RowsLocked'
  <2>1. ASSUME NEW o \in Orders, lock'[o] # NoWorker
        PROVE  /\ status'[o] # "absent"
               /\ worker'[lock'[o]].pc \in Waiting
               /\ worker'[lock'[o]].pc # "expiring" => o = worker'[lock'[o]].order
    <3>1. lock[o] # w /\ lock'[o] = lock[o] /\ lock[o] \in Workers
      BY <1>2, <2>1 DEF TypeOK, OrderTypeOK
    <3> QED BY <1>1, <2>1, <3>1 DEF RowsLocked
  <2>2. ASSUME NEW x \in Workers, worker'[x].pc \in Waiting \cup {"inserted"}
        PROVE  /\ worker'[x].pc = "inserted" => status'[worker'[x].order] # "absent"
               /\ worker'[x].pc \in Waiting =>
                     /\ lock'[worker'[x].order] = x
                     /\ worker'[x].todo \subseteq LockedBy(x)'
               /\ worker'[x].pc = "cancelling" =>
                     status'[worker'[x].order] \in {"pending_payment", "confirmed"}
               /\ worker'[x].pc = "expiring" =>
                     /\ worker'[x].order \in worker'[x].todo
                     /\ \A o \in LockedBy(x)' : status'[o] \in ActiveReservationStatuses
    <3>1. x # w /\ worker'[x] = worker[x] /\ LockedBy(x)' = LockedBy(x)
      BY <1>1, <1>3, <1>4, <2>2
    <3>2. worker[x].order \in Orders
      BY <2>2, <3>1 DEF TypeOK, OrderTypeOK, Waiting
    <3>3. CASE worker[x].pc = "inserted"
      <4>1. status[worker[x].order] # "absent"
        BY <3>3 DEF RowsLocked
      <4>2. status'[worker[x].order] # "absent"
        BY <3>2, <4>1
      <4> QED BY <3>1, <3>3, <4>2 DEF Waiting
    <3>4. CASE worker[x].pc \in Waiting
      <4>1. lock[worker[x].order] = x /\ lock'[worker[x].order] = x
        BY <1>2, <3>1, <3>2, <3>4, WaitingFacts
      <4>2. \A o \in LockedBy(x) : status'[o] = status[o]
        BY <3>1 DEF LockedBy
      <4>3. worker[x].order \in LockedBy(x)
        BY <3>2, <4>1 DEF LockedBy
      <4> QED BY <3>1, <3>4, <4>1, <4>2, <4>3 DEF RowsLocked, Waiting
    <3> QED BY <2>2, <3>1, <3>3, <3>4
  <2> QED BY <2>1, <2>2 DEF RowsLocked, Waiting
<1>7. BatchReleased'
  <2> SUFFICES ASSUME NEW x \in Workers, worker'[x].pc = "expiring",
                      NEW o \in LockedBy(x)' \ worker'[x].todo,
                      status'[o] = "pending_payment"
               PROVE  reservation'[o] = "released"
    BY DEF BatchReleased
  <2>1. x # w /\ worker'[x] = worker[x] /\ LockedBy(x)' = LockedBy(x)
    BY <1>1, <1>3, <1>4 DEF Waiting
  <2>2. o \in Orders /\ status'[o] = status[o]
    BY <2>1 DEF LockedBy
  <2> QED BY <2>1, <2>2 DEF BatchReleased, inventoryVars
<1> QED BY <1>5, <1>6, <1>7

(* The same when the handler ends with its transaction.                    *)
LEMMA FinishStep ==
  ASSUME IInv, NEW w \in Workers, Finish(w), UNCHANGED inventoryVars,
         \A o \in Orders : /\ lock[o] # w => status'[o] = status[o]
                           /\ status'[o] = "absent" => status[o] = "absent",
         \A c \in Calls : c # worker[w].call => call'[c] = call[c]
  PROVE  CallsOwned' /\ RowsLocked' /\ BatchReleased'
<1>1. /\ worker'[w].pc \in {"idle", "clearing"} /\ worker'[w].call = NoCall
      /\ \A x \in Workers \ {w} : worker'[x] = worker[x]
  BY DEF Finish, IdleWorker, IInv, TypeOK, OrderTypeOK
<1> QED BY <1>1, UnlockStep DEF Finish

(* A handler that locks free rows and calls product-service about one.     *)
LEMMA LockAndCallStep ==
  ASSUME IInv, NEW w \in Workers, NEW os \in SUBSET Orders, NEW o \in os,
         NEW pc \in Waiting, NEW c \in Calls, NEW op,
         LockAndCall(w, os, o, pc, c, op), UNCHANGED <<inventoryVars, orderVars>>,
         worker[w].pc \notin Waiting,
         op = (IF pc = "reserving" THEN "reserve" ELSE "release"),
         \A x \in os : Unlocked(x) /\ status[x] # "absent",
         pc # "expiring" => os = {o},
         pc = "cancelling" => status[o] \in {"pending_payment", "confirmed"},
         pc = "expiring" => \A x \in os : status[x] \in ActiveReservationStatuses
  PROVE  CallsOwned' /\ RowsLocked' /\ BatchReleased'
<1> USE DEF IInv
<1> DEFINE new == [pc |-> pc, order |-> o, call |-> c,
                   todo |-> IF pc = "expiring" THEN os ELSE {}]
           sent == [op |-> op, order |-> o, pc |-> "sent"]
<1>1. /\ new.pc = pc /\ new.order = o /\ new.call = c
      /\ new.todo \subseteq os
      /\ pc = "expiring" => new.todo = os
      /\ sent.op = op /\ sent.order = o /\ sent.pc = "sent"
  OBVIOUS
<1>2. worker' = [worker EXCEPT ![w] = new] /\ call' = [call EXCEPT ![c] = sent]
  BY DEF LockAndCall, Send
<1> HIDE DEF new, sent
<1>3. /\ worker'[w] = new /\ \A x \in Workers \ {w} : worker'[x] = worker[x]
      /\ call'[c] = sent /\ \A d \in Calls \ {c} : call'[d] = call[d]
      /\ status' = status /\ reservation' = reservation
  BY <1>2 DEF TypeOK, OrderTypeOK, InventoryTypeOK, orderVars, inventoryVars
<1>4. \A x \in Workers : worker[x].call # c
  BY DEF LockAndCall, CallsOwned, TypeOK, OrderTypeOK
<1>5. \A y \in Orders : lock'[y] = IF y \in os THEN w ELSE lock[y]
  BY DEF LockAndCall
<1>6. LockedBy(w)' = os
  <2>1. \A y \in Orders : lock[y] # w
    BY NullAssumption DEF RowsLocked
  <2> QED BY <1>5, <2>1 DEF LockedBy
<1>7. \A x \in Workers \ {w} : LockedBy(x)' = LockedBy(x)
  BY <1>5, NullAssumption DEF LockedBy, Unlocked
<1>8. CallsOwned'
  <2> SUFFICES ASSUME NEW x \in Workers, worker'[x].pc \in Waiting
               PROVE  /\ call'[worker'[x].call].order = worker'[x].order
                      /\ call'[worker'[x].call].op =
                            (IF worker'[x].pc = "reserving" THEN "reserve" ELSE "release")
                      /\ call'[worker'[x].call].pc # "free"
                      /\ /\ call'[worker'[x].call].op = "release"
                         /\ call'[worker'[x].call].pc = "missing"
                         => status'[call'[worker'[x].call].order] \notin Backed
                      /\ \A y \in Workers \ {x} : worker'[y].call # worker'[x].call
    BY DEF CallsOwned
  <2>1. CASE x = w
    BY <1>1, <1>3, <1>4, <2>1
  <2>2. CASE x # w
    <3>1. worker'[x] = worker[x] /\ worker[x].pc \in Waiting /\ worker[x].call \in Calls \ {c}
      BY <1>3, <1>4, <2>2, WaitingFacts
    <3>2. call'[worker[x].call] = call[worker[x].call]
      BY <1>3, <3>1
    <3>3. \A y \in Workers \ {x} : worker'[y].call # worker[x].call
      BY <1>1, <1>3, <3>1 DEF CallsOwned
    <3> QED BY <1>3, <3>1, <3>2, <3>3 DEF CallsOwned
  <2> QED BY <2>1, <2>2
<1>9. RowsLocked'
  <2>1. ASSUME NEW y \in Orders, lock'[y] # NoWorker
        PROVE  /\ status'[y] # "absent"
               /\ worker'[lock'[y]].pc \in Waiting
               /\ worker'[lock'[y]].pc # "expiring" => y = worker'[lock'[y]].order
    <3>1. CASE y \in os
      BY <1>1, <1>3, <1>5, <3>1
    <3>2. CASE y \notin os
      <4>1. lock'[y] = lock[y] /\ lock[y] \in Workers
        BY <1>5, <2>1, <3>2 DEF TypeOK, OrderTypeOK
      <4>2. lock[y] # w
        BY <2>1, <4>1 DEF RowsLocked
      <4> QED BY <1>3, <2>1, <4>1, <4>2 DEF RowsLocked
    <3> QED BY <3>1, <3>2
  <2>2. ASSUME NEW x \in Workers
        PROVE  /\ worker'[x].pc = "inserted" => status'[worker'[x].order] # "absent"
               /\ worker'[x].pc \in Waiting =>
                     /\ lock'[worker'[x].order] = x
                     /\ worker'[x].todo \subseteq LockedBy(x)'
               /\ worker'[x].pc = "cancelling" =>
                     status'[worker'[x].order] \in {"pending_payment", "confirmed"}
               /\ worker'[x].pc = "expiring" =>
                     /\ worker'[x].order \in worker'[x].todo
                     /\ \A y \in LockedBy(x)' : status'[y] \in ActiveReservationStatuses
    <3>1. CASE x = w
      BY <1>1, <1>3, <1>5, <1>6, <3>1 DEF Waiting
    <3>2. CASE x # w
      <4>1. worker'[x] = worker[x] /\ LockedBy(x)' = LockedBy(x)
        BY <1>3, <1>7, <3>2
      <4>2. worker[x].pc \in Waiting => lock'[worker[x].order] = x
        BY <1>5, <3>2, WaitingFacts, NullAssumption DEF Unlocked
      <4> QED BY <1>3, <4>1, <4>2 DEF RowsLocked
    <3> QED BY <3>1, <3>2
  <2> QED BY <2>1, <2>2 DEF RowsLocked
<1>10. BatchReleased'
  <2> SUFFICES ASSUME NEW x \in Workers, worker'[x].pc = "expiring",
                      NEW y \in LockedBy(x)' \ worker'[x].todo,
                      status'[y] = "pending_payment"
               PROVE  reservation'[y] = "released"
    BY DEF BatchReleased
  <2>1. CASE x = w
    BY <1>1, <1>3, <1>6, <2>1
  <2>2. CASE x # w
    BY <1>3, <1>7, <2>2 DEF BatchReleased
  <2> QED BY <2>1, <2>2
<1> QED BY <1>8, <1>9, <1>10

(* A step that touches no locked row, no lock and no call anybody waits    *)
(* for, and after which no new handler waits.                              *)
LEMMA QuietStep ==
  ASSUME IInv, lock' = lock, reservation' = reservation,
         \A x \in Workers :
            /\ worker[x].pc \in Waiting =>
                  worker'[x] = worker[x] /\ call'[worker[x].call] = call[worker[x].call]
            /\ worker[x].pc \notin Waiting =>
                  /\ worker'[x].pc \notin Waiting /\ worker'[x].call \notin Calls
                  /\ worker'[x].pc = "inserted" => status'[worker'[x].order] # "absent",
         \A o \in Orders : lock[o] # NoWorker => status'[o] = status[o]
  PROVE  CallsOwned' /\ RowsLocked' /\ BatchReleased'
<1> USE DEF IInv
<1>1. \A x \in Workers : LockedBy(x)' = LockedBy(x)
  BY DEF LockedBy
<1>2. \A x \in Workers : \A o \in LockedBy(x) : status'[o] = status[o]
  BY NullAssumption DEF LockedBy
<1>3. ASSUME NEW x \in Workers, worker'[x].pc \in Waiting
      PROVE  /\ worker[x].pc \in Waiting /\ worker'[x] = worker[x]
             /\ call'[worker[x].call] = call[worker[x].call]
             /\ worker[x].order \in LockedBy(x) /\ worker[x].call \in Calls
             /\ status'[worker[x].order] = status[worker[x].order]
  <2>1. worker[x].pc \in Waiting
    BY <1>3
  <2>2. worker[x].order \in LockedBy(x) /\ worker[x].call \in Calls
    BY <2>1, WaitingFacts DEF LockedBy
  <2> QED BY <1>2, <2>1, <2>2
<1>4. CallsOwned'
  <2> SUFFICES ASSUME NEW x \in Workers, worker'[x].pc \in Waiting
               PROVE  /\ call'[worker'[x].call].order = worker'[x].order
                      /\ call'[worker'[x].call].op =
                            (IF worker'[x].pc = "reserving" THEN "reserve" ELSE "release")
                      /\ call'[worker'[x].call].pc # "free"
                      /\ /\ call'[worker'[x].call].op = "release"
                         /\ call'[worker'[x].call].pc = "missing"
                         => status'[call'[worker'[x].call].order] \notin Backed
                      /\ \A y \in Workers \ {x} : worker'[y].call # worker'[x].call
    BY DEF CallsOwned
  <2>1. \A y \in Workers \ {x} : worker'[y].call # worker[x].call
    BY <1>3 DEF CallsOwned
  <2> QED BY <1>3, <2>1 DEF CallsOwned
<1>5. RowsLocked'
  <2>1. ASSUME NEW o \in Orders, lock'[o] # NoWorker
        PROVE  /\ status'[o] # "absent"
               /\ worker'[lock'[o]].pc \in Waiting
               /\ worker'[lock'[o]].pc # "expiring" => o = worker'[lock'[o]].order
    <3>1. lock'[o] = lock[o] /\ lock[o] \in Workers /\ worker[lock[o]].pc \in Waiting
      BY <2>1 DEF RowsLocked, TypeOK, OrderTypeOK
    <3>2. worker'[lock[o]] = worker[lock[o]] /\ status'[o] = status[o]
      BY <2>1, <3>1
    <3> QED BY <2>1, <3>1, <3>2 DEF RowsLocked
  <2>2. ASSUME NEW x \in Workers
        PROVE  /\ worker'[x].pc = "inserted" => status'[worker'[x].order] # "absent"
               /\ worker'[x].pc \in Waiting =>
                     /\ lock'[worker'[x].order] = x
                     /\ worker'[x].todo \subseteq LockedBy(x)'
               /\ worker'[x].pc = "cancelling" =>
                     status'[worker'[x].order] \in {"pending_payment", "confirmed"}
               /\ worker'[x].pc = "expiring" =>
                     /\ worker'[x].order \in worker'[x].todo
                     /\ \A o \in LockedBy(x)' : status'[o] \in ActiveReservationStatuses
    <3>1. CASE worker'[x].pc \in Waiting
      BY <1>1, <1>2, <1>3, <3>1 DEF RowsLocked, Waiting
    <3>2. CASE worker'[x].pc \notin Waiting
      BY <3>2 DEF Waiting
    <3> QED BY <3>1, <3>2
  <2> QED BY <2>1, <2>2 DEF RowsLocked
<1>6. BatchReleased'
  BY <1>1, <1>2, <1>3 DEF BatchReleased, Waiting
<1> QED BY <1>4, <1>5, <1>6
(* An expiry batch goes on to its next order.                              *)
LEMMA ExpireNextStep ==
  ASSUME IInv, NEW w \in Workers, NEW o \in Orders, ExpireNext(w, o)
  PROVE  CallsOwned' /\ RowsLocked' /\ BatchReleased'
<1> USE DEF IInv
<1> DEFINE c == worker[w].call
           rest == worker[w].todo \ {worker[w].order}
           new == [worker[w] EXCEPT !.order = o, !.todo = rest]
           sent == [op |-> "release", order |-> o, pc |-> "sent"]
<1>1. /\ worker[w].pc = "expiring" /\ o \in rest
      /\ call[c].pc \in {"ok", "missing"}
      /\ worker' = [worker EXCEPT ![w] = new] /\ call' = [call EXCEPT ![c] = sent]
      /\ UNCHANGED <<inventoryVars, orderVars, lock>>
  BY DEF ExpireNext, Answered, Send
<1>2. /\ c \in Calls /\ worker[w].order \in Orders
      /\ \A x \in Workers \ {w} : worker[x].call # c
      /\ call[c].order = worker[w].order /\ call[c].op = "release"
      /\ call[c].pc = "missing" => status[worker[w].order] \notin Backed
  BY <1>1, WaitingFacts DEF CallsOwned, Waiting
<1>3. /\ new.pc = "expiring" /\ new.order = o /\ new.todo = rest /\ new.call = c
      /\ sent.op = "release" /\ sent.order = o /\ sent.pc = "sent"
  BY <1>1 DEF TypeOK, OrderTypeOK, WorkerType
<1> HIDE DEF new, sent
<1>4. /\ worker'[w] = new /\ \A x \in Workers \ {w} : worker'[x] = worker[x]
      /\ call'[c] = sent /\ \A d \in Calls \ {c} : call'[d] = call[d]
      /\ status' = status /\ reservation' = reservation /\ lock' = lock
  BY <1>1, <1>2 DEF TypeOK, OrderTypeOK, InventoryTypeOK, orderVars, inventoryVars
<1>5. \A x \in Workers : LockedBy(x)' = LockedBy(x)
  BY <1>4 DEF LockedBy
<1>6. rest \subseteq LockedBy(w) /\ lock[o] = w
  BY <1>1 DEF RowsLocked, LockedBy, Waiting
<1>7. \A x \in Workers : worker'[x].call = worker[x].call /\ worker'[x].pc = worker[x].pc
  BY <1>1, <1>3, <1>4
<1>8. CallsOwned'
  <2> SUFFICES ASSUME NEW x \in Workers, worker'[x].pc \in Waiting
               PROVE  /\ call'[worker'[x].call].order = worker'[x].order
                      /\ call'[worker'[x].call].op =
                            (IF worker'[x].pc = "reserving" THEN "reserve" ELSE "release")
                      /\ call'[worker'[x].call].pc # "free"
                      /\ /\ call'[worker'[x].call].op = "release"
                         /\ call'[worker'[x].call].pc = "missing"
                         => status'[call'[worker'[x].call].order] \notin Backed
                      /\ \A y \in Workers \ {x} : worker'[y].call # worker'[x].call
    BY DEF CallsOwned
  <2>1. \A y \in Workers \ {x} : worker'[y].call # worker'[x].call
    BY <1>7 DEF CallsOwned
  <2>2. CASE x = w
    BY <1>2, <1>3, <1>4, <2>1, <2>2
  <2>3. CASE x # w
    <3>1. worker[x].call \in Calls \ {c}
      BY <1>2, <1>7, <2>3, WaitingFacts
    <3> QED BY <1>4, <2>1, <2>3, <3>1 DEF CallsOwned
  <2> QED BY <2>2, <2>3
<1>9. RowsLocked'
  <2>1. ASSUME NEW y \in Orders, lock'[y] # NoWorker
        PROVE  /\ status'[y] # "absent"
               /\ worker'[lock'[y]].pc \in Waiting
               /\ worker'[lock'[y]].pc # "expiring" => y = worker'[lock'[y]].order
    <3>1. lock'[y] = lock[y] /\ lock[y] \in Workers
      BY <1>4, <2>1 DEF TypeOK, OrderTypeOK
    <3> QED BY <1>1, <1>4, <1>7, <2>1, <3>1 DEF RowsLocked
  <2>2. ASSUME NEW x \in Workers
        PROVE  /\ worker'[x].pc = "inserted" => status'[worker'[x].order] # "absent"
               /\ worker'[x].pc \in Waiting =>
                     /\ lock'[worker'[x].order] = x
                     /\ worker'[x].todo \subseteq LockedBy(x)'
               /\ worker'[x].pc = "cancelling" =>
                     status'[worker'[x].order] \in {"pending_payment", "confirmed"}
               /\ worker'[x].pc = "expiring" =>
                     /\ worker'[x].order \in worker'[x].todo
                     /\ \A y \in LockedBy(x)' : status'[y] \in ActiveReservationStatuses
    <3>1. CASE x = w
      BY <1>1, <1>3, <1>4, <1>5, <1>6, <3>1 DEF RowsLocked
    <3>2. CASE x # w
      BY <1>4, <1>5, <3>2 DEF RowsLocked
    <3> QED BY <3>1, <3>2
  <2> QED BY <2>1, <2>2 DEF RowsLocked
<1>10. BatchReleased'
  <2> SUFFICES ASSUME NEW x \in Workers, worker'[x].pc = "expiring",
                      NEW y \in LockedBy(x)' \ worker'[x].todo,
                      status'[y] = "pending_payment"
               PROVE  reservation'[y] = "released"
    BY DEF BatchReleased
  <2>1. CASE x = w /\ y \in worker[w].todo
    <3>1. y = worker[w].order /\ status[y] = "pending_payment"
      BY <1>3, <1>4, <2>1
    <3>2. call[c].pc = "ok"
      BY <1>1, <1>2, <3>1 DEF Backed
    <3> QED BY <1>2, <1>4, <3>1, <3>2 DEF AnswersHold
  <2>2. CASE ~(x = w /\ y \in worker[w].todo)
    BY <1>1, <1>4, <1>5, <2>2 DEF BatchReleased
  <2> QED BY <2>1, <2>2
<1> QED BY <1>8, <1>9, <1>10

(* A step of a handler of product-service.                                 *)
LEMMA ProductServesStep ==
  ASSUME IInv, NEW c \in Calls, ProductServes(c)
  PROVE  CallsOwned' /\ RowsLocked' /\ BatchReleased'
<1> USE DEF IInv
<1>1. /\ call[c].pc # "free" /\ call[c].order \in Orders
      /\ UNCHANGED <<orderVars, handlerVars>>
  BY DEF ProductServes, ReserveLookup, ReserveCommit, Release, TypeOK, InventoryTypeOK
<1>2. PICK a \in Answers \cup {"checked"} : Answer(c, a)
  BY DEF ProductServes, ReserveLookup, ReserveCommit, Release, Answers
<1>3. a = "missing" /\ call[c].op = "release" => reservation[call[c].order] = "none"
  BY <1>1, <1>2 DEF ProductServes, ReserveLookup, ReserveCommit, Release, Answer,
                    TypeOK, InventoryTypeOK, CallType
<1>4. /\ call'[c].op = call[c].op /\ call'[c].order = call[c].order /\ call'[c].pc = a
      /\ \A d \in Calls \ {c} : call'[d] = call[d]
      /\ a # "free"
  BY <1>2 DEF Answer, TypeOK, InventoryTypeOK, CallType, Answers
<1>5. /\ status' = status /\ lock' = lock /\ worker' = worker
      /\ \A x \in Workers : LockedBy(x)' = LockedBy(x)
  BY <1>1 DEF orderVars, handlerVars, LockedBy
<1>6. CallsOwned'
  <2> SUFFICES ASSUME NEW x \in Workers, worker'[x].pc \in Waiting
               PROVE  /\ call'[worker'[x].call].order = worker'[x].order
                      /\ call'[worker'[x].call].op =
                            (IF worker'[x].pc = "reserving" THEN "reserve" ELSE "release")
                      /\ call'[worker'[x].call].pc # "free"
                      /\ /\ call'[worker'[x].call].op = "release"
                         /\ call'[worker'[x].call].pc = "missing"
                         => status'[call'[worker'[x].call].order] \notin Backed
                      /\ \A y \in Workers \ {x} : worker'[y].call # worker'[x].call
    BY DEF CallsOwned
  <2>1. worker[x].call \in Calls
    BY <1>5, WaitingFacts
  <2>2. CASE worker[x].call = c
    BY <1>1, <1>3, <1>4, <1>5, <2>2 DEF CallsOwned, OrdersBacked
  <2>3. CASE worker[x].call # c
    BY <1>4, <1>5, <2>1, <2>3 DEF CallsOwned
  <2> QED BY <2>2, <2>3
<1>7. RowsLocked'
  BY <1>5 DEF RowsLocked
<1>8. BatchReleased'
  <2>1. [InventoryNext]_invVars
    BY DEF ProductServes, InventoryNext, Serve
  <2>2. \A x \in Workers : \A o \in LockedBy(x) : o \in Orders
    BY DEF LockedBy
  <2> QED BY <1>5, <2>1, <2>2, ReservationForward DEF BatchReleased, TypeOK
<1> QED BY <1>6, <1>7, <1>8

(* A step that writes no status keeps what the rows promise.               *)
LEMMA SameRows ==
  ASSUME IInv, [Next]_vars, status' = status
  PROVE  OrdersBacked' /\ CancelledReleased'
<1>1. [InventoryNext]_invVars
  BY StepImplementsInventory DEF IInv
<1> QED BY <1>1, ReservationForward DEF IInv, TypeOK, OrdersBacked, CancelledReleased

(* checkout keeps the invariant.                                           *)
LEMMA CheckoutKeeps ==
  ASSUME IInv, [Next]_vars, Checkout
  PROVE  CallsOwned' /\ RowsLocked' /\ BatchReleased' /\ OrdersBacked' /\ CancelledReleased'
<1> USE DEF IInv
<1>1. ASSUME NEW w \in Workers, NEW o \in Orders, CheckoutMiss(w, o)
      PROVE  CallsOwned' /\ RowsLocked' /\ BatchReleased' /\ OrdersBacked' /\ CancelledReleased'
  <2>1. worker'[w].pc = "cart" /\ worker'[w].call = worker[w].call
    BY <1>1 DEF CheckoutMiss, TypeOK, OrderTypeOK, WorkerType
  <2>2. \A x \in Workers \ {w} : worker'[x] = worker[x]
    BY <1>1 DEF CheckoutMiss, TypeOK, OrderTypeOK
  <2>3. worker[w].pc \notin Waiting
    BY <1>1 DEF CheckoutMiss, Waiting
  <2>4. /\ lock' = lock /\ reservation' = reservation /\ call' = call /\ status' = status
    BY <1>1 DEF CheckoutMiss, inventoryVars, orderVars
  <2>5. \A x \in Workers : worker[x].pc \notin Waiting => worker[x].call \notin Calls
    BY DEF TypeOK, OrderTypeOK
  <2>6. CallsOwned' /\ RowsLocked' /\ BatchReleased'
    BY <2>1, <2>2, <2>3, <2>4, <2>5, QuietStep DEF RowsLocked, Waiting
  <2> QED BY <2>4, <2>6, SameRows
<1>2. ASSUME NEW w \in Workers, NEW o \in Orders, NEW c \in Calls, CheckoutResume(w, o, c)
      PROVE  CallsOwned' /\ RowsLocked' /\ BatchReleased' /\ OrdersBacked' /\ CancelledReleased'
  <2>1. /\ LockAndCall(w, {o}, o, "reserving", c, "reserve") /\ worker[w].pc \notin Waiting
        /\ Unlocked(o) /\ status[o] # "absent" /\ UNCHANGED <<inventoryVars, orderVars>>
    BY <1>2 DEF CheckoutResume, Waiting
  <2>2. {o} \in SUBSET Orders /\ "reserving" \in Waiting
    BY DEF Waiting
  <2>3. CallsOwned' /\ RowsLocked' /\ BatchReleased'
    BY <2>1, <2>2, LockAndCallStep
  <2> QED BY <2>1, <2>3, SameRows DEF orderVars
<1>3. ASSUME NEW w \in Workers, NEW c \in Calls, CheckoutRelock(w, c)
      PROVE  CallsOwned' /\ RowsLocked' /\ BatchReleased' /\ OrdersBacked' /\ CancelledReleased'
  <2> DEFINE o == worker[w].order
  <2>1. /\ LockAndCall(w, {o}, o, "reserving", c, "reserve") /\ worker[w].pc \notin Waiting
        /\ Unlocked(o) /\ status[o] # "absent" /\ UNCHANGED <<inventoryVars, orderVars>>
    BY <1>3 DEF CheckoutRelock, Waiting, RowsLocked
  <2>2. {o} \in SUBSET Orders /\ "reserving" \in Waiting
    BY <1>3 DEF CheckoutRelock, Waiting, TypeOK, OrderTypeOK
  <2>3. CallsOwned' /\ RowsLocked' /\ BatchReleased'
    BY <2>1, <2>2, LockAndCallStep
  <2> QED BY <2>1, <2>3, SameRows DEF orderVars
<1>4. ASSUME NEW w \in Workers, NEW c \in Calls, CheckoutReread(w, c)
      PROVE  CallsOwned' /\ RowsLocked' /\ BatchReleased' /\ OrdersBacked' /\ CancelledReleased'
  <2> DEFINE o == worker[w].order
  <2>1. CASE status[o] = "reserving_inventory"
    <3>1. /\ LockAndCall(w, {o}, o, "reserving", c, "reserve") /\ worker[w].pc \notin Waiting
          /\ Unlocked(o) /\ status[o] # "absent" /\ UNCHANGED <<inventoryVars, orderVars>>
      BY <1>4, <2>1 DEF CheckoutReread, Waiting
    <3>2. {o} \in SUBSET Orders /\ "reserving" \in Waiting
      BY <1>4 DEF CheckoutReread, Waiting, TypeOK, OrderTypeOK
    <3>3. CallsOwned' /\ RowsLocked' /\ BatchReleased'
      BY <3>1, <3>2, LockAndCallStep
    <3> QED BY <3>1, <3>3, SameRows DEF orderVars
  <2>2. CASE status[o] # "reserving_inventory"
    <3>1. Finish(w) /\ UNCHANGED <<inventoryVars, orderVars, call>>
      BY <1>4, <2>2 DEF CheckoutReread
    <3>2. CallsOwned' /\ RowsLocked' /\ BatchReleased'
      BY <3>1, FinishStep DEF orderVars
    <3> QED BY <3>1, <3>2, SameRows DEF orderVars
  <2> QED BY <2>1, <2>2
<1>5. ASSUME NEW o \in Orders, CheckoutReplay(o)
      PROVE  CallsOwned' /\ RowsLocked' /\ BatchReleased' /\ OrdersBacked' /\ CancelledReleased'
  <2>1. UNCHANGED <<lock, worker, call, status, reservation>>
    BY <1>5 DEF CheckoutReplay, handlerVars, orderVars, inventoryVars
  <2>2. \A x \in Workers : worker[x].pc \notin Waiting => worker[x].call \notin Calls
    BY DEF TypeOK, OrderTypeOK
  <2>3. CallsOwned' /\ RowsLocked' /\ BatchReleased'
    BY <2>1, <2>2, QuietStep DEF RowsLocked
  <2> QED BY <2>1, <2>3, SameRows
<1>6. ASSUME NEW w \in Workers, CheckoutInsert(w) \/ CheckoutCollide(w)
      PROVE  CallsOwned' /\ RowsLocked' /\ BatchReleased' /\ OrdersBacked' /\ CancelledReleased'
  <2> DEFINE o == worker[w].order
  <2>1. worker[w].pc = "cart" /\ o \in Orders /\ worker[w].call \notin Calls
    BY <1>6 DEF CheckoutInsert, CheckoutCollide, TypeOK, OrderTypeOK, Waiting
  <2>2. /\ \A x \in Workers \ {w} : worker'[x] = worker[x]
        /\ worker'[w].order = o /\ worker'[w].call = worker[w].call
        /\ worker'[w].pc = "inserted" => status'[o] # "absent"
        /\ worker'[w].pc \in {"inserted", "collided"}
    BY <1>6, <2>1 DEF CheckoutInsert, CheckoutCollide, TypeOK, OrderTypeOK, WorkerType
  <2>3. /\ lock' = lock /\ reservation' = reservation /\ call' = call
        /\ \A x \in Orders : /\ status[x] # "absent" => status'[x] = status[x]
                             /\ status'[x] # status[x] => status'[x] = "reserving_inventory"
    BY <1>6, <2>1 DEF CheckoutInsert, CheckoutCollide, inventoryVars, orderVars, TypeOK, OrderTypeOK
  <2>4. /\ \A x \in Workers : worker[x].pc \notin Waiting => worker[x].call \notin Calls
        /\ \A x \in Workers : worker[x].pc = "inserted" => worker[x].order \in Orders
    BY DEF TypeOK, OrderTypeOK
  <2>5. \A x \in Workers : worker[x].pc = "inserted" =>
           status[worker[x].order] # "absent" /\ status'[worker[x].order] # "absent"
    BY <2>3, <2>4 DEF RowsLocked
  <2>6. \A x \in Workers :
           /\ worker[x].pc \in Waiting =>
                 worker'[x] = worker[x] /\ call'[worker[x].call] = call[worker[x].call]
           /\ worker[x].pc \notin Waiting =>
                 /\ worker'[x].pc \notin Waiting /\ worker'[x].call \notin Calls
                 /\ worker'[x].pc = "inserted" => status'[worker'[x].order] # "absent"
    BY <2>1, <2>2, <2>3, <2>4, <2>5 DEF Waiting
  <2>7. \A x \in Orders : lock[x] # NoWorker => status'[x] = status[x]
    BY <2>3 DEF RowsLocked
  <2>8. CallsOwned' /\ RowsLocked' /\ BatchReleased'
    BY <2>3, <2>6, <2>7, QuietStep
  <2> QED BY <2>3, <2>8 DEF OrdersBacked, CancelledReleased, Backed
<1>7. ASSUME NEW w \in Workers, ReserveOk(w) \/ ReserveRefused(w)
      PROVE  CallsOwned' /\ RowsLocked' /\ BatchReleased' /\ OrdersBacked' /\ CancelledReleased'
  <2> DEFINE o == worker[w].order
  <2>1. worker[w].pc = "reserving" /\ UNCHANGED inventoryVars
    BY <1>7 DEF ReserveOk, ReserveRefused, Answered
  <2>2. /\ o \in Orders /\ worker[w].call \in Calls /\ lock[o] = w
        /\ call[worker[w].call].order = o /\ call[worker[w].call].op = "reserve"
    BY <2>1, WaitingFacts DEF CallsOwned, Waiting
  <2>3. /\ \A x \in Orders \ {o} : status'[x] = status[x]
        /\ \/ status'[o] = "checkout_failed"
           \/ status'[o] = "pending_payment" /\ call[worker[w].call].pc = "ok"
    BY <1>7, <2>2 DEF ReserveOk, ReserveRefused, Transition, Answered
  <2>4. \A d \in Calls : d # worker[w].call => call'[d] = call[d]
    BY <1>7 DEF ReserveOk, ReserveRefused, Receive, TypeOK, InventoryTypeOK
  <2>5. CallsOwned' /\ RowsLocked' /\ BatchReleased'
    <3>1. CASE ReserveRefused(w)
      <4>1. Finish(w)
        BY <3>1 DEF ReserveRefused
      <4> QED BY <2>1, <2>2, <2>3, <2>4, <4>1, FinishStep
    <3>2. CASE ReserveOk(w)
      <4>1. /\ worker'[w].pc \in {"idle", "clearing"} /\ worker'[w].call = NoCall
            /\ \A x \in Workers \ {w} : worker'[x] = worker[x]
            /\ Unlock(w)
        BY <3>2 DEF ReserveOk, IdleWorker, TypeOK, OrderTypeOK
      <4> QED BY <2>1, <2>2, <2>3, <2>4, <4>1, UnlockStep
    <3> QED BY <1>7, <3>1, <3>2
  <2>6. call[worker[w].call].pc = "ok" => reservation[o] # "none"
    BY <2>2 DEF AnswersHold
  <2>7. reservation' = reservation
    BY <2>1 DEF inventoryVars
  <2> QED BY <2>3, <2>5, <2>6, <2>7 DEF OrdersBacked, CancelledReleased, Backed
<1>8. ASSUME NEW w \in Workers, ClearCart(w)
      PROVE  CallsOwned' /\ RowsLocked' /\ BatchReleased' /\ OrdersBacked' /\ CancelledReleased'
  <2>1. Finish(w) /\ UNCHANGED <<inventoryVars, status, call>>
    BY <1>8 DEF ClearCart
  <2>2. CallsOwned' /\ RowsLocked' /\ BatchReleased'
    BY <2>1, FinishStep
  <2> QED BY <2>1, <2>2, SameRows
<1> QED BY <1>1, <1>2, <1>3, <1>4, <1>5, <1>6, <1>7, <1>8 DEF Checkout

(* So do cancellation and the administrator's transitions.                 *)
LEMMA ManageKeeps ==
  ASSUME IInv, [Next]_vars, Manage
  PROVE  CallsOwned' /\ RowsLocked' /\ BatchReleased' /\ OrdersBacked' /\ CancelledReleased'
<1> USE DEF IInv
<1>1. ASSUME NEW w \in Workers, NEW o \in Orders, NEW c \in Calls,
             CustomerCancel(w, o, c) \/ AdminCancel(w, o, c)
      PROVE  CallsOwned' /\ RowsLocked' /\ BatchReleased' /\ OrdersBacked' /\ CancelledReleased'
  <2>1. /\ LockAndCall(w, {o}, o, "cancelling", c, "release") /\ worker[w].pc \notin Waiting
        /\ Unlocked(o) /\ UNCHANGED <<inventoryVars, orderVars>>
    BY <1>1 DEF CustomerCancel, AdminCancel, Waiting
  <2>2. status[o] \in {"pending_payment", "confirmed"}
    BY <1>1 DEF CustomerCancel, AdminCancel, Transitions, Statuses
  <2>3. {o} \in SUBSET Orders /\ "cancelling" \in Waiting
    BY DEF Waiting
  <2>4. CallsOwned' /\ RowsLocked' /\ BatchReleased'
    BY <2>1, <2>2, <2>3, LockAndCallStep
  <2> QED BY <2>1, <2>4, SameRows DEF orderVars
<1>2. ASSUME NEW w \in Workers, CancelCommit(w)
      PROVE  CallsOwned' /\ RowsLocked' /\ BatchReleased' /\ OrdersBacked' /\ CancelledReleased'
  <2> DEFINE o == worker[w].order
  <2>1. /\ worker[w].pc = "cancelling" /\ Finish(w) /\ UNCHANGED inventoryVars
        /\ call[worker[w].call].pc \in {"ok", "missing"}
    BY <1>2 DEF CancelCommit, Answered
  <2>2. /\ o \in Orders /\ worker[w].call \in Calls /\ lock[o] = w
        /\ call[worker[w].call].order = o /\ call[worker[w].call].op = "release"
        /\ call[worker[w].call].pc = "missing" => status[o] \notin Backed
    BY <2>1, WaitingFacts DEF CallsOwned, Waiting
  <2>3. status[o] \in Backed
    BY <2>1 DEF RowsLocked, Backed
  <2>4. reservation[o] = "released"
    BY <2>1, <2>2, <2>3 DEF AnswersHold
  <2>5. /\ \A x \in Orders \ {o} : status'[x] = status[x]
        /\ status'[o] = "cancelled"
    BY <1>2, <2>2 DEF CancelCommit, Transition
  <2>6. \A d \in Calls : d # worker[w].call => call'[d] = call[d]
    BY <1>2 DEF CancelCommit, Receive, TypeOK, InventoryTypeOK
  <2>7. CallsOwned' /\ RowsLocked' /\ BatchReleased'
    BY <2>1, <2>2, <2>5, <2>6, FinishStep
  <2>8. reservation' = reservation
    BY <2>1 DEF inventoryVars
  <2> QED BY <2>4, <2>5, <2>7, <2>8 DEF OrdersBacked, CancelledReleased
<1>3. ASSUME NEW o \in Orders, NEW to \in AdminTargets, AdminTransition(o, to)
      PROVE  CallsOwned' /\ RowsLocked' /\ BatchReleased' /\ OrdersBacked' /\ CancelledReleased'
  <2>1. /\ UNCHANGED <<lock, worker, call, reservation>>
        /\ \A x \in Orders \ {o} : status'[x] = status[x]
        /\ status'[o] = to /\ lock[o] = NoWorker
    BY <1>3 DEF AdminTransition, handlerVars, inventoryVars, Transition, Unlocked
  <2>2. status[o] \in Backed /\ to \in Backed \ {"cancelled"} /\ to # "absent"
    BY <1>3 DEF AdminTransition, Transitions, Statuses, Backed
  <2>3. \A x \in Workers : /\ worker[x].pc \notin Waiting => worker[x].call \notin Calls
                           /\ worker[x].pc = "inserted" => worker[x].order \in Orders
    BY DEF TypeOK, OrderTypeOK
  <2>4. \A x \in Workers : worker[x].pc = "inserted" => status'[worker[x].order] # "absent"
    BY <2>1, <2>2, <2>3 DEF RowsLocked
  <2>5. CallsOwned' /\ RowsLocked' /\ BatchReleased'
    BY <2>1, <2>3, <2>4, QuietStep
  <2> QED BY <2>1, <2>2, <2>5 DEF OrdersBacked, CancelledReleased
<1> QED BY <1>1, <1>2, <1>3 DEF Manage

(* So does the expiry of reservations.                                     *)
LEMMA ExpireKeeps ==
  ASSUME IInv, [Next]_vars, Expire
  PROVE  CallsOwned' /\ RowsLocked' /\ BatchReleased' /\ OrdersBacked' /\ CancelledReleased'
<1> USE DEF IInv
<1>1. ASSUME NEW w \in Workers, NEW batch \in SUBSET Orders, NEW o \in Orders, NEW c \in Calls,
             ExpireBegin(w, batch, o, c)
      PROVE  CallsOwned' /\ RowsLocked' /\ BatchReleased' /\ OrdersBacked' /\ CancelledReleased'
  <2>1. /\ LockAndCall(w, batch, o, "expiring", c, "release") /\ worker[w].pc \notin Waiting
        /\ o \in batch /\ UNCHANGED <<inventoryVars, orderVars>>
    BY <1>1 DEF ExpireBegin, Waiting
  <2>2. \A x \in batch : Unlocked(x) /\ status[x] \in ActiveReservationStatuses
    BY <1>1 DEF ExpireBegin, Expired
  <2>3. \A x \in batch : status[x] # "absent"
    BY <2>2 DEF ActiveReservationStatuses
  <2>4. "expiring" \in Waiting
    BY DEF Waiting
  <2>5. CallsOwned' /\ RowsLocked' /\ BatchReleased'
    BY <2>1, <2>2, <2>3, <2>4, LockAndCallStep
  <2> QED BY <2>1, <2>5, SameRows DEF orderVars
<1>2. ASSUME NEW w \in Workers, NEW o \in Orders, ExpireNext(w, o)
      PROVE  CallsOwned' /\ RowsLocked' /\ BatchReleased' /\ OrdersBacked' /\ CancelledReleased'
  <2>1. status' = status
    BY <1>2 DEF ExpireNext, orderVars
  <2> QED BY <1>2, <2>1, ExpireNextStep, SameRows
<1>3. ASSUME NEW w \in Workers, ExpireCommit(w)
      PROVE  CallsOwned' /\ RowsLocked' /\ BatchReleased' /\ OrdersBacked' /\ CancelledReleased'
  <2> DEFINE o == worker[w].order
  <2>1. /\ worker[w].pc = "expiring" /\ Finish(w) /\ UNCHANGED inventoryVars
        /\ call[worker[w].call].pc \in {"ok", "missing"}
        /\ worker[w].todo = {o}
    BY <1>3 DEF ExpireCommit, Answered
  <2>2. /\ o \in Orders /\ worker[w].call \in Calls /\ lock[o] = w
        /\ call[worker[w].call].order = o /\ call[worker[w].call].op = "release"
        /\ call[worker[w].call].pc = "missing" => status[o] \notin Backed
    BY <2>1, WaitingFacts DEF CallsOwned, Waiting
  <2>3. \A x \in Orders :
           /\ lock[x] # w => status'[x] = status[x]
           /\ lock[x] = w => status'[x] = IF status[x] = "reserving_inventory"
                                          THEN "checkout_failed" ELSE "cancelled"
    BY <1>3 DEF ExpireCommit, Transition, LockedBy
  <2>4. ASSUME NEW x \in Orders, lock[x] = w, status[x] # "reserving_inventory"
        PROVE  reservation[x] = "released"
    <3>1. status[x] = "pending_payment"
      BY <2>1, <2>4 DEF RowsLocked, LockedBy, ActiveReservationStatuses
    <3>2. CASE x = o
      BY <2>1, <2>2, <3>1, <3>2 DEF AnswersHold, Backed
    <3>3. CASE x # o
      BY <2>1, <2>4, <3>1, <3>3 DEF BatchReleased, LockedBy
    <3> QED BY <3>2, <3>3
  <2>5. \A d \in Calls : d # worker[w].call => call'[d] = call[d]
    BY <1>3 DEF ExpireCommit, Receive, TypeOK, InventoryTypeOK
  <2>6. CallsOwned' /\ RowsLocked' /\ BatchReleased'
    BY <2>1, <2>3, <2>5, FinishStep
  <2>7. reservation' = reservation
    BY <2>1 DEF inventoryVars
  <2> QED BY <2>3, <2>4, <2>6, <2>7 DEF OrdersBacked, CancelledReleased, Backed
<1> QED BY <1>1, <1>2, <1>3 DEF Expire

(* So do aborts, orphaned calls, time, product-service and stuttering.     *)
LEMMA OthersKeep ==
  ASSUME IInv, [Next]_vars, Environment \/ Product \/ UNCHANGED vars
  PROVE  CallsOwned' /\ RowsLocked' /\ BatchReleased' /\ OrdersBacked' /\ CancelledReleased'
<1> USE DEF IInv
<1>1. \A x \in Workers : /\ worker[x].pc \notin Waiting => worker[x].call \notin Calls
                         /\ worker[x].pc = "inserted" => status[worker[x].order] # "absent"
  BY DEF TypeOK, OrderTypeOK, RowsLocked
<1>2. status' = status
  BY DEF Environment, Abort, OrphanEnds, DeadlinePasses, Product, ProductServes, orderVars, vars
<1>3. ASSUME NEW w \in Workers, Abort(w)
      PROVE  CallsOwned' /\ RowsLocked' /\ BatchReleased'
  BY <1>2, <1>3, FinishStep DEF Abort
<1>4. ASSUME NEW c \in Calls, OrphanEnds(c)
      PROVE  CallsOwned' /\ RowsLocked' /\ BatchReleased'
  <2>1. /\ UNCHANGED <<lock, worker, reservation>>
        /\ \A d \in Calls \ {c} : call'[d] = call[d]
        /\ \A x \in Workers : worker[x].call # c
    BY <1>4 DEF OrphanEnds, Orphaned, Receive, Lose, inventoryVars, handlerVars,
                TypeOK, InventoryTypeOK
  <2>2. \A x \in Workers : worker[x].pc \in Waiting => worker[x].call \in Calls
    BY WaitingFacts
  <2> QED BY <1>1, <1>2, <2>1, <2>2, QuietStep
<1>5. ASSUME \/ \E o \in Orders : DeadlinePasses(o)
             \/ Administer /\ UNCHANGED <<orderVars, handlerVars>>
             \/ UNCHANGED vars
      PROVE  CallsOwned' /\ RowsLocked' /\ BatchReleased'
  <2>1. UNCHANGED <<lock, worker, reservation, call>>
    BY <1>5 DEF DeadlinePasses, Administer, SetStock, SetSellable, inventoryVars,
                handlerVars, vars
  <2>2. lock' = lock /\ reservation' = reservation /\ worker' = worker /\ call' = call
    BY <2>1
  <2>3. \A x \in Workers :
           /\ worker[x].pc \in Waiting =>
                 worker'[x] = worker[x] /\ call'[worker[x].call] = call[worker[x].call]
           /\ worker[x].pc \notin Waiting =>
                 /\ worker'[x].pc \notin Waiting /\ worker'[x].call \notin Calls
                 /\ worker'[x].pc = "inserted" => status'[worker'[x].order] # "absent"
    BY <1>1, <1>2, <2>2
  <2> QED BY <1>2, <2>2, <2>3, QuietStep
<1>6. CallsOwned' /\ RowsLocked' /\ BatchReleased'
  BY <1>3, <1>4, <1>5, ProductServesStep DEF Environment, Product
<1> QED BY <1>2, <1>6, SameRows

(* The inductive step.                                                     *)
LEMMA IInvStep ==
  ASSUME IInv, [Next]_vars
  PROVE  IInv'
<1>1. TypeOK' /\ AnswersHold'
  BY StepTyped, StepImplementsInventory, AnswersHoldStep DEF IInv, TypeOK
<1>2. CallsOwned' /\ RowsLocked' /\ BatchReleased' /\ OrdersBacked' /\ CancelledReleased'
  BY CheckoutKeeps, ManageKeeps, ExpireKeeps, OthersKeep DEF Next
<1> QED BY <1>1, <1>2 DEF IInv

(* The inductive invariant of the composition.                             *)
THEOREM Inductive == Spec => []IInv
<1>1. Init => IInv
  <2> SUFFICES ASSUME Init PROVE IInv
    OBVIOUS
  <2>1. TypeOK
    BY InitTyped
  <2> QED BY <2>1 DEF Init, InventoryInit, IInv, AnswersHold, OrdersBacked, CancelledReleased,
                      CallsOwned, RowsLocked, BatchReleased, Free, IdleWorker, Waiting, Backed
<1> QED BY <1>1, IInvStep, PTL DEF Spec

-----------------------------------------------------------------------------
(* What follows                                                            *)

(* No order is ever past checkout without stock having been taken for it.  *)
THEOREM OrdersAreBacked == Spec => []OrdersBacked
<1>1. IInv => OrdersBacked
  BY DEF IInv
<1> QED BY <1>1, Inductive, PTL

(* No cancelled order holds stock.                                         *)
THEOREM CancelledAreReleased == Spec => []CancelledReleased
<1>1. IInv => CancelledReleased
  BY DEF IInv
<1> QED BY <1>1, Inductive, PTL

(* No two handlers are in a call to product-service about the same order.  *)
THEOREM HandlersAreSerialised == Spec => []OneHandlerPerOrder
<1>1. IInv => OneHandlerPerOrder
  <2> SUFFICES ASSUME IInv, NEW w1 \in Workers, NEW w2 \in Workers, NEW o \in Orders,
                      worker[w1].pc \in Waiting, o \in worker[w1].todo \cup {worker[w1].order},
                      worker[w2].pc \in Waiting, o \in worker[w2].todo \cup {worker[w2].order}
               PROVE  w1 = w2
    BY DEF OneHandlerPerOrder
  <2>1. lock[o] = w1 /\ lock[o] = w2
    BY DEF IInv, RowsLocked, LockedBy
  <2> QED BY <2>1
<1> QED BY <1>1, Inductive, PTL
=============================================================================
