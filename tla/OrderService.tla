---------------------------- MODULE OrderService ----------------------------
(***************************************************************************)
(* order-service: the order rows, the handlers that move an order through  *)
(* its lifecycle, and the calls they make to Inventory.tla (product-service)*)
(*                                                                         *)
(* A handler is split at its awaits on another service and at its commits; *)
(* between two of them it runs inside one database transaction.  A row     *)
(* read FOR UPDATE stays locked until that transaction ends, so an action  *)
(* that reads a locked row is disabled until then, which is how a blocked  *)
(* SELECT waits.  A handler that only reads, locks, writes and commits is  *)
(* one step.  A handler can end at any time without committing (Abort):    *)
(* a call timed out or was answered 5xx, the client hung up, the process   *)
(* died.  What it asked of product-service then still runs.                *)
(***************************************************************************)
EXTENDS Inventory, Sequences

CONSTANTS
    Workers,       \* handler executions that may run at the same time
    NoWorker,      \* the holder of a free row lock
    NoCall,        \* the call of a handler that waits for none
    BatchLimit,    \* the "limit" query parameter of expire-reservations
    AdminTargets   \* the statuses administrators ask for in this instance

ASSUME NullAssumption == NoWorker \notin Workers /\ NoCall \notin Calls

ASSUME LimitAssumption == BatchLimit \in Nat \ {0}

VARIABLES
    status,        \* orders.status, "absent" while there is no row
    deadline,      \* orders.reservation_expires_at: NULL, ahead or passed
    history,       \* order_status_history of the order, oldest first
    cleared,       \* the orders whose checkout emptied the cart
    lock,          \* the handler whose transaction holds the row lock
    worker         \* the handlers

orderVars == <<status, deadline, history, cleared>>
handlerVars == <<lock, worker>>
vars == <<stock, sellable, reservation, call,
          status, deadline, history, cleared, lock, worker>>

Statuses == {"reserving_inventory", "pending_payment", "confirmed", "processing",
             "shipped", "delivered", "cancelled", "checkout_failed"}

ActiveReservationStatuses == {"reserving_inventory", "pending_payment"}

Transitions ==
    [s \in Statuses |->
        CASE s = "pending_payment" -> {"confirmed", "cancelled"}
          [] s = "confirmed"       -> {"processing", "cancelled"}
          [] s = "processing"      -> {"shipped"}
          [] s = "shipped"         -> {"delivered"}
          [] OTHER                 -> {}]

IdleWorker == [pc |-> "idle", order |-> NoOrder, call |-> NoCall, todo |-> {}]

(* pc: "cart" waits for cart-service, "inserted" and "collided" come after *)
(* the insert that committed or failed, "clearing" after the commit of the *)
(* reserved order, the others wait for an answer of product-service to     *)
(* "call" about "order".  todo: the orders of an expiry batch that are not *)
(* released yet, the current one included.                                 *)
WorkerType ==
    [pc: {"idle", "cart", "inserted", "collided", "clearing",
          "reserving", "cancelling", "expiring"},
     order: Orders \cup {NoOrder}, call: Calls \cup {NoCall}, todo: SUBSET Orders]

HistoryEntry == [from: Statuses \cup {"absent"}, to: Statuses]

Waiting == {"reserving", "cancelling", "expiring"}

(* Every variable has its type, and only a handler that waits for product- *)
(* service has a call.                                                     *)
OrderTypeOK ==
    /\ status \in [Orders -> Statuses \cup {"absent"}]
    /\ deadline \in [Orders -> {"none", "ahead", "passed"}]
    /\ history \in [Orders -> Seq(HistoryEntry)]
    /\ cleared \subseteq Orders
    /\ lock \in [Orders -> Workers \cup {NoWorker}]
    /\ worker \in [Workers -> WorkerType]
    /\ \A w \in Workers :
          /\ worker[w].pc # "idle" => worker[w].order \in Orders
          /\ worker[w].pc \in Waiting <=> worker[w].call \in Calls

(* Every variable of the composition has its type.                         *)
TypeOK == InventoryTypeOK /\ OrderTypeOK

Init ==
    /\ InventoryInit
    /\ status = [o \in Orders |-> "absent"]
    /\ deadline = [o \in Orders |-> "none"]
    /\ history = [o \in Orders |-> <<>>]
    /\ cleared = {}
    /\ lock = [o \in Orders |-> NoWorker]
    /\ worker = [w \in Workers |-> IdleWorker]

-----------------------------------------------------------------------------
(* Rows, locks and calls                                                   *)

(* Fault: rows are read without FOR UPDATE.                                *)
NeverLocked(o) == TRUE

Unlocked(o) == lock[o] = NoWorker

LockedBy(w) == {o \in Orders : lock[o] = w}

(* Fault: the transition leaves no history entry.                          *)
TransitionUnlogged(os, from, to) ==
    /\ status' = [o \in Orders |-> IF o \in os THEN to[o] ELSE status[o]]
    /\ deadline' = [o \in Orders |->
                      IF o \in os /\ to[o] \notin ActiveReservationStatuses
                      THEN "none" ELSE deadline[o]]
    /\ UNCHANGED history

(* _transition_order for every order of os, and the commit.  from is the   *)
(* status the handler has in memory, which goes into the history.          *)
Transition(os, from, to) ==
    /\ status' = [o \in Orders |-> IF o \in os THEN to[o] ELSE status[o]]
    /\ deadline' = [o \in Orders |->
                      IF o \in os /\ to[o] \notin ActiveReservationStatuses
                      THEN "none" ELSE deadline[o]]
    /\ history' = [o \in Orders |->
                      IF o \in os
                      THEN Append(history[o], [from |-> from[o], to |-> to[o]])
                      ELSE history[o]]

(* The transaction ends, its locks are free.                               *)
Unlock(w) == lock' = [o \in Orders |-> IF lock[o] = w THEN NoWorker ELSE lock[o]]

(* The handler ends, and its transaction with it.                          *)
Finish(w) ==
    /\ Unlock(w)
    /\ worker' = [worker EXCEPT ![w] = IdleWorker]

(* Lock the rows of os and call product-service about o, one of them.      *)
LockAndCall(w, os, o, pc, c, op) ==
    /\ call[c].pc = "free"
    /\ Send(c, op, o)
    /\ lock' = [x \in Orders |-> IF x \in os THEN w ELSE lock[x]]
    /\ worker' = [worker EXCEPT ![w] =
                     [pc |-> pc, order |-> o, call |-> c,
                      todo |-> IF pc = "expiring" THEN os ELSE {}]]

Answered(w, pc, answers) ==
    /\ worker[w].pc = pc
    /\ call[worker[w].call].pc \in answers

-----------------------------------------------------------------------------
(* checkout                                                                *)

(* No order under this idempotency key, and no row to lock: ask for the    *)
(* cart.                                                                   *)
CheckoutMiss(w, o) ==
    /\ worker[w].pc = "idle"
    /\ status[o] = "absent"
    /\ worker' = [worker EXCEPT ![w].pc = "cart", ![w].order = o]
    /\ UNCHANGED <<inventoryVars, orderVars, lock, call>>

(* A retry of a checkout that did not get to the end of its reservation.   *)
CheckoutResume(w, o, c) ==
    /\ worker[w].pc = "idle"
    /\ Unlocked(o)
    /\ status[o] = "reserving_inventory"
    /\ LockAndCall(w, {o}, o, "reserving", c, "reserve")
    /\ UNCHANGED <<inventoryVars, orderVars>>

(* A retry of a checkout that is over is answered from the row.            *)
CheckoutReplay(o) ==
    /\ Unlocked(o)
    /\ status[o] \notin {"absent", "reserving_inventory"}
    /\ UNCHANGED <<inventoryVars, orderVars, handlerVars, call>>

(* The cart is in: insert the order, its first history entry and commit.   *)
CheckoutInsert(w) ==
    LET o == worker[w].order IN
    /\ worker[w].pc = "cart"
    /\ status[o] = "absent"
    /\ status' = [status EXCEPT ![o] = "reserving_inventory"]
    /\ deadline' = [deadline EXCEPT ![o] = "ahead"]
    /\ history' = [history EXCEPT ![o] =
                      <<[from |-> "absent", to |-> "reserving_inventory"]>>]
    /\ worker' = [worker EXCEPT ![w].pc = "inserted"]
    /\ UNCHANGED <<inventoryVars, cleared, lock, call>>

(* A duplicate request inserted first: IntegrityError, rollback.           *)
CheckoutCollide(w) ==
    /\ worker[w].pc = "cart"
    /\ status[worker[w].order] # "absent"
    /\ worker' = [worker EXCEPT ![w].pc = "collided"]
    /\ UNCHANGED <<inventoryVars, orderVars, lock, call>>

(* After its own insert the handler locks the row again, but keeps the     *)
(* object it inserted (expire_on_commit=False and no populate_existing):   *)
(* for this handler the status is "reserving_inventory" whatever the row   *)
(* says by now.                                                            *)
CheckoutRelock(w, c) ==
    LET o == worker[w].order IN
    /\ worker[w].pc = "inserted"
    /\ Unlocked(o)
    /\ LockAndCall(w, {o}, o, "reserving", c, "reserve")
    /\ UNCHANGED <<inventoryVars, orderVars>>

(* After a rollback the row is read afresh.                                *)
CheckoutReread(w, c) ==
    LET o == worker[w].order IN
    /\ worker[w].pc = "collided"
    /\ Unlocked(o)
    /\ \/ /\ status[o] = "reserving_inventory"
          /\ LockAndCall(w, {o}, o, "reserving", c, "reserve")
       \/ /\ status[o] # "reserving_inventory"
          /\ Finish(w)
          /\ UNCHANGED call
    /\ UNCHANGED <<inventoryVars, orderVars>>

(* Fault: a 409 of product-service is taken for success.                   *)
ReserveOkUnread(w) ==
    LET o == worker[w].order IN
    /\ Answered(w, "reserving", {"ok", "conflict"})
    /\ Transition({o}, [x \in {o} |-> "reserving_inventory"],
                  [x \in {o} |-> "pending_payment"])
    /\ UNCHANGED <<inventoryVars, cleared>>
    /\ Receive(worker[w].call)
    /\ Finish(w)

(* Fault: the cart is cleared before the order is committed.               *)
ReserveOkClearingFirst(w) ==
    LET o == worker[w].order IN
    /\ Answered(w, "reserving", {"ok"})
    /\ UNCHANGED inventoryVars
    /\ \/ /\ o \notin cleared
          /\ cleared' = cleared \cup {o}
          /\ UNCHANGED <<status, deadline, history, handlerVars, call>>
       \/ /\ o \in cleared
          /\ Transition({o}, [x \in {o} |-> "reserving_inventory"],
                        [x \in {o} |-> "pending_payment"])
          /\ Receive(worker[w].call)
          /\ Finish(w)
          /\ UNCHANGED cleared

(* _finalize_checkout after the reservation: the order is committed first. *)
ReserveOk(w) ==
    LET o == worker[w].order IN
    /\ Answered(w, "reserving", {"ok"})
    /\ Transition({o}, [x \in {o} |-> "reserving_inventory"],
                  [x \in {o} |-> "pending_payment"])
    /\ Receive(worker[w].call)
    /\ Unlock(w)
    /\ worker' = [worker EXCEPT ![w] = [IdleWorker EXCEPT !.pc = "clearing", !.order = o]]
    /\ UNCHANGED <<inventoryVars, cleared>>

(* Then the cart is cleared.  A clear that fails is ignored, one that timed*)
(* out may have been done.                                                 *)
ClearCart(w) ==
    /\ worker[w].pc = "clearing"
    /\ cleared' \in {cleared, cleared \cup {worker[w].order}}
    /\ Finish(w)
    /\ UNCHANGED <<inventoryVars, status, deadline, history, call>>

ReserveRefused(w) ==
    LET o == worker[w].order IN
    /\ Answered(w, "reserving", {"conflict"})
    /\ Transition({o}, [x \in {o} |-> "reserving_inventory"],
                  [x \in {o} |-> "checkout_failed"])
    /\ Receive(worker[w].call)
    /\ Finish(w)
    /\ UNCHANGED <<inventoryVars, cleared>>

-----------------------------------------------------------------------------
(* cancel_order and update_order_status                                    *)

CustomerCancel(w, o, c) ==
    /\ worker[w].pc = "idle"
    /\ Unlocked(o)
    /\ status[o] = "pending_payment"
    /\ LockAndCall(w, {o}, o, "cancelling", c, "release")
    /\ UNCHANGED <<inventoryVars, orderVars>>

AdminCancel(w, o, c) ==
    /\ worker[w].pc = "idle"
    /\ Unlocked(o)
    /\ status[o] \in Statuses
    /\ "cancelled" \in Transitions[status[o]]
    /\ LockAndCall(w, {o}, o, "cancelling", c, "release")
    /\ UNCHANGED <<inventoryVars, orderVars>>

(* A release is done when product-service says so or knows no reservation. *)
CancelCommit(w) ==
    LET o == worker[w].order IN
    /\ Answered(w, "cancelling", {"ok", "missing"})
    /\ Transition({o}, status, [x \in {o} |-> "cancelled"])
    /\ Receive(worker[w].call)
    /\ Finish(w)
    /\ UNCHANGED <<inventoryVars, cleared>>

(* Fault: an administrator cancels without a release.                      *)
AdminTransitionAny(o, to) ==
    /\ Unlocked(o)
    /\ status[o] \in Statuses
    /\ to \in Transitions[status[o]]
    /\ Transition({o}, status, [x \in {o} |-> to])
    /\ UNCHANGED <<inventoryVars, cleared, handlerVars, call>>

AdminTransition(o, to) ==
    /\ Unlocked(o)
    /\ status[o] \in Statuses
    /\ to \in Transitions[status[o]] \ {"cancelled"}
    /\ Transition({o}, status, [x \in {o} |-> to])
    /\ UNCHANGED <<inventoryVars, cleared, handlerVars, call>>

-----------------------------------------------------------------------------
(* expire_reservations                                                     *)

(* Fault: SKIP LOCKED is forgotten and locked rows are taken.              *)
ExpiredOrLocked ==
    {o \in Orders : /\ status[o] \in ActiveReservationStatuses
                    /\ deadline[o] = "passed"}

Expired ==
    {o \in Orders : /\ status[o] \in ActiveReservationStatuses
                    /\ deadline[o] = "passed"
                    /\ Unlocked(o)}              \* SKIP LOCKED

ExpireBegin(w, batch, o, c) ==
    /\ worker[w].pc = "idle"
    /\ batch \subseteq Expired
    /\ Cardinality(batch) <= BatchLimit
    /\ batch = Expired \/ Cardinality(batch) = BatchLimit
    /\ o \in batch
    /\ LockAndCall(w, batch, o, "expiring", c, "release")
    /\ UNCHANGED <<inventoryVars, orderVars>>

ExpireNext(w, o) ==
    LET rest == worker[w].todo \ {worker[w].order} IN
    /\ Answered(w, "expiring", {"ok", "missing"})
    /\ o \in rest
    /\ Send(worker[w].call, "release", o)
    /\ worker' = [worker EXCEPT ![w].order = o, ![w].todo = rest]
    /\ UNCHANGED <<inventoryVars, orderVars, lock>>

(* Fault: a reservation that does not exist counts as a failed release.    *)
ExpireCommitStrict(w) ==
    /\ Answered(w, "expiring", {"ok"})
    /\ worker[w].todo = {worker[w].order}
    /\ Transition(LockedBy(w), status,
                  [o \in LockedBy(w) |-> IF status[o] = "reserving_inventory"
                                         THEN "checkout_failed" ELSE "cancelled"])
    /\ Receive(worker[w].call)
    /\ Finish(w)
    /\ UNCHANGED <<inventoryVars, cleared>>

(* One commit for the whole batch: an Abort before it leaves every order   *)
(* of the batch active, those already released included.                   *)
ExpireCommit(w) ==
    /\ Answered(w, "expiring", {"ok", "missing"})
    /\ worker[w].todo = {worker[w].order}
    /\ Transition(LockedBy(w), status,
                  [o \in LockedBy(w) |-> IF status[o] = "reserving_inventory"
                                         THEN "checkout_failed" ELSE "cancelled"])
    /\ Receive(worker[w].call)
    /\ Finish(w)
    /\ UNCHANGED <<inventoryVars, cleared>>

-----------------------------------------------------------------------------
(* The environment                                                         *)

(* The handler ends, its transaction is rolled back, its call is orphaned. *)
Abort(w) ==
    /\ worker[w].pc # "idle"
    /\ Finish(w)
    /\ UNCHANGED <<inventoryVars, orderVars, call>>

Orphaned(c) == \A w \in Workers : worker[w].call # c

(* Nobody reads the answer to an orphaned call, or the call itself is lost.*)
(* A call that is lost while its handler waits is Abort followed by this.  *)
OrphanEnds(c) ==
    /\ Orphaned(c)
    /\ Receive(c) \/ Lose(c)
    /\ UNCHANGED <<inventoryVars, orderVars, handlerVars>>

DeadlinePasses(o) ==
    /\ deadline[o] = "ahead"
    /\ deadline' = [deadline EXCEPT ![o] = "passed"]
    /\ UNCHANGED <<inventoryVars, status, history, cleared, handlerVars, call>>

-----------------------------------------------------------------------------

Checkout ==
    \/ \E w \in Workers, o \in Orders : CheckoutMiss(w, o)
    \/ \E w \in Workers, o \in Orders, c \in Calls : CheckoutResume(w, o, c)
    \/ \E o \in Orders : CheckoutReplay(o)
    \/ \E w \in Workers : CheckoutInsert(w) \/ CheckoutCollide(w)
    \/ \E w \in Workers, c \in Calls : CheckoutRelock(w, c) \/ CheckoutReread(w, c)
    \/ \E w \in Workers : ReserveOk(w) \/ ReserveRefused(w) \/ ClearCart(w)

Manage ==
    \/ \E w \in Workers, o \in Orders, c \in Calls :
          CustomerCancel(w, o, c) \/ AdminCancel(w, o, c)
    \/ \E w \in Workers : CancelCommit(w)
    \/ \E o \in Orders, to \in AdminTargets : AdminTransition(o, to)

Expire ==
    \/ \E w \in Workers, batch \in SUBSET Orders, o \in Orders, c \in Calls :
          ExpireBegin(w, batch, o, c)
    \/ \E w \in Workers, o \in Orders : ExpireNext(w, o)
    \/ \E w \in Workers : ExpireCommit(w)

Environment ==
    \/ \E w \in Workers : Abort(w)
    \/ \E c \in Calls : OrphanEnds(c)
    \/ \E o \in Orders : DeadlinePasses(o)

(* product-service, between any two steps of the handlers.                 *)
ProductServes(c) ==
    /\ ReserveLookup(c) \/ ReserveCommit(c) \/ Release(c)
    /\ UNCHANGED <<orderVars, handlerVars>>

Product ==
    \/ \E c \in Calls : ProductServes(c)
    \/ Administer /\ UNCHANGED <<orderVars, handlerVars>>

Next == Checkout \/ Manage \/ Expire \/ Environment \/ Product

Spec == Init /\ [][Next]_vars

(* A handler that can go on does; product-service answers what it was sent *)
(* and an answer nobody waits for goes away; a lock that becomes free again*)
(* and again is granted in the end, PostgreSQL queues its waiters; the     *)
(* scheduled caller of expire-reservations comes back until no expired     *)
(* order is left.  Nobody has to retry, cancel or confirm anything.        *)
Fairness ==
    /\ \A c \in Calls : WF_vars(OrphanEnds(c))
    /\ \A c \in Calls : WF_vars(ProductServes(c))
    /\ \A o \in Orders : WF_vars(DeadlinePasses(o))
    /\ \A w \in Workers :
          /\ WF_vars(CheckoutInsert(w) \/ CheckoutCollide(w))
          /\ SF_vars(\E c \in Calls : CheckoutRelock(w, c) \/ CheckoutReread(w, c))
          /\ WF_vars(ReserveOk(w) \/ ReserveRefused(w) \/ CancelCommit(w))
          /\ WF_vars(ClearCart(w))
          /\ WF_vars((\E o \in Orders : ExpireNext(w, o)) \/ ExpireCommit(w))
    /\ SF_vars(\E w \in Workers, batch \in SUBSET Orders, o \in Orders, c \in Calls :
                   ExpireBegin(w, batch, o, c))

LiveSpec == Spec /\ Fairness
-----------------------------------------------------------------------------
(* Properties                                                              *)

Backed == {"pending_payment", "confirmed", "processing", "shipped", "delivered",
           "cancelled"}

(* An order that left checkout successfully has had its stock taken: no    *)
(* interleaving of retries, duplicates, late calls, cancellations and      *)
(* expiry lets an order reach payment without a reservation row.           *)
OrdersBacked == \A o \in Orders : status[o] \in Backed => reservation[o] # "none"

(* A cancelled order has given its stock back, whoever cancelled it and    *)
(* whatever calls about it are still under way.                            *)
CancelledReleased ==
    \A o \in Orders : status[o] = "cancelled" => reservation[o] = "released"

Clearing == {o \in Orders : \E w \in Workers :
                worker[w].pc = "clearing" /\ worker[w].order = o}

(* The cart is emptied only after the order was committed with its stock   *)
(* taken: there is a reservation, and the history shows that the order     *)
(* reached payment, wherever it went between the commit and the clear.     *)
ClearedOrdersReserved ==
    \A o \in cleared \cup Clearing :
       /\ reservation[o] # "none"
       /\ \E i \in DOMAIN history[o] : history[o][i].to = "pending_payment"

(* The audit trail starts with the insert and ends with the status of the  *)
(* row: no transition is written without its entry or the reverse.         *)
HistoryEndsInStatus ==
    \A o \in Orders :
       IF status[o] = "absent"
       THEN history[o] = <<>>
       ELSE /\ history[o] # <<>>
            /\ history[o][1] = [from |-> "absent", to |-> "reserving_inventory"]
            /\ history[o][Len(history[o])].to = status[o]

(* The row lock serialises the handlers: two handlers never wait for       *)
(* product-service about the same order, and an order in an expiry batch   *)
(* is in no other handler's hands.                                         *)
OneHandlerPerOrder ==
    \A w1, w2 \in Workers : \A o \in Orders :
       /\ worker[w1].pc \in Waiting /\ o \in worker[w1].todo \cup {worker[w1].order}
       /\ worker[w2].pc \in Waiting /\ o \in worker[w2].todo \cup {worker[w2].order}
       => w1 = w2

(* The call a handler waits for is its own, is about the order it works on,*)
(* and "no such reservation" is never the answer about an order that has   *)
(* reached payment.                                                        *)
CallsOwned ==
    \A w \in Workers : worker[w].pc \in Waiting =>
       LET k == call[worker[w].call] IN
       /\ k.order = worker[w].order
       /\ k.op = (IF worker[w].pc = "reserving" THEN "reserve" ELSE "release")
       /\ k.pc # "free"
       /\ k.op = "release" /\ k.pc = "missing" => status[k.order] \notin Backed
       /\ \A x \in Workers \ {w} : worker[x].call # worker[w].call

(* What a handler saw of a row when it locked it stays so until it commits.*)
RowsLocked ==
    /\ \A o \in Orders : lock[o] # NoWorker =>
          /\ status[o] # "absent"
          /\ worker[lock[o]].pc \in Waiting
          /\ worker[lock[o]].pc # "expiring" => o = worker[lock[o]].order
    /\ \A w \in Workers :
          /\ worker[w].pc = "inserted" => status[worker[w].order] # "absent"
          /\ worker[w].pc \in Waiting =>
                lock[worker[w].order] = w /\ worker[w].todo \subseteq LockedBy(w)
          /\ worker[w].pc = "cancelling" =>
                status[worker[w].order] \in {"pending_payment", "confirmed"}
          /\ worker[w].pc = "expiring" =>
                /\ worker[w].order \in worker[w].todo
                /\ \A o \in LockedBy(w) : status[o] \in ActiveReservationStatuses

(* The orders an expiry batch is done with have given their stock back.    *)
BatchReleased ==
    \A w \in Workers : worker[w].pc = "expiring" =>
       \A o \in LockedBy(w) \ worker[w].todo :
          status[o] = "pending_payment" => reservation[o] = "released"

(* The inductive invariant behind OrdersBacked, CancelledReleased and      *)
(* OneHandlerPerOrder: what answers, locks and calls guarantee between the *)
(* steps of a handler.                                                     *)
IInv ==
    /\ TypeOK
    /\ AnswersHold
    /\ OrdersBacked
    /\ CancelledReleased
    /\ CallsOwned
    /\ RowsLocked
    /\ BatchReleased

Downstream == {"confirmed", "processing", "shipped", "delivered", "cancelled"}

(* Fulfilment and cancellation are entered only along TRANSITIONS, by any  *)
(* handler: what one handler decided on holds until its commit.            *)
EntryAlongTransitions ==
    [][\A o \in Orders :
          status'[o] # status[o] /\ status'[o] \in Downstream =>
             status[o] \in Statuses /\ status'[o] \in Transitions[status[o]]]_vars

(* Handlers stop failing at some time.                                     *)
FaultsCease == <>[][\A w \in Workers : ~Abort(w)]_vars

(* Reservation recovery: whatever calls were lost and whatever handlers    *)
(* died before, once they stop doing so every order that has a deadline    *)
(* leaves checkout and payment, by being confirmed, refused or expired.    *)
ExpiryCompletes ==
    FaultsCease => \A o \in Orders : deadline[o] # "none" ~> deadline[o] = "none"

=============================================================================
