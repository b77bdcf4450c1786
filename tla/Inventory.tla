----------------------------- MODULE Inventory ------------------------------
(***************************************************************************)
(* The inventory reservations of product-service: the handlers             *)
(* reserve_inventory and release_inventory, and the administrator's writes *)
(* to the columns they read.                                               *)
(*                                                                         *)
(* A handler is split where another transaction can run: reserve_inventory *)
(* looks its reservation up without a lock (ReserveLookup) and does the    *)
(* rest in one transaction that holds the locks of all its variants        *)
(* (ReserveCommit).  release_inventory locks before it reads, so it is one *)
(* step.  A caller may stop waiting at any time and its request still runs.*)
(***************************************************************************)
EXTENDS Naturals, FiniteSets

CONSTANTS
    Variants,      \* product variants
    Orders,        \* orders, each the id of at most one reservation
    Calls,         \* slots for HTTP calls that are in flight
    NoOrder,       \* the order of a free slot
    Qty,           \* Qty[o][v]: quantity of v in order o, 0 when absent
    InitStock,     \* stock_quantity of every variant at the start
    StockLevels,   \* the stock_quantity values an administrator may write
    Delistable     \* the variants an administrator may (de)activate

ASSUME NoOrderAssumption == NoOrder \notin Orders

ASSUME QtyAssumption == Qty \in [Orders -> [Variants -> Nat]]

ASSUME StockAssumption ==
    /\ InitStock \in [Variants -> Nat]
    /\ StockLevels \subseteq Nat
    /\ Delistable \subseteq Variants

VARIABLES
    stock,         \* product_variants.stock_quantity
    sellable,      \* variant, product and category are all active
    reservation,   \* inventory_reservations.status, "none" when no row
    call           \* the HTTP call in each slot

inventoryVars == <<stock, sellable, reservation>>
invVars == <<stock, sellable, reservation, call>>

Free == [op |-> "none", order |-> NoOrder, pc |-> "free"]

Answers == {"ok", "conflict", "missing"}

CallType ==
    [op: {"none", "reserve", "release"}, order: Orders \cup {NoOrder},
     pc: {"free", "sent", "checked"} \cup Answers]

(* Every variable has its type; stock is never negative, the check         *)
(* constraint of product_variants.                                         *)
InventoryTypeOK ==
    /\ stock \in [Variants -> Nat]
    /\ sellable \in [Variants -> BOOLEAN]
    /\ reservation \in [Orders -> {"none", "reserved", "released"}]
    /\ call \in [Calls -> CallType]
    /\ \A c \in Calls : call[c].pc # "free" => call[c].order \in Orders

InventoryInit ==
    /\ stock = InitStock
    /\ sellable = [v \in Variants |-> TRUE]
    /\ reservation = [o \in Orders |-> "none"]
    /\ call = [c \in Calls |-> Free]

-----------------------------------------------------------------------------
(* Callers.  A slot is reused once its caller has read the answer.         *)

Send(c, op, o) ==
    /\ call[c].pc \in Answers \cup {"free"}
    /\ call' = [call EXCEPT ![c] = [op |-> op, order |-> o, pc |-> "sent"]]

Receive(c) ==
    /\ call[c].pc \in Answers
    /\ call' = [call EXCEPT ![c] = Free]

(* The request is lost, or its handler dies before it commits.             *)
Lose(c) ==
    /\ call[c].pc \in {"sent", "checked"}
    /\ call' = [call EXCEPT ![c] = Free]

Answer(c, a) == call' = [call EXCEPT ![c].pc = a]

-----------------------------------------------------------------------------
(* reserve_inventory                                                       *)

(* Fault: the quantity is not compared with the stock.                     *)
AvailableUncounted(o) == \A v \in Variants : Qty[o][v] > 0 => sellable[v]

Available(o) ==
    \A v \in Variants : Qty[o][v] > 0 => sellable[v] /\ stock[v] >= Qty[o][v]

ReserveLookup(c) ==
    /\ call[c].op = "reserve"
    /\ call[c].pc = "sent"
    /\ Answer(c, CASE reservation[call[c].order] = "none"     -> "checked"
                   [] reservation[call[c].order] = "reserved" -> "ok"
                   [] OTHER                                   -> "conflict")
    /\ UNCHANGED inventoryVars

Decrement(o) == stock' = [v \in Variants |-> stock[v] - Qty[o][v]]

(* Fault: no unique reservation id, every reserve takes the stock again.   *)
ReserveCommitAgain(c) ==
    LET o == call[c].order IN
    /\ call[c].op = "reserve"
    /\ call[c].pc = "checked"
    /\ Available(o)
    /\ Decrement(o)
    /\ reservation' = [reservation EXCEPT ![o] = "reserved"]
    /\ Answer(c, "ok")
    /\ UNCHANGED sellable

(* The stock check comes before the insert: a second reserve of the same   *)
(* order that finds the stock gone is refused, though its order holds it.  *)
ReserveCommit(c) ==
    LET o == call[c].order IN
    /\ call[c].op = "reserve"
    /\ call[c].pc = "checked"
    /\ \/ /\ ~Available(o)
          /\ Answer(c, "conflict")
          /\ UNCHANGED inventoryVars
       \/ /\ Available(o)
          /\ reservation[o] = "none"
          /\ Decrement(o)
          /\ reservation' = [reservation EXCEPT ![o] = "reserved"]
          /\ Answer(c, "ok")
          /\ UNCHANGED sellable
       \/ /\ Available(o)              \* IntegrityError: rolled back
          /\ reservation[o] # "none"
          /\ Answer(c, IF reservation[o] = "reserved" THEN "ok" ELSE "conflict")
          /\ UNCHANGED inventoryVars

-----------------------------------------------------------------------------
(* release_inventory                                                       *)

Increment(o) == stock' = [v \in Variants |-> stock[v] + Qty[o][v]]

(* Fault: an unknown reservation is answered ok.                           *)
ReleaseUnknown(c) ==
    /\ call[c].op = "release"
    /\ call[c].pc = "sent"
    /\ reservation[call[c].order] = "none"
    /\ Answer(c, "ok")
    /\ UNCHANGED inventoryVars

(* Fault: the status is not looked at, a second release adds stock again.  *)
ReleaseAgain(c) ==
    LET o == call[c].order IN
    /\ call[c].op = "release"
    /\ call[c].pc = "sent"
    /\ reservation[o] # "none"
    /\ Increment(o)
    /\ reservation' = [reservation EXCEPT ![o] = "released"]
    /\ Answer(c, "ok")
    /\ UNCHANGED sellable

Release(c) ==
    LET o == call[c].order IN
    /\ call[c].op = "release"
    /\ call[c].pc = "sent"
    /\ \/ /\ reservation[o] = "none"
          /\ Answer(c, "missing")
          /\ UNCHANGED inventoryVars
       \/ /\ reservation[o] = "released"
          /\ Answer(c, "ok")
          /\ UNCHANGED inventoryVars
       \/ /\ reservation[o] = "reserved"
          /\ Increment(o)
          /\ reservation' = [reservation EXCEPT ![o] = "released"]
          /\ Answer(c, "ok")
          /\ UNCHANGED sellable

-----------------------------------------------------------------------------
(* The administrator: update_variant writes an absolute stock_quantity;    *)
(* the archive and update endpoints change the three active flags.         *)

SetStock(v, n) ==
    /\ stock' = [stock EXCEPT ![v] = n]
    /\ UNCHANGED <<sellable, reservation, call>>

SetSellable(v) ==
    /\ sellable' = [sellable EXCEPT ![v] = ~@]
    /\ UNCHANGED <<stock, reservation, call>>

-----------------------------------------------------------------------------

Serve == \E c \in Calls : ReserveLookup(c) \/ ReserveCommit(c) \/ Release(c)

Administer ==
    \/ \E v \in Variants, n \in StockLevels : SetStock(v, n)
    \/ \E v \in Delistable : SetSellable(v)

(* The callers, with nothing assumed of them.                              *)
AnyCaller ==
    /\ \E c \in Calls :
          \/ \E o \in Orders, op \in {"reserve", "release"} : Send(c, op, o)
          \/ Receive(c)
          \/ Lose(c)
    /\ UNCHANGED inventoryVars

InventoryNext == Serve \/ Administer \/ AnyCaller

InventorySpec == InventoryInit /\ [][InventoryNext]_invVars

-----------------------------------------------------------------------------
(* Properties                                                              *)

(* The handlers' lookups, locks and IntegrityError branch make every       *)
(* reservation atomic, taken at most once and returned at most once,       *)
(* however many duplicates of the two calls run at the same time.          *)
Ledger == INSTANCE HoldLedger WITH free <- stock, hold <- reservation
LedgerSpec == Ledger!Spec

(* An answer stays true until its caller reads it, however late that is:   *)
(* after a reserve answered ok the order has had its stock, after a        *)
(* release answered ok it holds none and never will again.                 *)
AnswersHold ==
    \A c \in Calls :
       call[c].pc = "ok" =>
          CASE call[c].op = "reserve" -> reservation[call[c].order] # "none"
            [] call[c].op = "release" -> reservation[call[c].order] = "released"
            [] OTHER -> FALSE

(* The units of v that orders hold, each under the number it has in its    *)
(* order: a sum of quantities that can be counted.                         *)
HeldUnits(v) ==
    UNION {{o} \X (1..Qty[o][v]) : o \in {p \in Orders : reservation[p] = "reserved"}}

(* No unit is lost or made up: what is on the shelf and what is held add   *)
(* up to the initial stock while no administrator writes stock_quantity.   *)
StockConserved ==
    \A v \in Variants : stock[v] + Cardinality(HeldUnits(v)) = InitStock[v]
=============================================================================
