------------------------------ MODULE MCOrders ------------------------------
(* OrderService for TLC.  Every order asks for one unit of every variant.  *)
EXTENDS OrderService, FiniteSetsExt, TLC

CONSTANT Stock   \* units of every variant at the start

MCQty == [o \in Orders |-> [v \in Variants |-> 1]]
MCInitStock == [v \in Variants |-> Stock]

Slots == Permutations(Workers) \cup Permutations(Calls)
SlotsAndOrders == Slots \cup Permutations(Orders)

-----------------------------------------------------------------------------
(* Statements of the documentation that the code does not keep             *)

Fulfilled == {"confirmed", "processing", "shipped", "delivered"}

Sold(v) ==
    MapThenSumSet(LAMBDA o : IF status[o] \in Fulfilled \ {"confirmed"} THEN Qty[o][v] ELSE 0, Orders)

(* "inventory reservations prevent overselling"                            *)
(* (docs/architecture/system-overview.md:87): the orders past the point    *)
(* where they can be cancelled never add up to more than there was, when   *)
(* nobody adds stock.                                                      *)
NoOversell == \A v \in Variants : Sold(v) <= InitStock[v]

OrderGraph ==
    [s \in Statuses \cup {"absent"} |->
        CASE s = "absent"              -> {"reserving_inventory"}
          [] s = "reserving_inventory" -> {"pending_payment", "checkout_failed"}
          [] OTHER                     -> Transitions[s]]

(* The order lifecycle (docs/architecture/order-service.md:32-36): an order*)
(* leaves a status only along the graph, so a confirmed, shipped or        *)
(* cancelled order never returns to pending_payment or to checkout_failed. *)
LifecycleGraph ==
    [][\A o \in Orders : status'[o] # status[o] => status'[o] \in OrderGraph[status[o]]]_vars

(* "failed dependency calls leave the order eligible for a later retry"    *)
(* (docs/architecture/system-overview.md:91): when no call about an order  *)
(* is under way any more and its reservation still holds stock, the order  *)
(* is in a status from which a retry, an expiry or a cancellation can give *)
(* the stock back, or it is being fulfilled.                               *)
HoldsRecoverable ==
    \A o \in Orders :
       reservation[o] = "reserved" /\ (\A c \in Calls : call[c].order # o) =>
          status[o] \in ActiveReservationStatuses \cup Fulfilled
=============================================================================
