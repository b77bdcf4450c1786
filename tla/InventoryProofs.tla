-------------------------- MODULE InventoryProofs ---------------------------
(* Proofs about Inventory, for all variants, orders, quantities and calls. *)
EXTENDS Inventory, FiniteSetTheorems, TLAPS

(* An order whose items are available can be taken off the shelf: no       *)
(* decrement of reserve_inventory makes a stock_quantity negative.         *)
LEMMA DecrementStaysNat ==
  ASSUME InventoryTypeOK, NEW o \in Orders, Available(o), Decrement(o)
  PROVE  /\ \A v \in Variants : stock[v] >= Qty[o][v]
         /\ stock' \in [Variants -> Nat]
<1>1. ASSUME NEW v \in Variants
      PROVE  stock[v] >= Qty[o][v] /\ stock[v] - Qty[o][v] \in Nat
  <2>1. stock[v] \in Nat /\ Qty[o][v] \in Nat
    BY QtyAssumption DEF InventoryTypeOK
  <2>2. CASE Qty[o][v] > 0
    BY <2>1, <2>2 DEF Available
  <2>3. CASE ~(Qty[o][v] > 0)
    BY <2>1, <2>3
  <2> QED BY <2>2, <2>3
<1> QED BY <1>1 DEF Decrement

(* An answer keeps the call well typed.                                    *)
LEMMA AnswerTyped ==
  ASSUME InventoryTypeOK, NEW c \in Calls, call[c].pc # "free",
         NEW a \in Answers \cup {"checked"}, Answer(c, a)
  PROVE  /\ call' \in [Calls -> CallType]
         /\ \A d \in Calls : call'[d].pc # "free" => call'[d].order \in Orders
BY DEF InventoryTypeOK, Answer, CallType, Answers

(* A step of a handler of product-service keeps the types.                 *)
LEMMA ServeTyped ==
  ASSUME InventoryTypeOK, NEW c \in Calls,
         ReserveLookup(c) \/ ReserveCommit(c) \/ Release(c)
  PROVE  InventoryTypeOK'
<1> DEFINE o == call[c].order
<1>1. call[c].pc # "free" /\ o \in Orders
  BY DEF InventoryTypeOK, ReserveLookup, ReserveCommit, Release
<1>2. CASE ReserveLookup(c)
  <2>1. PICK a \in Answers \cup {"checked"} : Answer(c, a)
    BY <1>2 DEF ReserveLookup, Answers
  <2> QED BY <1>1, <1>2, <2>1, AnswerTyped
          DEF ReserveLookup, InventoryTypeOK, inventoryVars
<1>3. CASE ReserveCommit(c)
  <2>1. PICK a \in Answers \cup {"checked"} : Answer(c, a)
    BY <1>3 DEF ReserveCommit, Answers
  <2>2. stock' \in [Variants -> Nat]
    <3>1. CASE stock' = stock
      BY <3>1 DEF InventoryTypeOK
    <3>2. CASE Available(o) /\ Decrement(o)
      BY <1>1, <3>2, DecrementStaysNat
    <3> QED BY <1>3, <3>1, <3>2 DEF ReserveCommit, inventoryVars
  <2> QED BY <1>1, <1>3, <2>1, <2>2, AnswerTyped
          DEF ReserveCommit, InventoryTypeOK, inventoryVars
<1>4. CASE Release(c)
  <2>1. PICK a \in Answers \cup {"checked"} : Answer(c, a)
    BY <1>4 DEF Release, Answers
  <2>2. stock' \in [Variants -> Nat]
    <3>1. CASE stock' = stock
      BY <3>1 DEF InventoryTypeOK
    <3>2. CASE Increment(o)
      BY <1>1, <3>2, QtyAssumption DEF Increment, InventoryTypeOK
    <3> QED BY <1>4, <3>1, <3>2 DEF Release, inventoryVars
  <2> QED BY <1>1, <1>4, <2>1, <2>2, AnswerTyped
          DEF Release, InventoryTypeOK, inventoryVars
<1> QED BY <1>2, <1>3, <1>4

(* Whatever its callers do, product-service keeps its types; stock is never*)
(* negative.                                                               *)
LEMMA InventoryStepTyped ==
  ASSUME InventoryTypeOK, [InventoryNext]_invVars
  PROVE  InventoryTypeOK'
<1>1. CASE Serve
  BY <1>1, ServeTyped DEF Serve
<1>2. CASE Administer
  <2>1. ASSUME NEW v \in Variants, NEW n \in StockLevels, SetStock(v, n)
        PROVE  InventoryTypeOK'
    BY <2>1, StockAssumption DEF SetStock, InventoryTypeOK
  <2>2. ASSUME NEW v \in Delistable, SetSellable(v)
        PROVE  InventoryTypeOK'
    BY <2>2, StockAssumption DEF SetSellable, InventoryTypeOK
  <2> QED BY <1>2, <2>1, <2>2 DEF Administer
<1>3. CASE AnyCaller
  <2>1. /\ call' \in [Calls -> CallType]
        /\ \A d \in Calls : call'[d].pc # "free" => call'[d].order \in Orders
    BY <1>3 DEF AnyCaller, Send, Receive, Lose, Free, InventoryTypeOK, CallType, Answers
  <2> QED BY <1>3, <2>1 DEF AnyCaller, InventoryTypeOK, inventoryVars
<1>4. CASE UNCHANGED invVars
  BY <1>4 DEF invVars, InventoryTypeOK
<1> QED BY <1>1, <1>2, <1>3, <1>4 DEF InventoryNext

(* Type correctness of product-service's reservations, with stock >= 0.    *)
THEOREM InventoryTypeCorrect == InventorySpec => []InventoryTypeOK
<1>1. InventoryInit => InventoryTypeOK
  BY StockAssumption DEF InventoryInit, InventoryTypeOK, Free, CallType
<1> QED BY <1>1, InventoryStepTyped, PTL DEF InventorySpec

-----------------------------------------------------------------------------
(* Reservations only move forward: none, reserved, released.               *)
LEMMA ReservationForward ==
  ASSUME InventoryTypeOK, [InventoryNext]_invVars, NEW o \in Orders
  PROVE  /\ reservation[o] # "none" => reservation'[o] # "none"
         /\ reservation[o] = "released" => reservation'[o] = "released"
<1>1. CASE Serve
  <2>1. PICK c \in Calls : ReserveLookup(c) \/ ReserveCommit(c) \/ Release(c)
    BY <1>1 DEF Serve
  <2>2. call[c].order \in Orders /\ reservation \in [Orders -> {"none", "reserved", "released"}]
    BY <2>1 DEF InventoryTypeOK, ReserveLookup, ReserveCommit, Release
  <2>3. CASE reservation' = reservation
    BY <2>3
  <2>4. CASE /\ reservation[call[c].order] = "none"
             /\ reservation' = [reservation EXCEPT ![call[c].order] = "reserved"]
    BY <2>2, <2>4
  <2>5. CASE /\ reservation[call[c].order] = "reserved"
             /\ reservation' = [reservation EXCEPT ![call[c].order] = "released"]
    BY <2>2, <2>5
  <2> QED BY <2>1, <2>3, <2>4, <2>5
          DEF ReserveLookup, ReserveCommit, Release, inventoryVars
<1>2. CASE reservation' = reservation
  BY <1>2
<1> QED BY <1>1, <1>2
        DEF InventoryNext, Administer, SetStock, SetSellable, AnyCaller,
            inventoryVars, invVars

(* The answers of a step are true when they are given.                     *)
LEMMA AnswersHoldStep ==
  ASSUME InventoryTypeOK, AnswersHold, [InventoryNext]_invVars
  PROVE  AnswersHold'
<1> USE DEF AnswersHold
<1>1. CASE Serve
  <2>1. PICK c \in Calls : ReserveLookup(c) \/ ReserveCommit(c) \/ Release(c)
    BY <1>1 DEF Serve
  <2>2. /\ call[c].order \in Orders /\ call[c] \in CallType
        /\ call \in [Calls -> CallType]
        /\ reservation \in [Orders -> {"none", "reserved", "released"}]
    BY <2>1 DEF InventoryTypeOK, ReserveLookup, ReserveCommit, Release
  <2>3. ASSUME NEW d \in Calls, d # c, call'[d].pc = "ok"
        PROVE  CASE call'[d].op = "reserve" -> reservation'[call'[d].order] # "none"
                 [] call'[d].op = "release" -> reservation'[call'[d].order] = "released"
                 [] OTHER -> FALSE
    <3>1. call'[d] = call[d]
      BY <2>1, <2>2, <2>3 DEF ReserveLookup, ReserveCommit, Release, Answer
    <3>2. call[d].order \in Orders
      BY <2>3, <3>1 DEF InventoryTypeOK
    <3> QED BY <2>3, <3>1, <3>2, ReservationForward
  <2>4. ASSUME call'[c].pc = "ok"
        PROVE  CASE call'[c].op = "reserve" -> reservation'[call'[c].order] # "none"
                 [] call'[c].op = "release" -> reservation'[call'[c].order] = "released"
                 [] OTHER -> FALSE
    <3>1. CASE ReserveLookup(c)
      BY <2>2, <2>4, <3>1 DEF ReserveLookup, Answer, CallType, inventoryVars
    <3>2. CASE ReserveCommit(c)
      BY <2>2, <2>4, <3>2 DEF ReserveCommit, Answer, CallType, inventoryVars
    <3>3. CASE Release(c)
      BY <2>2, <2>4, <3>3 DEF Release, Answer, CallType, inventoryVars
    <3> QED BY <2>1, <3>1, <3>2, <3>3
  <2> QED BY <2>3, <2>4
<1>2. CASE Administer
  BY <1>2 DEF Administer, SetStock, SetSellable
<1>3. CASE AnyCaller
  BY <1>3 DEF AnyCaller, Send, Receive, Lose, Free, inventoryVars, InventoryTypeOK, Answers
<1>4. CASE UNCHANGED invVars
  BY <1>4 DEF invVars
<1> QED BY <1>1, <1>2, <1>3, <1>4 DEF InventoryNext

(* A caller may rely on an answer however late it reads it.                *)
THEOREM AnswersStayTrue == InventorySpec => []AnswersHold
<1>1. InventoryInit => AnswersHold
  BY DEF InventoryInit, AnswersHold, Free
<1> QED BY <1>1, InventoryTypeCorrect, AnswersHoldStep, PTL DEF InventorySpec

-----------------------------------------------------------------------------
(* Every step of product-service is a step of the ledger or changes none of*)
(* its variables.                                                          *)
LEMMA LedgerStep ==
  ASSUME InventoryTypeOK, [InventoryNext]_invVars
  PROVE  [Ledger!Next]_(Ledger!vars)
<1> USE DEF Ledger!vars
<1>1. CASE Serve
  <2>1. PICK c \in Calls : ReserveLookup(c) \/ ReserveCommit(c) \/ Release(c)
    BY <1>1 DEF Serve
  <2>2. call[c].order \in Orders
    BY <2>1 DEF InventoryTypeOK, ReserveLookup, ReserveCommit, Release
  <2>3. CASE UNCHANGED inventoryVars
    BY <2>3 DEF inventoryVars
  <2>4. CASE /\ ReserveCommit(c)
             /\ ~UNCHANGED inventoryVars
    <3>1. /\ Available(call[c].order) /\ Decrement(call[c].order)
          /\ reservation[call[c].order] = "none"
          /\ reservation' = [reservation EXCEPT ![call[c].order] = "reserved"]
      BY <2>4 DEF ReserveCommit
    <3>2. Ledger!Take(call[c].order)
      BY <2>2, <3>1, DecrementStaysNat DEF Ledger!Take, Decrement
    <3> QED BY <2>2, <3>2 DEF Ledger!Next
  <2>5. CASE /\ Release(c)
             /\ ~UNCHANGED inventoryVars
    <3>1. Ledger!Return(call[c].order)
      BY <2>5 DEF Release, Increment, Ledger!Return
    <3> QED BY <2>2, <3>1 DEF Ledger!Next
  <2> QED BY <2>1, <2>3, <2>4, <2>5 DEF ReserveLookup
<1>2. CASE Administer
  <2>1. ASSUME NEW v \in Variants, NEW n \in StockLevels, SetStock(v, n)
        PROVE  Ledger!Next
    BY <2>1 DEF SetStock, Ledger!Next, Ledger!Restock
  <2> QED BY <1>2, <2>1 DEF Administer, SetSellable
<1>3. CASE AnyCaller
  BY <1>3 DEF AnyCaller, inventoryVars
<1>4. CASE UNCHANGED invVars
  BY <1>4 DEF invVars
<1> QED BY <1>1, <1>2, <1>3, <1>4 DEF InventoryNext

(* The handlers implement the ledger: every order's stock is taken at most *)
(* once and returned at most once, each in one step.                       *)
THEOREM InventoryImplementsLedger == InventorySpec => LedgerSpec
<1>1. InventoryInit => Ledger!Init
  BY DEF InventoryInit, Ledger!Init
<1> QED BY <1>1, InventoryTypeCorrect, LedgerStep, PTL
        DEF InventorySpec, LedgerSpec, Ledger!Spec

-----------------------------------------------------------------------------
(* Conservation of stock                                                   *)

(* What one order holds of a variant is as much as it asked for.           *)
LEMMA UnitsOfOrder ==
  ASSUME NEW o, NEW n \in Nat
  PROVE  IsFiniteSet({o} \X (1..n)) /\ Cardinality({o} \X (1..n)) = n
<1> DEFINE f == [i \in 1..n |-> <<o, i>>]
<1>1. f \in Injection(1..n, {o} \X (1..n))
  BY DEF Injection, IsInjective
<1>2. f \in Surjection(1..n, {o} \X (1..n))
  <2>1. ASSUME NEW u \in {o} \X (1..n)
        PROVE  \E i \in 1..n : f[i] = u
    <3>1. PICK i \in 1..n : u = <<o, i>>
      OBVIOUS
    <3> QED BY <3>1
  <2>2. f \in [1..n -> {o} \X (1..n)]
    OBVIOUS
  <2> QED BY <2>1, <2>2 DEF Surjection
<1>3. ExistsBijection(1..n, {o} \X (1..n))
  BY <1>1, <1>2 DEF ExistsBijection, Bijection
<1>4. IsFiniteSet(1..n) /\ Cardinality(1..n) = n
  BY FS_Interval
<1> QED BY <1>3, <1>4, FS_Bijection

LEMMA DisjointUnion ==
  ASSUME NEW S, NEW T, IsFiniteSet(S), IsFiniteSet(T), S \cap T = {}
  PROVE  /\ IsFiniteSet(S \cup T)
         /\ Cardinality(S \cup T) = Cardinality(S) + Cardinality(T)
<1>1. /\ IsFiniteSet(S \cup T)
      /\ Cardinality(S \cup T) = Cardinality(S) + Cardinality(T) - Cardinality(S \cap T)
  BY FS_Union
<1>2. /\ Cardinality(S) \in Nat /\ Cardinality(T) \in Nat
      /\ Cardinality(S \cap T) = 0
  BY FS_CardinalityType, FS_EmptySet
<1> QED BY <1>1, <1>2

(* The shelf and the holds make up the initial stock.                      *)
Balanced ==
    \A v \in Variants :
       /\ IsFiniteSet(HeldUnits(v))
       /\ stock[v] + Cardinality(HeldUnits(v)) = InitStock[v]

LEMMA TakeBalanced ==
  ASSUME InventoryTypeOK, Balanced, NEW o \in Orders, Ledger!Take(o)
  PROVE  Balanced'
<1> SUFFICES ASSUME NEW v \in Variants
             PROVE  /\ IsFiniteSet(HeldUnits(v)')
                    /\ stock'[v] + Cardinality(HeldUnits(v)') = InitStock[v]
  BY DEF Balanced
<1> DEFINE T == {o} \X (1..Qty[o][v])
<1>1. /\ reservation \in [Orders -> {"none", "reserved", "released"}]
      /\ stock[v] \in Nat /\ Qty[o][v] \in Nat
      /\ reservation[o] = "none" /\ reservation' = [reservation EXCEPT ![o] = "reserved"]
      /\ stock'[v] = stock[v] - Qty[o][v]
      /\ IsFiniteSet(HeldUnits(v)) /\ stock[v] + Cardinality(HeldUnits(v)) = InitStock[v]
  BY QtyAssumption DEF InventoryTypeOK, Ledger!Take, Balanced
<1>2. HeldUnits(v)' = HeldUnits(v) \cup T /\ HeldUnits(v) \cap T = {}
  BY <1>1 DEF HeldUnits
<1>3. IsFiniteSet(T) /\ Cardinality(T) = Qty[o][v]
  BY <1>1, UnitsOfOrder
<1>4. Cardinality(HeldUnits(v)) \in Nat
  BY <1>1, FS_CardinalityType
<1>5. /\ IsFiniteSet(HeldUnits(v) \cup T)
      /\ Cardinality(HeldUnits(v) \cup T) = Cardinality(HeldUnits(v)) + Qty[o][v]
  <2> HIDE DEF T
  <2> QED BY <1>1, <1>2, <1>3, <1>4, DisjointUnion
<1> QED BY <1>1, <1>2, <1>4, <1>5

LEMMA ReturnBalanced ==
  ASSUME InventoryTypeOK, Balanced, NEW o \in Orders, Ledger!Return(o)
  PROVE  Balanced'
<1> SUFFICES ASSUME NEW v \in Variants
             PROVE  /\ IsFiniteSet(HeldUnits(v)')
                    /\ stock'[v] + Cardinality(HeldUnits(v)') = InitStock[v]
  BY DEF Balanced
<1> DEFINE T == {o} \X (1..Qty[o][v])
<1>1. /\ reservation \in [Orders -> {"none", "reserved", "released"}]
      /\ stock[v] \in Nat /\ Qty[o][v] \in Nat
      /\ reservation[o] = "reserved" /\ reservation' = [reservation EXCEPT ![o] = "released"]
      /\ stock'[v] = stock[v] + Qty[o][v]
      /\ IsFiniteSet(HeldUnits(v)) /\ stock[v] + Cardinality(HeldUnits(v)) = InitStock[v]
  BY QtyAssumption DEF InventoryTypeOK, Ledger!Return, Balanced
<1>2. HeldUnits(v) = HeldUnits(v)' \cup T /\ HeldUnits(v)' \cap T = {}
  BY <1>1 DEF HeldUnits
<1>3. IsFiniteSet(T) /\ Cardinality(T) = Qty[o][v]
  BY <1>1, UnitsOfOrder
<1>4. IsFiniteSet(HeldUnits(v)') /\ Cardinality(HeldUnits(v)') \in Nat
  BY <1>1, <1>2, FS_Subset, FS_CardinalityType
<1>5. Cardinality(HeldUnits(v)) = Cardinality(HeldUnits(v)') + Qty[o][v]
  <2> HIDE DEF T
  <2> QED BY <1>1, <1>2, <1>3, <1>4, DisjointUnion
<1> QED BY <1>1, <1>4, <1>5

LEMMA BalancedStep ==
  ASSUME StockLevels = {}, InventoryTypeOK, Balanced, [InventoryNext]_invVars
  PROVE  Balanced'
<1>1. [Ledger!Next]_(Ledger!vars)
  BY LedgerStep
<1>2. CASE UNCHANGED <<stock, reservation>>
  BY <1>2 DEF Balanced, HeldUnits
<1>3. ASSUME NEW v \in Variants, NEW n \in StockLevels, Ledger!Restock(v, n)
      PROVE  FALSE
  BY <1>3
<1> QED BY <1>1, <1>2, <1>3, TakeBalanced, ReturnBalanced DEF Ledger!Next, Ledger!vars

(* Whatever is duplicated, refused or lost, no unit is lost or made up: what*)
(* is on the shelf and what orders hold is the initial stock.  An          *)
(* administrator who writes stock_quantity sets it anew, hence the premise.*)
THEOREM StockIsConserved == StockLevels = {} /\ InventorySpec => []StockConserved
<1> SUFFICES ASSUME StockLevels = {} PROVE InventorySpec => []StockConserved
  OBVIOUS
<1>1. InventoryInit => Balanced
  <2> SUFFICES ASSUME InventoryInit, NEW v \in Variants
               PROVE  /\ IsFiniteSet(HeldUnits(v))
                      /\ stock[v] + Cardinality(HeldUnits(v)) = InitStock[v]
    BY DEF Balanced
  <2>1. HeldUnits(v) = {} /\ stock[v] = InitStock[v] /\ InitStock[v] \in Nat
    BY StockAssumption DEF InventoryInit, HeldUnits
  <2> QED BY <2>1, FS_EmptySet
<1>2. Balanced => StockConserved
  BY DEF Balanced, StockConserved
<1> QED BY <1>1, <1>2, BalancedStep, InventoryTypeCorrect, PTL DEF InventorySpec
=============================================================================
