-------------------------- MODULE ProductVariants ---------------------------
(***************************************************************************)
(* product-service: the variants of one product and their currencies.      *)
(*                                                                         *)
(* The currency of a product is that of its first active variant, in the   *)
(* order in which the database returns them, and ZAR when none is active.  *)
(* A request loads the product with its variants, compares, and commits,   *)
(* without a lock: variants are sold while they are changed.               *)
(***************************************************************************)
CONSTANTS
    ProductVariantIds,  \* rows of product_variants, also those not inserted
    VariantHandlers,    \* handler executions that may run at the same time
    VariantCurrencies,
    DefaultCurrency     \* the "ZAR" of Product.currency

ASSUME VariantAssumption ==
    DefaultCurrency \in VariantCurrencies /\ ProductVariantIds # {}

VARIABLES
    variants,           \* variants[v]: the committed row
    variantRequest      \* variantRequest[h]: the request h works on

variantVars == <<variants, variantRequest>>

VariantRow == [state: {"absent", "active", "archived"}, currency: VariantCurrencies]

VariantRows == [ProductVariantIds -> VariantRow]

NoVariants == [v \in ProductVariantIds |-> [state |-> "absent", currency |-> DefaultCurrency]]

(* v, currency, state: the row to write, those of the loaded row where the *)
(* request does not set them; seen: the variants as loaded.                *)
VariantRequestType ==
    [pc: {"idle", "checked"}, op: {"create", "update"}, v: ProductVariantIds,
     new: VariantRow, seen: VariantRows]

VariantIdle ==
    LET v == CHOOSE v \in ProductVariantIds : TRUE IN
    [pc |-> "idle", op |-> "update", v |-> v, new |-> NoVariants[v], seen |-> NoVariants]

VariantInit ==
    /\ variants = NoVariants
    /\ variantRequest = [h \in VariantHandlers |-> VariantIdle]

Stocked(rows) == {v \in ProductVariantIds : rows[v].state # "absent"}

OnSale(rows) == {v \in ProductVariantIds : rows[v].state = "active"}

CurrenciesOf(rows, vs) == {rows[v].currency : v \in vs}

(* Any active variant may come first.                                      *)
ProductCurrency(rows) ==
    IF OnSale(rows) = {} THEN {DefaultCurrency} ELSE CurrenciesOf(rows, OnSale(rows))

(* The product and its first variants, in one transaction.                 *)
CreateProduct(vs, currency) ==
    /\ Stocked(variants) = {}
    /\ variants' = [v \in ProductVariantIds |->
                      IF v \in vs THEN [state |-> "active", currency |-> currency] ELSE variants[v]]
    /\ UNCHANGED variantRequest

Checked(h, op, v, new) ==
    /\ variantRequest[h].pc = "idle"
    /\ Stocked(variants) # {}
    /\ variantRequest' = [variantRequest EXCEPT
                            ![h] = [pc |-> "checked", op |-> op, v |-> v, new |-> new,
                                    seen |-> variants]]
    /\ UNCHANGED variants

(* A product has variants, so that the first condition of the check holds. *)
CreateVariant(h, v, currency) ==
    /\ variants[v].state = "absent"
    /\ \A g \in VariantHandlers : variantRequest[g].pc = "idle" \/ variantRequest[g].v # v
    /\ currency \in ProductCurrency(variants)
    /\ Checked(h, "create", v, [state |-> "active", currency |-> currency])

(* Fault: the currency is compared only when the request sets one.         *)
MayUpdateUnchecked(v, new) ==
    new.currency = variants[v].currency \/ new.currency \in ProductCurrency(variants)

(* Its own currency is compared also when the request sets another column. *)
MayUpdate(v, new) == new.currency \in ProductCurrency(variants)

UpdateVariant(h, v, new) ==
    /\ variants[v].state # "absent"
    /\ new.state # "absent"
    /\ MayUpdate(v, new)
    /\ Checked(h, "update", v, new)

(* archive_variant compares nothing.                                       *)
ArchiveVariant(h, v) ==
    /\ variants[v].state # "absent"
    /\ Checked(h, "update", v, [variants[v] EXCEPT !.state = "archived"])

(* Fault: every column is written.                                         *)
MergedWhole(seen, now, new) == new

(* Columns that do not differ from the loaded row are not written.         *)
MergedColumns(seen, now, new) ==
    [state    |-> IF new.state = seen.state THEN now.state ELSE new.state,
     currency |-> IF new.currency = seen.currency THEN now.currency ELSE new.currency]

VariantCommit(h) ==
    LET r == variantRequest[h] IN
    /\ r.pc = "checked"
    /\ variants' = [variants EXCEPT
                      ![r.v] = IF r.op = "create" THEN r.new
                               ELSE MergedColumns(r.seen[r.v], @, r.new)]
    /\ variantRequest' = [variantRequest EXCEPT ![h] = VariantIdle]

(* A SKU that exists is answered 409; timeout, disconnect, crash.          *)
VariantAbort(h) ==
    /\ variantRequest[h].pc # "idle"
    /\ variantRequest' = [variantRequest EXCEPT ![h] = VariantIdle]
    /\ UNCHANGED variants

VariantNext ==
    \/ \E vs \in (SUBSET ProductVariantIds) \ {{}}, c \in VariantCurrencies : CreateProduct(vs, c)
    \/ \E h \in VariantHandlers :
          \/ \E v \in ProductVariantIds :
                \/ \E c \in VariantCurrencies : CreateVariant(h, v, c)
                \/ \E new \in VariantRow : UpdateVariant(h, v, new)
                \/ ArchiveVariant(h, v)
          \/ VariantCommit(h) \/ VariantAbort(h)

VariantSpec == VariantInit /\ [][VariantNext]_variantVars

-----------------------------------------------------------------------------
(* Properties                                                              *)

(* Types; and the variant a request is about stays, since none is deleted. *)
VariantTypeOK ==
    /\ variants \in VariantRows
    /\ variantRequest \in [VariantHandlers -> VariantRequestType]
    /\ \A h \in VariantHandlers :
          variantRequest[h].pc = "checked" =>
             (variantRequest[h].op = "update" <=> variantRequest[h].v \in Stocked(variants))

ChangesVariant(h) == variantRequest[h].pc = "checked" /\ variantRequest'[h] # variantRequest[h]

AtMostOne(currencies) == \A c, d \in currencies : c = d

(* What a product is sold in does not change under a customer: of the      *)
(* variants on sale before and after a commit none differ in currency,     *)
(* unless the request loaded variants that another one has changed.        *)
SoldInOneCurrency ==
    [][\A h \in VariantHandlers :
          LET before == CurrenciesOf(variants, OnSale(variants))
              after  == CurrenciesOf(variants', OnSale(variants')) IN
          ChangesVariant(h) /\ variantRequest[h].seen = variants /\ AtMostOne(before)
             => AtMostOne(before \cup after)]_variantVars

(* What was archived comes back only by a request that loaded it archived  *)
(* and asks for it: a change of another column that was begun before does  *)
(* not undo the archiving.                                                 *)
ArchiveSticks ==
    [][\A v \in ProductVariantIds :
          variants[v].state = "archived" /\ variants'[v].state = "active" =>
             \E h \in VariantHandlers :
                /\ ChangesVariant(h)
                /\ variantRequest[h].v = v
                /\ variantRequest[h].seen[v].state = "archived"
                /\ variantRequest[h].new.state = "active"]_variantVars
=============================================================================
