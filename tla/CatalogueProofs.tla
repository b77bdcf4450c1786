--------------------------- MODULE CatalogueProofs ---------------------------
(***************************************************************************)
(* Proofs about the catalogue of product-service: CategoryTree, for any    *)
(* hierarchy and any number of administrators, and ProductVariants, for any*)
(* variants and currencies.                                                *)
(***************************************************************************)
EXTENDS CategoryTree, ProductVariants, TLAPS

-----------------------------------------------------------------------------
(* CategoryTree: the inductive invariant                                   *)

(* What the walk has read leads from one visited category to another, up to*)
(* where it stands, and when it is over to a root.                         *)
WalkSound(w) ==
    LET above == IF w.pc = "walking" THEN {NoCategory, w.next} ELSE {NoCategory} IN
    w.pc # "idle" =>
       /\ w.category \in Categories
       /\ w.want \in w.visited \cup above
       /\ \A c \in w.visited : w.read[c] \in w.visited \cup above

CategoryInv ==
    /\ CategoryTypeOK
    /\ \A h \in CategoryHandlers :
          /\ WalkSound(categoryRequest[h])
          /\ categoryRequest[h].want \in categories \cup {NoCategory}

LEMMA CategoryTypes ==
  ASSUME CategoryInv
  PROVE  /\ categories \subseteq Categories
         /\ parent \in [Categories -> categories \cup {NoCategory}]
         /\ categoryRequest \in [CategoryHandlers -> CategoryRequestType]
BY DEF CategoryInv, CategoryTypeOK

LEMMA NoCategoryRequestFacts ==
  /\ NoCategoryRequest \in CategoryRequestType
  /\ NoCategoryRequest.pc = "idle" /\ NoCategoryRequest.want = NoCategory
  /\ NoCategoryRequest.visited = {}
  /\ WalkSound(NoCategoryRequest)
BY DEF NoCategoryRequest, CategoryRequestType, Parents, NoRow, WalkSound

(* A step of one request.                                                  *)
LEMMA CategoryRequestStep ==
  ASSUME CategoryInv, NEW h \in CategoryHandlers, NEW w \in CategoryRequestType,
         CategoryGo(h, w),
         categories \subseteq categories', categories' \subseteq Categories,
         parent' \in [Categories -> categories' \cup {NoCategory}],
         w.category \notin w.visited, WalkSound(w), w.want \in categories \cup {NoCategory}
  PROVE  CategoryInv'
<1>1. /\ categoryRequest'[h] = w
      /\ \A g \in CategoryHandlers \ {h} : categoryRequest'[g] = categoryRequest[g]
      /\ categoryRequest' \in [CategoryHandlers -> CategoryRequestType]
  BY CategoryTypes DEF CategoryGo
<1>2. CategoryTypeOK'
  BY <1>1 DEF CategoryInv, CategoryTypeOK
<1>3. ASSUME NEW g \in CategoryHandlers
      PROVE  /\ WalkSound(categoryRequest'[g])
             /\ categoryRequest'[g].want \in categories' \cup {NoCategory}
  BY <1>1 DEF CategoryInv
<1> QED BY <1>2, <1>3 DEF CategoryInv

LEMMA CategoryEnded ==
  ASSUME CategoryInv, NEW h \in CategoryHandlers, CategoryEnd(h),
         categories' = categories, parent' = parent
  PROVE  CategoryInv'
BY CategoryTypes, NoCategoryRequestFacts, CategoryRequestStep DEF CategoryEnd

LEMMA CategoryBegun ==
  ASSUME CategoryInv, NEW h \in CategoryHandlers, NEW op \in {"create", "update"},
         NEW c \in Categories, NEW p \in Parents, BeginCategory(h, op, c, p)
  PROVE  CategoryInv'
<1> DEFINE w == [NoCategoryRequest EXCEPT
                   !.pc = IF p = NoCategory THEN "writing" ELSE "walking",
                   !.op = op, !.category = c, !.seen = parent[c], !.want = p, !.next = p]
<1>1. /\ w.pc = (IF p = NoCategory THEN "writing" ELSE "walking")
      /\ w.category = c /\ w.want = p /\ w.next = p /\ w.visited = {}
      /\ w \in CategoryRequestType
  BY CategoryTypes, NoCategoryRequestFacts DEF NoCategoryRequest, CategoryRequestType, Parents, NoRow
<1>2. /\ CategoryGo(h, w) /\ categories' = categories /\ parent' = parent
      /\ p \in categories \cup {NoCategory}
  BY DEF BeginCategory
<1> HIDE DEF w
<1>3. WalkSound(w)
  BY <1>1 DEF WalkSound
<1> QED BY <1>1, <1>2, <1>3, CategoryTypes, CategoryRequestStep

LEMMA WalkedUp ==
  ASSUME CategoryInv, NEW h \in CategoryHandlers, WalkUp(h)
  PROVE  CategoryInv'
<1> DEFINE r == categoryRequest[h]
<1>1. /\ r \in CategoryRequestType /\ WalkSound(r) /\ r.pc = "walking"
      /\ r.category \notin r.visited /\ r.want \in categories \cup {NoCategory}
      /\ categories' = categories /\ parent' = parent
  BY CategoryTypes DEF CategoryInv, CategoryTypeOK, WalkUp, Walking
<1>2. CASE r.next \in r.visited \cup {NoCategory}
  <2> DEFINE w == [r EXCEPT !.pc = "writing"]
  <2>1. /\ w \in CategoryRequestType /\ w.pc = "writing"
        /\ w.category = r.category /\ w.want = r.want /\ w.visited = r.visited /\ w.read = r.read
    BY <1>1 DEF CategoryRequestType
  <2>2. CategoryGo(h, w)
    <3>1. r.next # r.category
      BY <1>1, <1>2, NoCategoryAssumption DEF WalkSound
    <3> QED BY <1>2, <3>1 DEF WalkUp
  <2> HIDE DEF w
  <2>3. WalkSound(w)
    BY <1>1, <1>2, <2>1 DEF WalkSound
  <2> QED BY <1>1, <2>1, <2>2, <2>3, CategoryTypes, CategoryRequestStep
<1>3. CASE r.next \notin r.visited \cup {NoCategory} /\ r.next = r.category
  <2>1. CategoryEnd(h)
    BY <1>3 DEF WalkUp
  <2> QED BY <1>1, <2>1, CategoryEnded
<1>4. CASE r.next \notin r.visited \cup {NoCategory} /\ r.next # r.category
  <2> DEFINE n == r.next
             w == [r EXCEPT !.visited = @ \cup {n}, !.read[n] = parent[n], !.next = parent[n]]
  <2>1. n \in Categories /\ parent[n] \in Parents
    BY <1>1, <1>4, CategoryTypes DEF CategoryRequestType, Parents
  <2>2. /\ w \in CategoryRequestType /\ w.pc = "walking"
        /\ w.category = r.category /\ w.want = r.want /\ w.visited = r.visited \cup {n}
        /\ w.next = parent[n] /\ w.read[n] = parent[n]
        /\ \A c \in Categories \ {n} : w.read[c] = r.read[c]
    BY <1>1, <2>1 DEF CategoryRequestType
  <2>3. CategoryGo(h, w)
    BY <1>4 DEF WalkUp
  <2>4. r.visited \subseteq Categories
    BY <1>1 DEF CategoryRequestType
  <2> HIDE DEF w
  <2>5. WalkSound(w)
    BY <1>1, <2>1, <2>2, <2>4 DEF WalkSound
  <2>6. w.category \notin w.visited
    BY <1>1, <1>4, <2>2
  <2> QED BY <1>1, <2>2, <2>3, <2>5, <2>6, CategoryTypes, CategoryRequestStep
<1> QED BY <1>2, <1>3, <1>4

LEMMA CategoryWritten ==
  ASSUME CategoryInv, NEW h \in CategoryHandlers, WriteCategory(h)
  PROVE  CategoryInv'
<1> DEFINE r == categoryRequest[h]
<1>1. /\ r.category \in Categories /\ r.want \in categories \cup {NoCategory}
      /\ CategoryGo(h, NoCategoryRequest) /\ categories' = categories \cup {r.category}
  BY DEF CategoryInv, WalkSound, WriteCategory, CategoryEnd
<1>2. parent' = parent \/ parent' = [parent EXCEPT ![r.category] = r.want]
  BY DEF WriteCategory
<1> HIDE DEF r
<1>3. parent' \in [Categories -> categories' \cup {NoCategory}]
  BY <1>1, <1>2, CategoryTypes
<1> QED BY <1>1, <1>3, CategoryTypes, NoCategoryRequestFacts, CategoryRequestStep

LEMMA CategoryStep == CategoryInv /\ [CategoryNext]_categoryVars => CategoryInv'
<1> SUFFICES ASSUME CategoryInv, [CategoryNext]_categoryVars
             PROVE  CategoryInv'
  OBVIOUS
<1>1. ASSUME NEW h \in CategoryHandlers, NEW c \in Categories, NEW p \in Parents,
             CreateCategory(h, c, p) \/ UpdateCategory(h, c, p)
      PROVE  CategoryInv'
  BY <1>1, CategoryBegun DEF CreateCategory, UpdateCategory
<1>2. ASSUME NEW h \in CategoryHandlers, CategoryAbort(h)
      PROVE  CategoryInv'
  BY <1>2, CategoryEnded DEF CategoryAbort
<1>3. CASE UNCHANGED categoryVars
  BY <1>3 DEF categoryVars, CategoryInv, CategoryTypeOK
<1> QED BY <1>1, <1>2, <1>3, WalkedUp, CategoryWritten DEF CategoryNext

LEMMA CategoryStart == CategoryInit => CategoryInv
<1> SUFFICES ASSUME CategoryInit PROVE CategoryInv
  OBVIOUS
<1>1. \A h \in CategoryHandlers : categoryRequest[h] = NoCategoryRequest
  BY DEF CategoryInit
<1>2. CategoryTypeOK
  BY <1>1, NoCategoryRequestFacts DEF CategoryInit, CategoryTypeOK, NoRow
<1> QED BY <1>1, <1>2, NoCategoryRequestFacts DEF CategoryInv

(* The inductive invariant holds of every reachable state.                 *)
THEOREM CategoryInductive == CategorySpec => []CategoryInv
BY CategoryStart, CategoryStep, PTL DEF CategorySpec

(* Parents exist, and the walk never passes over the category it is about. *)
THEOREM CategoryTypeCorrect == CategorySpec => []CategoryTypeOK
<1>1. CategoryInv => CategoryTypeOK
  BY DEF CategoryInv
<1> QED BY <1>1, CategoryInductive, PTL

(* A walk that has read what is still there has followed every ancestor of *)
(* the new parent: a cycle through the category would lie among those it   *)
(* visited, and be one already.                                            *)
LEMMA CheckedMove ==
  ASSUME CategoryInv, NEW h \in CategoryHandlers, WriteCategory(h), Acyclic(parent),
         \A c \in categoryRequest[h].visited : categoryRequest[h].read[c] = parent[c]
  PROVE  Acyclic(parent')
<1> DEFINE r == categoryRequest[h]
<1>1. /\ r.category \in Categories /\ r.category \notin r.visited
      /\ r.want \in r.visited \cup {NoCategory} /\ r.visited \subseteq Categories
      /\ \A c \in r.visited : parent[c] \in r.visited \cup {NoCategory}
  <2>1. /\ WalkSound(r) /\ r \in CategoryRequestType /\ r.pc = "writing"
        /\ r.category \notin r.visited
    BY CategoryTypes DEF CategoryInv, CategoryTypeOK, WriteCategory
  <2> QED BY <2>1 DEF WalkSound, CategoryRequestType
<1>2. CASE parent' = parent
  BY <1>2
<1>3. CASE parent' = [parent EXCEPT ![r.category] = r.want]
  <2> SUFFICES ASSUME NEW S \in SUBSET Categories, S # {}, \A c \in S : parent'[c] \in S
               PROVE  FALSE
    BY DEF Acyclic
  <2>1. \A c \in Categories \ {r.category} : parent'[c] = parent[c]
    BY <1>3, CategoryTypes
  <2>2. CASE r.category \notin S
    BY <2>1, <2>2 DEF Acyclic
  <2>3. CASE r.category \in S
    <3> DEFINE T == S \cap r.visited
    <3>1. r.want \in S
      BY <1>1, <1>3, <2>3, CategoryTypes
    <3>2. r.want \in T
      BY <1>1, <3>1, NoCategoryAssumption
    <3>3. ASSUME NEW c \in T
          PROVE  parent[c] \in T
      BY <1>1, <2>1, NoCategoryAssumption
    <3>4. T \in (SUBSET Categories) \ {{}}
      BY <3>2
    <3> QED BY <3>3, <3>4 DEF Acyclic
  <2> QED BY <2>2, <2>3
<1> QED BY <1>2, <1>3 DEF WriteCategory

(* A cycle is closed only by a request that has read a category another    *)
(* request moved before it wrote its own.                                  *)
THEOREM CyclesAreRaces == CategorySpec => CycleOnlyByRace
<1>1. ASSUME CategoryInv, [CategoryNext]_categoryVars, NEW h \in CategoryHandlers,
             categoryRequest'[h] # categoryRequest[h], Acyclic(parent), ~Acyclic(parent')
      PROVE  \E c \in categoryRequest[h].visited : categoryRequest[h].read[c] # parent[c]
  <2>1. parent' # parent
    BY <1>1
  <2>2. PICK g \in CategoryHandlers : WriteCategory(g)
    BY <1>1, <2>1
    DEF CategoryNext, categoryVars, CreateCategory, UpdateCategory, BeginCategory, WalkUp,
        CategoryAbort
  <2>3. g = h
    BY <1>1, <2>2, CategoryTypes DEF WriteCategory, CategoryEnd, CategoryGo
  <2> QED BY <1>1, <2>2, <2>3, CheckedMove
<1>2. CategoryInv /\ [CategoryNext]_categoryVars =>
         [\A h \in CategoryHandlers :
             /\ categoryRequest[h].pc = "writing" /\ categoryRequest'[h] # categoryRequest[h]
             /\ Acyclic(parent) /\ ~Acyclic(parent')
             => \E c \in categoryRequest[h].visited :
                   categoryRequest[h].read[c] # parent[c]]_categoryVars
  BY <1>1
<1> QED BY <1>2, CategoryInductive, PTL DEF CategorySpec, CycleOnlyByRace

-----------------------------------------------------------------------------
(* ProductVariants: the inductive invariant                                *)

(* What the check has left of a request w: the row it is to write, by what *)
(* it has loaded.                                                          *)
CheckedSound(w) ==
    w.pc = "checked" =>
       /\ w.new.state # "absent"
       /\ w.op = "create" => w.new.state = "active"
       /\ w.op = "update" => w.seen[w.v].state # "absent"
       /\ w.new.currency \in ProductCurrency(w.seen) \/ w.new.state = "archived"

(* A row that one request is to insert is not another's.                   *)
InsertsApart ==
    \A g, h \in VariantHandlers :
       /\ g # h /\ variantRequest[g].pc = "checked" /\ variantRequest[h].pc = "checked"
       /\ variantRequest[h].op = "create"
       => variantRequest[g].v # variantRequest[h].v

VariantInv ==
    /\ VariantTypeOK
    /\ InsertsApart
    /\ \A h \in VariantHandlers :
          /\ CheckedSound(variantRequest[h])
          /\ variantRequest[h].pc = "checked" => Stocked(variants) # {}

LEMMA VariantTypes ==
  ASSUME VariantInv
  PROVE  /\ variants \in VariantRows
         /\ variantRequest \in [VariantHandlers -> VariantRequestType]
BY DEF VariantInv, VariantTypeOK

LEMMA VariantIdleFacts ==
  /\ VariantIdle \in VariantRequestType
  /\ VariantIdle.pc = "idle"
  /\ NoVariants \in VariantRows
<1>1. NoVariants \in VariantRows
  BY VariantAssumption DEF NoVariants, VariantRows, VariantRow
<1>2. PICK v \in ProductVariantIds :
         VariantIdle = [pc |-> "idle", op |-> "update", v |-> v, new |-> NoVariants[v],
                        seen |-> NoVariants]
  BY VariantAssumption DEF VariantIdle
<1> QED BY <1>1, <1>2 DEF VariantRequestType, VariantRows

(* A request that ends while the rows stay.                                *)
LEMMA VariantEnded ==
  ASSUME VariantInv, NEW h \in VariantHandlers,
         variantRequest' = [variantRequest EXCEPT ![h] = VariantIdle],
         variants' = variants
  PROVE  VariantInv'
<1>1. /\ variantRequest' \in [VariantHandlers -> VariantRequestType]
      /\ \A g \in VariantHandlers : variantRequest'[g] \in {variantRequest[g], VariantIdle}
  BY VariantTypes, VariantIdleFacts
<1>2. VariantTypeOK'
  BY <1>1, VariantIdleFacts DEF VariantInv, VariantTypeOK
<1>3. InsertsApart'
  BY <1>1, VariantIdleFacts DEF VariantInv, InsertsApart
<1> QED BY <1>1, <1>2, <1>3, VariantIdleFacts DEF VariantInv, CheckedSound

(* The check of a request, which loads the variants.                       *)
LEMMA VariantChecked ==
  ASSUME VariantInv, NEW h \in VariantHandlers, NEW op \in {"create", "update"},
         NEW v \in ProductVariantIds, NEW new \in VariantRow, Checked(h, op, v, new),
         op = "update" <=> variants[v].state # "absent",
         op = "create" => /\ new.state = "active"
                          /\ \A g \in VariantHandlers :
                                variantRequest[g].pc = "idle" \/ variantRequest[g].v # v,
         new.state # "absent",
         new.currency \in ProductCurrency(variants) \/ new.state = "archived"
  PROVE  VariantInv'
<1> DEFINE w == [pc |-> "checked", op |-> op, v |-> v, new |-> new, seen |-> variants]
<1>1. /\ w \in VariantRequestType /\ w.pc = "checked" /\ w.op = op /\ w.v = v /\ w.new = new
      /\ w.seen = variants
  BY VariantTypes DEF VariantRequestType
<1>2. /\ variantRequest' = [variantRequest EXCEPT ![h] = w]
      /\ variants' = variants /\ Stocked(variants) # {}
      /\ v \in Stocked(variants) <=> op = "update"
  BY DEF Checked, Stocked
<1> HIDE DEF w
<1>3. /\ variantRequest'[h] = w
      /\ \A g \in VariantHandlers \ {h} : variantRequest'[g] = variantRequest[g]
      /\ variantRequest' \in [VariantHandlers -> VariantRequestType]
  BY <1>1, <1>2, VariantTypes
<1>4. VariantTypeOK'
  BY <1>1, <1>2, <1>3 DEF VariantInv, VariantTypeOK
<1>5. InsertsApart'
  <2> SUFFICES ASSUME NEW f \in VariantHandlers, NEW g \in VariantHandlers, f # g,
                      variantRequest'[f].pc = "checked", variantRequest'[g].pc = "checked",
                      variantRequest'[g].op = "create"
               PROVE  variantRequest'[f].v # variantRequest'[g].v
    BY DEF InsertsApart
  <2>1. CASE f = h
    BY <1>1, <1>2, <1>3, <2>1 DEF VariantInv, VariantTypeOK
  <2>2. CASE g = h
    BY <1>1, <1>3, <2>2
  <2>3. CASE f # h /\ g # h
    BY <1>3, <2>3 DEF VariantInv, InsertsApart
  <2> QED BY <2>1, <2>2, <2>3
<1>6. CheckedSound(w)
  BY <1>1 DEF CheckedSound
<1> QED BY <1>1, <1>2, <1>3, <1>4, <1>5, <1>6 DEF VariantInv

(* What a commit writes: the columns of the request that differ from the   *)
(* loaded row, over the row as it is now.                                  *)
LEMMA CommittedRow ==
  ASSUME VariantInv, NEW h \in VariantHandlers, VariantCommit(h),
         NEW r, r = variantRequest[h],
         NEW row, row = variants'[r.v]
  PROVE  /\ r.v \in ProductVariantIds /\ r.pc = "checked" /\ r \in VariantRequestType
         /\ row \in VariantRow /\ row.state # "absent"
         /\ variants' \in VariantRows
         /\ \A v \in ProductVariantIds \ {r.v} : variants'[v] = variants[v]
         /\ r.op = "create" => row = r.new
         /\ r.op = "update" =>
               /\ row.state = IF r.new.state = r.seen[r.v].state THEN variants[r.v].state
                              ELSE r.new.state
               /\ row.currency = IF r.new.currency = r.seen[r.v].currency
                                 THEN variants[r.v].currency ELSE r.new.currency
<1> DEFINE written == IF r.op = "create" THEN r.new
                      ELSE MergedColumns(r.seen[r.v], variants[r.v], r.new)
<1>1. /\ r \in VariantRequestType /\ r.pc = "checked" /\ CheckedSound(r)
      /\ r.op = "update" => variants[r.v].state # "absent"
  BY VariantTypes DEF VariantCommit, VariantInv, VariantTypeOK, Stocked
<1>2. /\ r.v \in ProductVariantIds /\ r.new \in VariantRow /\ variants[r.v] \in VariantRow
      /\ r.op \in {"create", "update"} /\ variants \in VariantRows
  BY <1>1, VariantTypes DEF VariantRequestType, VariantRows
<1>3. variants' = [variants EXCEPT ![r.v] = written]
  BY DEF VariantCommit
<1>4. written \in VariantRow
  BY <1>2 DEF VariantRow, MergedColumns
<1>5. /\ row = written /\ variants' \in VariantRows
      /\ \A v \in ProductVariantIds \ {r.v} : variants'[v] = variants[v]
  BY <1>2, <1>3, <1>4 DEF VariantRows
<1>6. row.state # "absent"
  BY <1>1, <1>2, <1>5 DEF MergedColumns, CheckedSound
<1> QED BY <1>1, <1>2, <1>4, <1>5, <1>6 DEF MergedColumns

LEMMA VariantCommitted ==
  ASSUME VariantInv, NEW h \in VariantHandlers, VariantCommit(h)
  PROVE  VariantInv'
<1> DEFINE r == variantRequest[h]
<1>1. /\ r.v \in ProductVariantIds /\ r.pc = "checked"
      /\ variants'[r.v].state # "absent" /\ variants' \in VariantRows
      /\ \A v \in ProductVariantIds \ {r.v} : variants'[v] = variants[v]
  BY CommittedRow
<1>2. Stocked(variants') = Stocked(variants) \cup {r.v}
  BY <1>1 DEF Stocked
<1>3. /\ variantRequest'[h] = VariantIdle
      /\ \A g \in VariantHandlers \ {h} : variantRequest'[g] = variantRequest[g]
      /\ variantRequest' \in [VariantHandlers -> VariantRequestType]
  BY VariantTypes, VariantIdleFacts DEF VariantCommit
<1>4. ASSUME NEW g \in VariantHandlers \ {h}, variantRequest[g].pc = "checked"
      PROVE  variantRequest[g].op = "update" <=> variantRequest[g].v \in Stocked(variants')
  <2>1. variantRequest[g].op = "update" <=> variantRequest[g].v \in Stocked(variants)
    BY <1>4 DEF VariantInv, VariantTypeOK
  <2>2. variantRequest[g].op \in {"create", "update"}
    BY VariantTypes DEF VariantRequestType
  <2>3. variantRequest[g].op = "create" => r.v # variantRequest[g].v
    BY <1>1, <1>4 DEF VariantInv, InsertsApart
  <2> QED BY <1>2, <2>1, <2>2, <2>3
<1>5. VariantTypeOK'
  BY <1>1, <1>3, <1>4, VariantIdleFacts DEF VariantTypeOK, Stocked
<1>6. InsertsApart'
  BY <1>3, VariantIdleFacts DEF VariantInv, InsertsApart
<1>7. ASSUME NEW g \in VariantHandlers
      PROVE  /\ CheckedSound(variantRequest'[g])
             /\ variantRequest'[g].pc = "checked" => Stocked(variants') # {}
  BY <1>2, <1>3, VariantIdleFacts DEF VariantInv, CheckedSound
<1> QED BY <1>5, <1>6, <1>7 DEF VariantInv

LEMMA VariantStep == VariantInv /\ [VariantNext]_variantVars => VariantInv'
<1> SUFFICES ASSUME VariantInv, [VariantNext]_variantVars
             PROVE  VariantInv'
  OBVIOUS
<1>1. ASSUME NEW vs, NEW c \in VariantCurrencies, CreateProduct(vs, c)
      PROVE  VariantInv'
  <2>1. \A h \in VariantHandlers : variantRequest'[h].pc # "checked"
    BY <1>1 DEF CreateProduct, VariantInv
  <2>2. variants' \in VariantRows
    BY <1>1, VariantTypes DEF CreateProduct, VariantRows, VariantRow
  <2> QED BY <1>1, <2>1, <2>2
          DEF CreateProduct, VariantInv, VariantTypeOK, InsertsApart, CheckedSound
<1>2. ASSUME NEW h \in VariantHandlers, NEW v \in ProductVariantIds,
             NEW c \in VariantCurrencies, CreateVariant(h, v, c)
      PROVE  VariantInv'
  <2> DEFINE new == [state |-> "active", currency |-> c]
  <2>1. new \in VariantRow /\ new.state = "active" /\ new.currency = c
    BY DEF VariantRow
  <2>2. /\ Checked(h, "create", v, new) /\ variants[v].state = "absent"
        /\ c \in ProductCurrency(variants)
        /\ \A g \in VariantHandlers : variantRequest[g].pc = "idle" \/ variantRequest[g].v # v
    BY <1>2 DEF CreateVariant
  <2> HIDE DEF new
  <2> QED BY <2>1, <2>2, VariantChecked
<1>3. ASSUME NEW h \in VariantHandlers, NEW v \in ProductVariantIds, NEW new \in VariantRow,
             UpdateVariant(h, v, new)
      PROVE  VariantInv'
  BY <1>3, VariantChecked DEF UpdateVariant, MayUpdate
<1>4. ASSUME NEW h \in VariantHandlers, NEW v \in ProductVariantIds, ArchiveVariant(h, v)
      PROVE  VariantInv'
  <2> DEFINE new == [variants[v] EXCEPT !.state = "archived"]
  <2>1. new \in VariantRow /\ new.state = "archived"
    BY VariantTypes DEF VariantRows, VariantRow
  <2>2. Checked(h, "update", v, new) /\ variants[v].state # "absent"
    BY <1>4 DEF ArchiveVariant
  <2> HIDE DEF new
  <2> QED BY <2>1, <2>2, VariantChecked
<1>5. ASSUME NEW h \in VariantHandlers, VariantAbort(h)
      PROVE  VariantInv'
  BY <1>5, VariantEnded DEF VariantAbort
<1>6. CASE UNCHANGED variantVars
  BY <1>6 DEF variantVars, VariantInv, VariantTypeOK, InsertsApart
<1> QED BY <1>1, <1>2, <1>3, <1>4, <1>5, <1>6, VariantCommitted DEF VariantNext

LEMMA VariantStart == VariantInit => VariantInv
<1> SUFFICES ASSUME VariantInit PROVE VariantInv
  OBVIOUS
<1>1. \A h \in VariantHandlers : variantRequest[h] = VariantIdle
  BY DEF VariantInit
<1>2. VariantTypeOK
  BY <1>1, VariantIdleFacts DEF VariantInit, VariantTypeOK
<1> QED BY <1>1, <1>2, VariantIdleFacts DEF VariantInv, InsertsApart, CheckedSound

(* The inductive invariant holds of every reachable state.                 *)
THEOREM VariantInductive == VariantSpec => []VariantInv
BY VariantStart, VariantStep, PTL DEF VariantSpec

(* Type correctness: what a request is to insert is not there, what it is  *)
(* to update stays.                                                        *)
THEOREM VariantTypeCorrect == VariantSpec => []VariantTypeOK
<1>1. VariantInv => VariantTypeOK
  BY DEF VariantInv
<1> QED BY <1>1, VariantInductive, PTL

-----------------------------------------------------------------------------
(* ProductVariants: what the steps do                                      *)

(* A step that changes a request and rows is its commit.                   *)
LEMMA VariantChange ==
  ASSUME VariantInv, [VariantNext]_variantVars, NEW h \in VariantHandlers,
         ChangesVariant(h)
  PROVE  variants' = variants \/ VariantCommit(h)
<1>1. ASSUME NEW g \in VariantHandlers, VariantCommit(g)
      PROVE  g = h
  BY <1>1, VariantTypes DEF VariantCommit, ChangesVariant
<1> QED BY <1>1
        DEF VariantNext, variantVars, CreateProduct, CreateVariant, UpdateVariant,
            ArchiveVariant, Checked, VariantAbort, ChangesVariant

(* A commit over the variants its request loaded adds no currency to those *)
(* of the variants on sale, except the first.                              *)
LEMMA CommitInCurrency ==
  ASSUME VariantInv, NEW h \in VariantHandlers, VariantCommit(h),
         variantRequest[h].seen = variants,
         AtMostOne(CurrenciesOf(variants, OnSale(variants)))
  PROVE  AtMostOne(CurrenciesOf(variants, OnSale(variants))
                      \cup CurrenciesOf(variants', OnSale(variants')))
<1> DEFINE r == variantRequest[h]
           before == CurrenciesOf(variants, OnSale(variants))
           row == variants'[r.v]
<1>1. /\ r.v \in ProductVariantIds /\ r.pc = "checked" /\ r \in VariantRequestType
      /\ \A v \in ProductVariantIds \ {r.v} : variants'[v] = variants[v]
  BY CommittedRow
<1>2. row.state = r.new.state /\ row.currency = r.new.currency
  BY CommittedRow DEF VariantRequestType
<1>3. r.new.currency \in ProductCurrency(variants) \/ row.state # "active"
  <2>1. CheckedSound(r)
    BY DEF VariantInv
  <2> QED BY <1>1, <1>2, <2>1 DEF CheckedSound
<1>4. ASSUME NEW d \in CurrenciesOf(variants', OnSale(variants'))
      PROVE  d \in before \/ d \in ProductCurrency(variants)
  BY <1>1, <1>2, <1>3 DEF CurrenciesOf, OnSale
<1>5. CASE OnSale(variants) = {}
  BY <1>4, <1>5 DEF AtMostOne, ProductCurrency, CurrenciesOf
<1>6. CASE OnSale(variants) # {}
  BY <1>4, <1>6 DEF AtMostOne, ProductCurrency
<1> QED BY <1>5, <1>6

(* What a product is sold in changes only by a request that loaded variants*)
(* another one has changed.                                                *)
THEOREM OneCurrency == VariantSpec => SoldInOneCurrency
<1>1. ASSUME VariantInv, [VariantNext]_variantVars, NEW h \in VariantHandlers,
             ChangesVariant(h), variantRequest[h].seen = variants,
             AtMostOne(CurrenciesOf(variants, OnSale(variants)))
      PROVE  AtMostOne(CurrenciesOf(variants, OnSale(variants))
                          \cup CurrenciesOf(variants', OnSale(variants')))
  BY <1>1, VariantChange, CommitInCurrency
<1>2. VariantInv /\ [VariantNext]_variantVars =>
         [\A h \in VariantHandlers :
             LET before == CurrenciesOf(variants, OnSale(variants))
                 after  == CurrenciesOf(variants', OnSale(variants')) IN
             ChangesVariant(h) /\ variantRequest[h].seen = variants /\ AtMostOne(before)
                => AtMostOne(before \cup after)]_variantVars
  BY <1>1
<1> QED BY <1>2, VariantInductive, PTL DEF VariantSpec, SoldInOneCurrency

(* An archived variant comes back only by a request that loaded it archived*)
(* and asks for it.                                                        *)
THEOREM ArchivingSticks == VariantSpec => ArchiveSticks
<1>1. ASSUME VariantInv, [VariantNext]_variantVars, NEW v \in ProductVariantIds,
             variants[v].state = "archived", variants'[v].state = "active"
      PROVE  \E h \in VariantHandlers :
                /\ ChangesVariant(h)
                /\ variantRequest[h].v = v
                /\ variantRequest[h].seen[v].state = "archived"
                /\ variantRequest[h].new.state = "active"
  <2>1. v \in Stocked(variants) /\ variants' # variants
    BY <1>1 DEF Stocked
  <2>2. PICK h \in VariantHandlers : VariantCommit(h)
    BY <1>1, <2>1
    DEF VariantNext, variantVars, CreateProduct, CreateVariant, UpdateVariant,
        ArchiveVariant, Checked, VariantAbort
  <2> DEFINE r == variantRequest[h]
  <2>3. /\ r.v = v /\ r.pc = "checked" /\ r \in VariantRequestType
        /\ r.op = "update"
    BY <1>1, <2>1, <2>2, CommittedRow DEF VariantInv, VariantTypeOK
  <2>4. r.new.state = "active" /\ r.new.state # r.seen[v].state
    BY <1>1, <2>2, <2>3, CommittedRow
  <2>5. r.seen[v].state = "archived"
    <3>1. r.seen[v].state # "absent"
      <4>1. CheckedSound(r)
        BY <1>1 DEF VariantInv
      <4> HIDE DEF r
      <4> QED BY <2>3, <4>1 DEF CheckedSound
    <3>2. r.seen[v].state \in {"absent", "active", "archived"}
      BY <2>3 DEF VariantRequestType, VariantRows, VariantRow
    <3> QED BY <2>4, <3>1, <3>2
  <2>6. ChangesVariant(h)
    <3>1. variantRequest'[h] = VariantIdle
      BY <1>1, <2>2, VariantTypes DEF VariantCommit
    <3> QED BY <2>3, <3>1, VariantIdleFacts DEF ChangesVariant
  <2> QED BY <2>3, <2>4, <2>5, <2>6
<1>2. VariantInv /\ [VariantNext]_variantVars =>
         [\A v \in ProductVariantIds :
             variants[v].state = "archived" /\ variants'[v].state = "active" =>
                \E h \in VariantHandlers :
                   /\ ChangesVariant(h)
                   /\ variantRequest[h].v = v
                   /\ variantRequest[h].seen[v].state = "archived"
                   /\ variantRequest[h].new.state = "active"]_variantVars
  BY <1>1
<1> QED BY <1>2, VariantInductive, PTL DEF VariantSpec, ArchiveSticks
=============================================================================
