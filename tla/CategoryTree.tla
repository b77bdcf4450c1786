---------------------------- MODULE CategoryTree ----------------------------
(***************************************************************************)
(* product-service: the parents of categories, which administrators create *)
(* and move.  Before a category is written, _validate_parent walks up from *)
(* its new parent, one query for each row and no lock on any, so that the  *)
(* rows it has read can change under it.  Categories are archived, never   *)
(* deleted, which leaves their parents as they are.                        *)
(***************************************************************************)
EXTENDS FiniteSets

CONSTANTS
    Categories,        \* rows of categories, also those not inserted yet
    CategoryHandlers,  \* handler executions that may run at the same time
    NoCategory         \* parent_id IS NULL

ASSUME NoCategoryAssumption == NoCategory \notin Categories

VARIABLES
    categories,        \* the categories that were inserted
    parent,            \* parent[c]: the committed parent_id
    categoryRequest    \* categoryRequest[h]: the request h works on

categoryVars == <<categories, parent, categoryRequest>>

Parents == Categories \cup {NoCategory}

(* category: the one to write, loaded with the parent seen; want: the      *)
(* parent asked for; next: the category the walk comes to; visited: those  *)
(* it has read, and read[c] their parents at that time.                    *)
CategoryRequestType ==
    [pc: {"idle", "walking", "writing"}, op: {"create", "update"},
     category: Parents, seen: Parents, want: Parents, next: Parents,
     visited: SUBSET Categories, read: [Categories -> Parents]]

NoRow == [c \in Categories |-> NoCategory]

NoCategoryRequest ==
    [pc |-> "idle", op |-> "update", category |-> NoCategory, seen |-> NoCategory,
     want |-> NoCategory, next |-> NoCategory, visited |-> {}, read |-> NoRow]

CategoryInit ==
    /\ categories = {}
    /\ parent = NoRow
    /\ categoryRequest = [h \in CategoryHandlers |-> NoCategoryRequest]

CategoryGo(h, new) == categoryRequest' = [categoryRequest EXCEPT ![h] = new]

CategoryEnd(h) == CategoryGo(h, NoCategoryRequest)

Walking(h) == categoryRequest[h].pc = "walking"

(* A parent that is not there is answered 404; none is written unchecked.  *)
BeginCategory(h, op, c, p) ==
    /\ categoryRequest[h].pc = "idle"
    /\ p \in categories \cup {NoCategory}
    /\ CategoryGo(h, [NoCategoryRequest EXCEPT
                        !.pc = IF p = NoCategory THEN "writing" ELSE "walking",
                        !.op = op, !.category = c, !.seen = parent[c], !.want = p, !.next = p])
    /\ UNCHANGED <<categories, parent>>

(* A new category has an id of its own.                                    *)
CreateCategory(h, c, p) ==
    /\ c \notin categories
    /\ \A g \in CategoryHandlers : categoryRequest[g].category # c
    /\ BeginCategory(h, "create", c, p)

(* Also a change that leaves the parent as it is comes here.               *)
UpdateCategory(h, c, p) == c \in categories /\ BeginCategory(h, "update", c, p)

(* Fault: only the new parent itself is compared.                          *)
ParentOnly(h) ==
    LET r == categoryRequest[h] IN
    /\ Walking(h)
    /\ IF r.next = r.category THEN CategoryEnd(h) ELSE CategoryGo(h, [r EXCEPT !.pc = "writing"])
    /\ UNCHANGED <<categories, parent>>

(* Fault: what was visited is not remembered.                              *)
WalkOnAndOn(h) ==
    LET r == categoryRequest[h] IN
    /\ Walking(h)
    /\ CASE r.next = r.category  -> CategoryEnd(h)
         [] r.next = NoCategory  -> CategoryGo(h, [r EXCEPT !.pc = "writing"])
         [] OTHER                -> CategoryGo(h, [r EXCEPT !.next = parent[r.next]])
    /\ UNCHANGED <<categories, parent>>

(* Fault: the category that is moved is not compared with.                 *)
WalkPast(h) ==
    LET r == categoryRequest[h] IN
    /\ Walking(h)
    /\ IF r.next \in r.visited \cup {NoCategory}
       THEN CategoryGo(h, [r EXCEPT !.pc = "writing"])
       ELSE CategoryGo(h, [r EXCEPT !.visited = @ \cup {r.next},
                                    !.read[r.next] = parent[r.next], !.next = parent[r.next]])
    /\ UNCHANGED <<categories, parent>>

(* One turn of the loop: a category met again ends it like a root does,    *)
(* the category that is moved is answered 422.                             *)
WalkUp(h) ==
    LET r == categoryRequest[h] IN
    /\ Walking(h)
    /\ CASE r.next \in r.visited \cup {NoCategory} -> CategoryGo(h, [r EXCEPT !.pc = "writing"])
         [] r.next = r.category                    -> CategoryEnd(h)
         [] OTHER ->
              CategoryGo(h, [r EXCEPT !.visited = @ \cup {r.next},
                                      !.read[r.next] = parent[r.next], !.next = parent[r.next]])
    /\ UNCHANGED <<categories, parent>>

(* Only a parent that differs from the loaded one is part of the UPDATE.   *)
WriteCategory(h) ==
    LET r == categoryRequest[h] IN
    /\ r.pc = "writing"
    /\ categories' = categories \cup {r.category}
    /\ parent' = IF r.op = "update" /\ r.want = r.seen THEN parent
                 ELSE [parent EXCEPT ![r.category] = r.want]
    /\ CategoryEnd(h)

(* A slug that exists is answered 409; timeout, disconnect, crash.         *)
CategoryAbort(h) ==
    /\ categoryRequest[h].pc # "idle"
    /\ CategoryEnd(h)
    /\ UNCHANGED <<categories, parent>>

CategoryNext ==
    \E h \in CategoryHandlers :
       \/ \E c \in Categories, p \in Parents : CreateCategory(h, c, p) \/ UpdateCategory(h, c, p)
       \/ WalkUp(h) \/ WriteCategory(h) \/ CategoryAbort(h)

CategorySpec == CategoryInit /\ [][CategoryNext]_categoryVars

(* A query that was answered is gone on from.                              *)
CategoryFairness == \A h \in CategoryHandlers : WF_categoryVars(WalkUp(h))

-----------------------------------------------------------------------------
(* Properties                                                              *)

(* Parents exist, and the category that is moved is never among those the  *)
(* check has passed over.                                                  *)
CategoryTypeOK ==
    /\ categories \subseteq Categories
    /\ parent \in [Categories -> categories \cup {NoCategory}]
    /\ categoryRequest \in [CategoryHandlers -> CategoryRequestType]
    /\ \A h \in CategoryHandlers :
          categoryRequest[h].category \notin categoryRequest[h].visited

(* No set of categories has all its parents inside.                        *)
Acyclic(p) == \A S \in (SUBSET Categories) \ {{}} : \E c \in S : p[c] \notin S

(* The hierarchy has no cycle: one is closed only by a request that has    *)
(* read a category another request moved before it wrote its own, which    *)
(* nothing prevents.                                                       *)
CycleOnlyByRace ==
    [][\A h \in CategoryHandlers :
          /\ categoryRequest[h].pc = "writing" /\ categoryRequest'[h] # categoryRequest[h]
          /\ Acyclic(parent) /\ ~Acyclic(parent')
          => \E c \in categoryRequest[h].visited : categoryRequest[h].read[c] # parent[c]]_categoryVars

(* The walk ends, also on a hierarchy that has a cycle or is rearranged    *)
(* while it goes up.                                                       *)
WalkEnds == \A h \in CategoryHandlers : Walking(h) ~> ~Walking(h)
=============================================================================
