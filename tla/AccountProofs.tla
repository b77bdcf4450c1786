---------------------------- MODULE AccountProofs ----------------------------
(***************************************************************************)
(* Proofs about the rest of user-service, Addresses and Roles, for any     *)
(* number of handlers, addresses, users and roles; and about MCAccounts,   *)
(* which puts them beside Sessions.                                        *)
(***************************************************************************)
EXTENDS MCAccounts, SessionProofs, WellFoundedInduction, TLAPS

-----------------------------------------------------------------------------
(* Addresses: the inductive invariant                                      *)

(* What a transaction w sees when rows are committed.                      *)
ViewOf(w, rows) ==
    [b \in AddressIds |-> IF w.draft[b] = "same" THEN rows[b] ELSE w.draft[b]]

NoDefaultIn(w) == \A b \in AddressIds : w.draft[b] # "default"

(* A default is drafted last, when the transaction sees no other; what it  *)
(* has loaded had one default at most.                                     *)
DraftSound(w, rows, n) ==
    /\ w.pc = "idle" => w.draft = Unwritten
    /\ \A b \in AddressIds : w.draft[b] # "same" \/ w.seen[b] # "absent" => b <= n
    /\ \A b \in AddressIds :
          w.draft[b] = "default" => w.pc = "commit" /\ Defaults(ViewOf(w, rows)) \subseteq {b}
    /\ \A b, c \in Defaults(w.seen) : b = c

(* Where a request can be: what is to become the default has been written  *)
(* when it commits.                                                        *)
OpSound(w) ==
    /\ w.pc # "idle" /\ w.op # "create" => w.a \in AddressIds
    /\ w.pc \in {"clear", "clearing"} => w.wanted
    /\ w.pc = "write" /\ ~w.wanted => w.draft = Unwritten
    /\ w.pc \in {"promote", "promoting"} => w.op = "delete"
    /\ w.pc # "idle" /\ w.op = "prefer" => w.wanted
    /\ w.op \in {"unset", "delete"} => ~w.wanted
    /\ w.pc = "commit" /\ w.wanted => ~NoDefaultIn(w)

(* An address that is not to become the default joins others.              *)
CreationSound(w, rows) ==
    w.pc # "idle" /\ w.op = "create" /\ ~w.wanted =>
       /\ Existing(w.seen) # {}
       /\ \A b \in AddressIds : w.draft[b] # "same" => rows[b] = "absent"

(* A deletion that has promoted nothing has written its own row only; if   *)
(* that was the default, it found it replaced or nothing else left.        *)
DeletionSound(w, rows) ==
    w.op = "delete" /\ w.pc \in {"write", "promote", "commit"} /\ NoDefaultIn(w) =>
       /\ w.seen[w.a] # "absent"
       /\ \A b \in AddressIds \ {w.a} : w.draft[b] = "same"
       /\ w.pc # "write" =>
             w.draft[w.a] = "absent" \/ (w.draft[w.a] = "same" /\ rows[w.a] = "absent")
       /\ w.pc = "promote" => w.seen[w.a] = "default"
       /\ w.pc = "commit" /\ w.seen[w.a] = "default" =>
             \/ rows[w.a] # "default"
             \/ \A b \in AddressIds \ {w.a} : w.seen[b] # "absent" => rows[b] = "absent"

Sound(w, rows, n) ==
    DraftSound(w, rows, n) /\ OpSound(w) /\ CreationSound(w, rows) /\ DeletionSound(w, rows)

(* Rows are inserted under numbers that were not used before.              *)
Inserted == \A b \in AddressIds : address[b] # "absent" => b <= inserted

(* The index lets one transaction at a time write a default.               *)
OneDraftedDefault ==
    \A g, h \in AddressHandlers, a, b \in AddressIds :
       addressRequest[g].draft[a] = "default" /\ addressRequest[h].draft[b] = "default"
       => g = h

(* A row that a request has loaded and that is gone is not written again.  *)
GoneForGood ==
    \A g, h \in AddressHandlers, b \in AddressIds :
       addressRequest[h].seen[b] # "absent" /\ address[b] = "absent" =>
          addressRequest[g].draft[b] \in {"same", "absent"}

AddressInv ==
    /\ AddressTypeOK
    /\ OneDefault
    /\ Inserted
    /\ OneDraftedDefault
    /\ GoneForGood
    /\ \A h \in AddressHandlers : Sound(addressRequest[h], address, inserted)

LEMMA AddressTypes ==
  ASSUME AddressInv
  PROVE  /\ address \in [AddressIds -> States]
         /\ inserted \in 0..MaxAddresses
         /\ addressRequest \in [AddressHandlers -> AddressRequestType]
         /\ AddressIds \subseteq Nat /\ MaxAddresses \in Nat
BY MaxAddressesAssumption DEF AddressInv, AddressTypeOK, AddressIds

LEMMA Exclusive ==
  ASSUME AddressInv, NEW g \in AddressHandlers, NEW h \in AddressHandlers, g # h,
         NEW b \in AddressIds
  PROVE  addressRequest[g].draft[b] = "same" \/ addressRequest[h].draft[b] = "same"
BY DEF AddressInv, AddressTypeOK, RowLocked

LEMMA ViewIsView ==
  ASSUME NEW h \in AddressHandlers
  PROVE  View(h) = ViewOf(addressRequest[h], address)
BY DEF View, ViewOf

(* There is an oldest address, where there are any.                        *)
LEMMA LeastExists ==
  ASSUME NEW S \in SUBSET Nat, S # {}
  PROVE  Oldest(S) \in S
<1>1. PICK m \in S : \A n \in S : ~(<<n, m>> \in OpToRel(<, Nat))
  BY WFMin, NatLessThanWellFounded
<1>2. \A n \in S : ~(n < m)
  BY <1>1 DEF OpToRel
<1>3. \A n \in S : m <= n
  BY <1>2
<1> QED BY <1>3 DEF Oldest

LEMMA IdleSound ==
  ASSUME NEW rows, NEW n
  PROVE  /\ Sound(NoAddressRequest, rows, n)
         /\ NoAddressRequest \in AddressRequestType
         /\ NoAddressRequest.pc = "idle"
         /\ \A b \in AddressIds : /\ NoAddressRequest.draft[b] = "same"
                                  /\ NoAddressRequest.seen[b] = "absent"
<1>1. /\ NoAddressRequest.pc = "idle" /\ NoAddressRequest.draft = Unwritten
      /\ NoAddressRequest.seen = NoAddresses /\ NoAddressRequest.op = "create"
      /\ NoAddressRequest \in AddressRequestType
  BY DEF NoAddressRequest, AddressRequestType, NoAddresses, Unwritten, States
<1>2. \A b \in AddressIds : Unwritten[b] = "same" /\ NoAddresses[b] = "absent"
  BY DEF Unwritten, NoAddresses
<1>3. Sound(NoAddressRequest, rows, n)
  BY <1>1, <1>2 DEF Sound, DraftSound, OpSound, CreationSound, DeletionSound, Defaults
<1> QED BY <1>1, <1>2, <1>3

(* A step of h that commits nothing.                                       *)
LEMMA RequestStep ==
  ASSUME AddressInv, NEW h \in AddressHandlers, NEW w \in AddressRequestType,
         addressRequest' = [addressRequest EXCEPT ![h] = w],
         address' = address,
         inserted' \in 0..MaxAddresses, inserted <= inserted',
         Sound(w, address, inserted'),
         \A b \in AddressIds :
            /\ w.seen[b] # "absent" =>
                  addressRequest[h].seen[b] # "absent" \/ address[b] # "absent"
            /\ w.draft[b] \in {"plain", "default"} =>
                  \/ addressRequest[h].draft[b] \in {"plain", "default"}
                  \/ address[b] # "absent"
                  \/ ~(b <= inserted)
            /\ w.draft[b] # "same" => addressRequest[h].draft[b] # "same" \/ ~RowLocked(h, b)
            /\ w.draft[b] = "default" => ~IndexBusy(h)
  PROVE  AddressInv'
<1>1. /\ addressRequest'[h] = w
      /\ \A g \in AddressHandlers \ {h} : addressRequest'[g] = addressRequest[g]
      /\ addressRequest' \in [AddressHandlers -> AddressRequestType]
  BY AddressTypes
<1>2. AddressTypeOK'
  <2>1. ASSUME NEW g \in AddressHandlers, NEW f \in AddressHandlers, f # g,
               NEW b \in AddressIds
        PROVE  addressRequest'[g].draft[b] = "same" \/ addressRequest'[f].draft[b] = "same"
    BY <1>1, <2>1, Exclusive DEF RowLocked
  <2>2. \A g \in AddressHandlers : addressRequest'[g].pc = "idle" => addressRequest'[g].draft = Unwritten
    BY <1>1 DEF AddressInv, Sound, DraftSound
  <2> QED BY <1>1, <2>1, <2>2, AddressTypes DEF AddressTypeOK, RowLocked
<1>3. OneDefault' /\ Inserted'
  BY AddressTypes DEF AddressInv, OneDefault, Inserted
<1>4. OneDraftedDefault'
  <2>1. ASSUME NEW g \in AddressHandlers \ {h}, NEW a \in AddressIds, NEW b \in AddressIds,
               w.draft[b] = "default"
        PROVE  addressRequest[g].draft[a] # "default"
    BY <2>1 DEF IndexBusy
  <2> QED BY <1>1, <2>1 DEF AddressInv, OneDraftedDefault
<1>5. GoneForGood'
  <2> SUFFICES ASSUME NEW g \in AddressHandlers, NEW f \in AddressHandlers, NEW b \in AddressIds,
                      addressRequest'[f].seen[b] # "absent", address[b] = "absent"
               PROVE  addressRequest'[g].draft[b] \in {"same", "absent"}
    BY DEF GoneForGood
  <2>1. addressRequest[f].seen[b] # "absent"
    BY <1>1
  <2>2. addressRequest[g].draft[b] \in {"same", "absent"}
    BY <2>1 DEF AddressInv, GoneForGood
  <2>3. b <= inserted
    BY <2>1 DEF AddressInv, Sound, DraftSound
  <2>4. w.draft[b] \in {"same", "absent", "plain", "default"}
    BY DEF AddressRequestType, States
  <2> QED BY <1>1, <2>2, <2>3, <2>4
<1>6. ASSUME NEW g \in AddressHandlers
      PROVE  Sound(addressRequest'[g], address', inserted')
  <2>1. CASE g = h
    BY <1>1, <2>1
  <2>2. CASE g # h
    <3>1. Sound(addressRequest[g], address, inserted)
      BY DEF AddressInv
    <3>2. DraftSound(addressRequest[g], address, inserted')
      BY <3>1, AddressTypes DEF Sound, DraftSound
    <3> QED BY <1>1, <2>2, <3>1, <3>2 DEF Sound
  <2> QED BY <2>1, <2>2
<1> QED BY <1>2, <1>3, <1>4, <1>5, <1>6 DEF AddressInv

(* A request that ends without a commit.                                   *)
LEMMA RolledBack ==
  ASSUME AddressInv, NEW h \in AddressHandlers, RollBack(h), address' = address,
         inserted' \in 0..MaxAddresses, inserted <= inserted'
  PROVE  AddressInv'
BY IdleSound, RequestStep DEF RollBack, AddressGo

(* The commit of another transaction.                                      *)
LEMMA OthersCommit ==
  ASSUME NEW n, NEW w \in AddressRequestType,
         NEW rows \in [AddressIds -> States], NEW new \in [AddressIds -> States],
         Sound(w, rows, n),
         \A b \in AddressIds :
            /\ w.draft[b] # "same" => new[b] = rows[b]
            /\ w.draft[b] = "default" => Defaults(new) \subseteq Defaults(rows)
            /\ w.seen[b] # "absent" /\ rows[b] = "absent" => new[b] = "absent"
  PROVE  Sound(w, new, n)
<1>1. DraftSound(w, new, n)
  <2>1. ASSUME NEW b \in AddressIds, w.draft[b] = "default"
        PROVE  Defaults(ViewOf(w, new)) \subseteq Defaults(ViewOf(w, rows))
    BY <2>1 DEF Defaults, ViewOf
  <2> QED BY <2>1 DEF Sound, DraftSound
<1>2. CreationSound(w, new)
  BY DEF Sound, CreationSound
<1>3. DeletionSound(w, new)
  <2> SUFFICES ASSUME w.op = "delete", w.pc \in {"write", "promote", "commit"}, NoDefaultIn(w)
               PROVE  DeletionSound(w, new)
    BY DEF DeletionSound
  <2>1. w.a \in AddressIds
    BY DEF Sound, OpSound
  <2>2. DeletionSound(w, rows)
    BY DEF Sound
  <2> QED BY <2>1, <2>2 DEF DeletionSound
<1> QED BY <1>1, <1>2, <1>3 DEF Sound

(* A commit: the drafts of two transactions have no row in common, and of  *)
(* two drafts at most one has a default.                                   *)
LEMMA Committed ==
  ASSUME AddressInv, NEW h \in AddressHandlers, AddressCommit(h)
  PROVE  AddressInv'
<1> DEFINE r == addressRequest[h]
<1>0. /\ r \in AddressRequestType /\ Sound(r, address, inserted)
      /\ address' = ViewOf(r, address) /\ inserted' = inserted
      /\ \A b \in AddressIds : r.draft[b] \in States \cup {"same"}
  BY AddressTypes, ViewIsView DEF AddressInv, AddressCommit, AddressRequestType
<1>1. \A b \in AddressIds : address'[b] = IF r.draft[b] = "same" THEN address[b] ELSE r.draft[b]
  BY <1>0 DEF ViewOf
<1>2. /\ addressRequest'[h] = NoAddressRequest
      /\ \A g \in AddressHandlers \ {h} : addressRequest'[g] = addressRequest[g]
      /\ addressRequest' \in [AddressHandlers -> AddressRequestType]
  BY AddressTypes, IdleSound DEF AddressCommit, RollBack, AddressGo
<1>3. address' \in [AddressIds -> States]
  BY <1>0, AddressTypes DEF ViewOf, States
<1>a. \A g \in AddressHandlers \ {h}, b \in AddressIds :
         r.draft[b] = "same" \/ addressRequest[g].draft[b] = "same"
  BY Exclusive
<1>d. NoDefaultIn(r) => Defaults(address') \subseteq Defaults(address)
  BY <1>1 DEF NoDefaultIn, Defaults
<1> HIDE DEF r
<1>4. AddressTypeOK'
  <2>1. ASSUME NEW g \in AddressHandlers, NEW f \in AddressHandlers, f # g,
               NEW b \in AddressIds
        PROVE  addressRequest'[g].draft[b] = "same" \/ addressRequest'[f].draft[b] = "same"
    BY <1>2, <2>1, Exclusive, IdleSound
  <2>2. \A g \in AddressHandlers : addressRequest'[g].pc = "idle" => addressRequest'[g].draft = Unwritten
    BY <1>2, IdleSound DEF AddressInv, Sound, DraftSound
  <2> QED BY <1>0, <1>2, <1>3, <2>1, <2>2, AddressTypes DEF AddressTypeOK, RowLocked
<1>5. OneDefault'
  <2>1. CASE NoDefaultIn(r)
    BY <1>d, <2>1 DEF AddressInv, OneDefault
  <2>2. CASE ~NoDefaultIn(r)
    BY <1>0, <2>2 DEF NoDefaultIn, OneDefault, Sound, DraftSound
  <2> QED BY <2>1, <2>2
<1>6. Inserted'
  BY <1>0, <1>1 DEF AddressInv, Inserted, Sound, DraftSound
<1>7. OneDraftedDefault'
  BY <1>2, IdleSound DEF AddressInv, OneDraftedDefault
<1>8. GoneForGood'
  <2> SUFFICES ASSUME NEW g \in AddressHandlers \ {h}, NEW f \in AddressHandlers \ {h},
                      NEW b \in AddressIds,
                      addressRequest[f].seen[b] # "absent", address'[b] = "absent"
               PROVE  addressRequest[g].draft[b] \in {"same", "absent"}
    BY <1>2, IdleSound DEF GoneForGood
  <2>1. CASE r.draft[b] = "same"
    BY <1>1, <2>1 DEF AddressInv, GoneForGood
  <2>2. CASE r.draft[b] # "same"
    BY <1>a, <2>2
  <2> QED BY <2>1, <2>2
<1>9. ASSUME NEW g \in AddressHandlers
      PROVE  Sound(addressRequest'[g], address', inserted')
  <2>1. CASE g = h
    BY <1>2, <2>1, IdleSound
  <2>2. CASE g # h
    <3>1. Sound(addressRequest[g], address, inserted) /\ addressRequest[g] \in AddressRequestType
      BY AddressTypes DEF AddressInv
    <3>2. ASSUME NEW b \in AddressIds
          PROVE  /\ addressRequest[g].draft[b] # "same" => address'[b] = address[b]
                 /\ addressRequest[g].draft[b] = "default" => Defaults(address') \subseteq Defaults(address)
                 /\ addressRequest[g].seen[b] # "absent" /\ address[b] = "absent" => address'[b] = "absent"
      <4>1. addressRequest[g].draft[b] # "same" => address'[b] = address[b]
        BY <1>1, <1>a, <2>2
      <4>2. addressRequest[g].draft[b] = "default" => NoDefaultIn(r)
        BY <2>2 DEF AddressInv, OneDraftedDefault, NoDefaultIn, r
      <4>3. addressRequest[g].seen[b] # "absent" /\ address[b] = "absent" => r.draft[b] \in {"same", "absent"}
        BY DEF AddressInv, GoneForGood, r
      <4> QED BY <1>1, <1>d, <4>1, <4>2, <4>3
    <3>3. Sound(addressRequest[g], address', inserted)
      BY <1>3, <3>1, <3>2, AddressTypes, OthersCommit
    <3> QED BY <1>0, <1>2, <2>2, <3>3
  <2> QED BY <2>1, <2>2
<1> QED BY <1>4, <1>5, <1>6, <1>7, <1>8, <1>9 DEF AddressInv

-----------------------------------------------------------------------------
(* Addresses: the steps of a request                                       *)

LEMMA Begun ==
  ASSUME AddressInv, NEW h \in AddressHandlers,
         NEW op \in {"create", "prefer", "unset", "delete"}, NEW a \in AddressIds \cup {0},
         NEW wanted \in BOOLEAN, NEW pc \in {"clear", "write"},
         Begin(h, op, a, wanted, pc),
         op # "create" => a \in AddressIds,
         pc = "clear" => wanted,
         op = "prefer" => wanted,
         op \in {"unset", "delete"} => ~wanted /\ address[a] # "absent",
         op = "create" /\ ~wanted => Existing(address) # {}
  PROVE  AddressInv'
<1> DEFINE w == [NoAddressRequest EXCEPT !.pc = pc, !.op = op, !.a = a,
                                         !.wanted = wanted, !.seen = address]
<1>1. /\ w \in AddressRequestType
      /\ w.pc = pc /\ w.op = op /\ w.a = a /\ w.wanted = wanted /\ w.seen = address
      /\ w.draft = Unwritten
  BY AddressTypes, IdleSound DEF AddressRequestType, NoAddressRequest
<1>2. \A b \in AddressIds : w.draft[b] = "same"
  BY <1>1 DEF Unwritten
<1>3. /\ addressRequest' = [addressRequest EXCEPT ![h] = w]
      /\ address' = address /\ inserted' = inserted
  BY DEF Begin, AddressGo
<1> HIDE DEF w
<1>4. Sound(w, address, inserted)
  <2>1. DraftSound(w, address, inserted)
    BY <1>1, <1>2 DEF DraftSound, AddressInv, Inserted, OneDefault
  <2>2. OpSound(w)
    BY <1>1 DEF OpSound
  <2>3. CreationSound(w, address)
    BY <1>1, <1>2 DEF CreationSound
  <2>4. DeletionSound(w, address)
    BY <1>1, <1>2 DEF DeletionSound
  <2> QED BY <2>1, <2>2, <2>3, <2>4 DEF Sound
<1>5. Sound(w, address, inserted')
  BY <1>3, <1>4
<1>6. ASSUME NEW b \in AddressIds
      PROVE  /\ w.seen[b] # "absent" =>
                   addressRequest[h].seen[b] # "absent" \/ address[b] # "absent"
             /\ w.draft[b] \in {"plain", "default"} =>
                   \/ addressRequest[h].draft[b] \in {"plain", "default"}
                   \/ address[b] # "absent"
                   \/ ~(b <= inserted)
             /\ w.draft[b] # "same" => addressRequest[h].draft[b] # "same" \/ ~RowLocked(h, b)
             /\ w.draft[b] = "default" => ~IndexBusy(h)
  BY <1>1, <1>2
<1>7. inserted' \in 0..MaxAddresses /\ inserted <= inserted'
  BY <1>3, AddressTypes
<1> QED BY <1>1, <1>3, <1>5, <1>6, <1>7, RequestStep

(* A step of h that writes no row.                                         *)
LEMMA NothingWritten ==
  ASSUME AddressInv, NEW h \in AddressHandlers, NEW w \in AddressRequestType,
         addressRequest' = [addressRequest EXCEPT ![h] = w],
         address' = address, inserted' = inserted,
         w.seen = addressRequest[h].seen, w.draft = addressRequest[h].draft,
         w.pc # "idle", addressRequest[h].pc # "commit",
         OpSound(w), CreationSound(w, address), DeletionSound(w, address)
  PROVE  AddressInv'
<1> DEFINE r == addressRequest[h]
<1>1. r \in AddressRequestType /\ Sound(r, address, inserted)
  BY AddressTypes DEF AddressInv
<1>2. \A b \in AddressIds : w.draft[b] # "default"
  BY <1>1 DEF Sound, DraftSound
<1>3. DraftSound(w, address, inserted')
  BY <1>1, <1>2 DEF Sound, DraftSound
<1>4. Sound(w, address, inserted')
  BY <1>3 DEF Sound
<1>5. ASSUME NEW b \in AddressIds
      PROVE  /\ w.seen[b] # "absent" =>
                   addressRequest[h].seen[b] # "absent" \/ address[b] # "absent"
             /\ w.draft[b] \in {"plain", "default"} =>
                   \/ addressRequest[h].draft[b] \in {"plain", "default"}
                   \/ address[b] # "absent"
                   \/ ~(b <= inserted)
             /\ w.draft[b] # "same" => addressRequest[h].draft[b] # "same" \/ ~RowLocked(h, b)
             /\ w.draft[b] = "default" => ~IndexBusy(h)
  BY <1>2
<1>6. inserted' \in 0..MaxAddresses /\ inserted <= inserted'
  BY AddressTypes
<1> QED BY <1>4, <1>5, <1>6, RequestStep

LEMMA Cleared ==
  ASSUME AddressInv, NEW h \in AddressHandlers, ClearStart(h) \/ ClearDone(h)
  PROVE  AddressInv'
<1> DEFINE r == addressRequest[h]
<1>1. r \in AddressRequestType /\ Sound(r, address, inserted)
  BY AddressTypes DEF AddressInv
<1>2. PICK w \in AddressRequestType :
         /\ addressRequest' = [addressRequest EXCEPT ![h] = w]
         /\ w.pc \in {"clearing", "write"} /\ w.op = r.op /\ w.a = r.a /\ w.wanted = r.wanted
         /\ w.seen = r.seen /\ w.draft = r.draft
  <2>1. CASE ClearStart(h)
    <3>1. [r EXCEPT !.pc = "clearing", !.todo = Existing(address)] \in AddressRequestType
      BY <1>1 DEF AddressRequestType, Existing
    <3> QED BY <1>1, <2>1, <3>1 DEF ClearStart, AddressGo, AddressRequestType
  <2>2. CASE ClearDone(h)
    <3>1. [r EXCEPT !.pc = "write"] \in AddressRequestType
      BY <1>1 DEF AddressRequestType
    <3> QED BY <1>1, <2>2, <3>1 DEF ClearDone, AddressGo, AddressRequestType
  <2> QED BY <2>1, <2>2
<1>3. r.pc \in {"clear", "clearing"} /\ address' = address /\ inserted' = inserted
  BY DEF ClearStart, ClearDone
<1>4. OpSound(w) /\ CreationSound(w, address) /\ DeletionSound(w, address)
  BY <1>1, <1>2, <1>3 DEF Sound, OpSound, CreationSound, DeletionSound
<1>5. w.pc # "idle" /\ r.pc # "commit"
  BY <1>2, <1>3
<1> QED BY <1>2, <1>3, <1>4, <1>5, NothingWritten

(* A row written by h, which is not written by another.                    *)
LEMMA RowWritten ==
  ASSUME AddressInv, NEW h \in AddressHandlers, NEW b \in AddressIds, ~RowLocked(h, b),
         inserted' \in 0..MaxAddresses, inserted <= inserted',
         NEW state \in {"plain", "default", "absent", "same"}, state # "same" => b <= inserted',
         state \in {"plain", "default"} => address[b] # "absent" \/ ~(b <= inserted),
         state = "default" => ~IndexBusy(h),
         NEW w \in AddressRequestType,
         addressRequest' = [addressRequest EXCEPT ![h] = w], address' = address,
         w.seen = addressRequest[h].seen,
         w.draft = [addressRequest[h].draft EXCEPT ![b] = state],
         w.pc # "idle",
         OpSound(w), CreationSound(w, address), DeletionSound(w, address),
         addressRequest[h].pc # "commit",
         state = "default" => w.pc = "commit" /\ Defaults(View(h)) \subseteq {b}
  PROVE  AddressInv'
<1> DEFINE r == addressRequest[h]
<1>1. r \in AddressRequestType /\ Sound(r, address, inserted)
  BY AddressTypes DEF AddressInv
<1>2. /\ w.draft[b] = state
      /\ \A c \in AddressIds \ {b} : w.draft[c] = r.draft[c]
      /\ \A c \in AddressIds : w.seen[c] = r.seen[c]
      /\ \A c \in AddressIds : r.draft[c] # "default"
  BY <1>1 DEF AddressRequestType, Sound, DraftSound
<1>v. Defaults(View(h)) = Defaults(ViewOf(r, address))
  BY ViewIsView
<1>3. \A c \in AddressIds : r.draft[c] # "same" \/ r.seen[c] # "absent" => c <= inserted
  BY <1>1 DEF Sound, DraftSound
<1>s. \A c, d \in Defaults(r.seen) : c = d
  BY <1>1 DEF Sound, DraftSound
<1>r. \A c \in AddressIds :
         /\ w.seen[c] # "absent" => addressRequest[h].seen[c] # "absent"
         /\ c # b => w.draft[c] = addressRequest[h].draft[c]
  BY <1>2
<1> HIDE DEF r
<1>4. DraftSound(w, address, inserted')
  <2>1. \A c \in AddressIds : w.draft[c] # "same" \/ w.seen[c] # "absent" => c <= inserted'
    BY <1>2, <1>3, AddressTypes
  <2>2. ASSUME NEW c \in AddressIds, w.draft[c] = "default"
        PROVE  w.pc = "commit" /\ Defaults(ViewOf(w, address)) \subseteq {c}
    <3>1. c = b /\ state = "default"
      BY <1>2, <2>2
    <3>2. Defaults(ViewOf(w, address)) \subseteq Defaults(ViewOf(r, address)) \cup {b}
      BY <1>2 DEF Defaults, ViewOf
    <3> QED BY <1>v, <3>1, <3>2
  <2>3. \A c, d \in Defaults(w.seen) : c = d
    BY <1>s DEF r
  <2> QED BY <2>1, <2>2, <2>3 DEF DraftSound
<1>5. Sound(w, address, inserted')
  BY <1>4 DEF Sound
<1>6. \A c \in AddressIds : w.draft[c] = "default" => c = b /\ state = "default"
  BY <1>2
<1>7. ASSUME NEW c \in AddressIds
      PROVE  /\ w.seen[c] # "absent" =>
                   addressRequest[h].seen[c] # "absent" \/ address[c] # "absent"
             /\ w.draft[c] \in {"plain", "default"} =>
                   \/ addressRequest[h].draft[c] \in {"plain", "default"}
                   \/ address[c] # "absent"
                   \/ ~(c <= inserted)
             /\ w.draft[c] # "same" => addressRequest[h].draft[c] # "same" \/ ~RowLocked(h, c)
             /\ w.draft[c] = "default" => ~IndexBusy(h)
  BY <1>2, <1>6, <1>r
<1> QED BY <1>5, <1>7, RequestStep

LEMMA RowCleared ==
  ASSUME AddressInv, NEW h \in AddressHandlers, NEW b \in AddressIds, ClearRow(h, b)
  PROVE  AddressInv'
<1> DEFINE r == addressRequest[h]
           state == IF address[b] = "absent" THEN "same" ELSE "plain"
           w == [r EXCEPT !.todo = @ \ {b}, !.draft[b] = state]
<1>1. r \in AddressRequestType /\ Sound(r, address, inserted)
  BY AddressTypes DEF AddressInv
<1>2. /\ w \in AddressRequestType
      /\ w.pc = "clearing" /\ w.op = r.op /\ w.a = r.a /\ w.wanted = r.wanted
      /\ w.seen = r.seen /\ w.draft = [r.draft EXCEPT ![b] = state]
      /\ r.pc = "clearing"
  BY <1>1 DEF ClearRow, AddressRequestType, States
<1>3. /\ addressRequest' = [addressRequest EXCEPT ![h] = w]
      /\ ~RowLocked(h, b) /\ address' = address /\ inserted' = inserted
  BY DEF ClearRow, AddressGo
<1>4. /\ state \in {"same", "plain"}
      /\ state # "same" => address[b] # "absent" /\ b <= inserted
  BY DEF AddressInv, Inserted
<1> HIDE DEF w, state
<1>5. OpSound(w) /\ CreationSound(w, address) /\ DeletionSound(w, address)
  BY <1>1, <1>2 DEF Sound, OpSound, CreationSound, DeletionSound
<1>t. inserted' \in 0..MaxAddresses /\ inserted <= inserted'
  BY <1>3, AddressTypes
<1> QED BY <1>2, <1>3, <1>4, <1>5, <1>t, RowWritten

(* A default is written only where the index allows it.                    *)
LEMMA DefaultWritten ==
  ASSUME AddressInv, NEW h \in AddressHandlers, NEW b \in AddressIds, ~RowLocked(h, b),
         WriteDefault(h, b),
         address' = address, inserted' \in 0..MaxAddresses, inserted <= inserted',
         \/ address[b] # "absent" /\ inserted' = inserted
         \/ ~(b <= inserted) /\ b <= inserted',
         \/ addressRequest[h].pc = "write" /\ addressRequest[h].wanted
         \/ addressRequest[h].pc = "promoting"
  PROVE  AddressInv'
<1> DEFINE r == addressRequest[h]
           w == [r EXCEPT !.pc = "commit", !.draft[b] = "default"]
<1>1. r \in AddressRequestType /\ Sound(r, address, inserted)
  BY AddressTypes DEF AddressInv
<1>2. CASE ~IndexAllows(h, b)
  BY <1>2, RolledBack DEF WriteDefault
<1>3. CASE IndexAllows(h, b)
  <2>1. /\ w \in AddressRequestType
        /\ w.pc = "commit" /\ w.op = r.op /\ w.a = r.a /\ w.wanted = r.wanted
        /\ w.seen = r.seen /\ w.draft = [r.draft EXCEPT ![b] = "default"]
        /\ w.draft[b] = "default"
    BY <1>1 DEF AddressRequestType, States
  <2>2. /\ addressRequest' = [addressRequest EXCEPT ![h] = w]
        /\ ~IndexBusy(h) /\ Defaults(View(h)) \subseteq {b}
        /\ b <= inserted'
    BY <1>3 DEF WriteDefault, AddressGo, IndexAllows, AddressInv, Inserted
  <2> HIDE DEF w
  <2>3. ~NoDefaultIn(w)
    BY <2>1 DEF NoDefaultIn
  <2>4. OpSound(w) /\ DeletionSound(w, address) /\ CreationSound(w, address)
    BY <1>1, <2>1, <2>3 DEF Sound, OpSound, DeletionSound, CreationSound
  <2>t. inserted' \in 0..MaxAddresses /\ inserted <= inserted'
    BY <2>1, <2>2, <2>4, AddressTypes
  <2> QED BY <2>1, <2>2, <2>4, <2>t, RowWritten
<1> QED BY <1>2, <1>3

LEMMA RowInserted ==
  ASSUME AddressInv, NEW h \in AddressHandlers, InsertRow(h)
  PROVE  AddressInv'
<1> DEFINE r == addressRequest[h]
           b == inserted + 1
           w == [r EXCEPT !.pc = "commit", !.draft[b] = "plain"]
<1>1. r \in AddressRequestType /\ Sound(r, address, inserted)
  BY AddressTypes DEF AddressInv
<1>2. /\ b \in AddressIds /\ b \in 0..MaxAddresses /\ ~(b <= inserted) /\ inserted <= b
      /\ inserted' = b /\ address' = address
      /\ r.pc = "write" /\ r.op = "create"
  BY AddressTypes DEF InsertRow, AddressIds
<1>3. ~RowLocked(h, b) /\ address[b] = "absent"
  BY <1>2 DEF RowLocked, AddressInv, Inserted, Sound, DraftSound
<1>4. CASE r.wanted
  <2>1. WriteDefault(h, b)
    BY <1>2, <1>4 DEF InsertRow
  <2> QED BY <1>2, <1>3, <1>4, <2>1, DefaultWritten
<1>5. CASE ~r.wanted
  <2>1. /\ w \in AddressRequestType
        /\ w.pc = "commit" /\ w.op = r.op /\ w.a = r.a /\ w.wanted = r.wanted
        /\ w.seen = r.seen /\ w.draft = [r.draft EXCEPT ![b] = "plain"]
    BY <1>1 DEF AddressRequestType, States
  <2>2. addressRequest' = [addressRequest EXCEPT ![h] = w]
    BY <1>2, <1>5 DEF InsertRow, AddressGo
  <2>3. r.draft = Unwritten
    BY <1>1, <1>2, <1>5 DEF Sound, OpSound
  <2>4. \A c \in AddressIds : w.draft[c] # "same" => c = b
    BY <2>1, <2>3 DEF Unwritten
  <2> HIDE DEF w
  <2>5. OpSound(w) /\ DeletionSound(w, address)
    BY <1>1, <1>2, <1>5, <2>1 DEF Sound, OpSound, DeletionSound
  <2>6. CreationSound(w, address)
    BY <1>1, <1>2, <1>3, <2>1, <2>4 DEF Sound, CreationSound
  <2>7. /\ inserted' \in 0..MaxAddresses /\ inserted <= inserted' /\ b <= inserted'
        /\ r.pc # "commit" /\ w.pc # "idle"
    BY <1>2, <2>1, AddressTypes
  <2> HIDE DEF b
  <2> QED BY <1>2, <1>3, <2>1, <2>2, <2>5, <2>6, <2>7, RowWritten
<1> QED BY <1>4, <1>5

LEMMA RowUpdated ==
  ASSUME AddressInv, NEW h \in AddressHandlers, UpdateRow(h)
  PROVE  AddressInv'
<1> DEFINE r == addressRequest[h]
           b == r.a
           w == [r EXCEPT !.pc = "commit", !.draft[b] = "plain"]
<1>1. r \in AddressRequestType /\ Sound(r, address, inserted)
  BY AddressTypes DEF AddressInv
<1>2. /\ b \in AddressIds /\ inserted' = inserted /\ address' = address
      /\ r.pc = "write" /\ r.op \in {"prefer", "unset"} /\ ~RowLocked(h, b)
  BY <1>1 DEF UpdateRow, Sound, OpSound
<1>3. CASE address[b] = "absent"
  BY <1>2, <1>3, RolledBack, AddressTypes DEF UpdateRow
<1>4. CASE address[b] # "absent" /\ r.op = "prefer"
  <2>1. WriteDefault(h, b) /\ r.wanted
    BY <1>1, <1>4 DEF UpdateRow, Sound, OpSound
  <2>t. inserted' \in 0..MaxAddresses /\ inserted <= inserted'
    BY <1>2, AddressTypes
  <2> HIDE DEF b
  <2>2. /\ b \in AddressIds /\ ~RowLocked(h, b) /\ address' = address
        /\ address[b] # "absent" /\ inserted' = inserted
        /\ addressRequest[h].pc = "write" /\ addressRequest[h].wanted
    BY <1>2, <1>4, <2>1
  <2> HIDE DEF r
  <2> QED BY <2>1, <2>2, <2>t, DefaultWritten
<1>5. CASE address[b] # "absent" /\ r.op = "unset"
  <2>1. /\ w \in AddressRequestType
        /\ w.pc = "commit" /\ w.op = r.op /\ w.a = r.a /\ w.wanted = r.wanted
        /\ w.seen = r.seen /\ w.draft = [r.draft EXCEPT ![b] = "plain"]
    BY <1>1, <1>2 DEF AddressRequestType, States
  <2>2. addressRequest' = [addressRequest EXCEPT ![h] = w] /\ b <= inserted
    BY <1>2, <1>5 DEF UpdateRow, AddressGo, AddressInv, Inserted
  <2> HIDE DEF w
  <2>3. OpSound(w) /\ DeletionSound(w, address) /\ CreationSound(w, address)
    BY <1>1, <1>2, <1>5, <2>1 DEF Sound, OpSound, DeletionSound, CreationSound
  <2>t. inserted' \in 0..MaxAddresses /\ inserted <= inserted'
    BY <1>2, AddressTypes
  <2> QED BY <1>2, <1>5, <2>1, <2>2, <2>3, <2>t, RowWritten
<1> QED BY <1>2, <1>3, <1>4, <1>5

LEMMA RowDeleted ==
  ASSUME AddressInv, NEW h \in AddressHandlers, DeleteRow(h)
  PROVE  AddressInv'
<1> DEFINE r == addressRequest[h]
           b == r.a
           state == IF address[b] = "absent" THEN "same" ELSE "absent"
           w == [r EXCEPT !.pc = IF r.seen[b] = "default" THEN "promote" ELSE "commit",
                          !.draft[b] = state]
<1>1. r \in AddressRequestType /\ Sound(r, address, inserted)
  BY AddressTypes DEF AddressInv
<1>2. /\ b \in AddressIds /\ inserted' = inserted /\ address' = address
      /\ r.pc = "write" /\ r.op = "delete" /\ ~RowLocked(h, b) /\ ~r.wanted
  BY <1>1 DEF DeleteRow, Sound, OpSound
<1>3. /\ r.draft = Unwritten /\ r.seen[b] # "absent"
      /\ \A c \in AddressIds : r.draft[c] = "same"
  BY <1>1, <1>2 DEF Sound, OpSound, DeletionSound, Unwritten, NoDefaultIn
<1>4. /\ w \in AddressRequestType
      /\ w.pc = (IF r.seen[b] = "default" THEN "promote" ELSE "commit")
      /\ w.op = r.op /\ w.a = b /\ w.wanted = r.wanted
      /\ w.seen = r.seen /\ w.draft = [r.draft EXCEPT ![b] = state]
      /\ w.draft[b] = state
      /\ \A c \in AddressIds \ {b} : w.draft[c] = "same"
  BY <1>1, <1>2, <1>3 DEF AddressRequestType, States
<1>5. addressRequest' = [addressRequest EXCEPT ![h] = w]
  BY <1>2 DEF DeleteRow, AddressGo
<1>6. /\ state \in {"same", "absent"}
      /\ state = "same" => address[b] = "absent"
      /\ state # "same" => b <= inserted
  BY <1>2 DEF AddressInv, Inserted
<1> HIDE DEF w, state, b
<1>7. OpSound(w) /\ DeletionSound(w, address) /\ CreationSound(w, address)
  BY <1>2, <1>3, <1>4, <1>6 DEF OpSound, DeletionSound, CreationSound
<1>t. inserted' \in 0..MaxAddresses /\ inserted <= inserted'
  BY <1>2, AddressTypes
<1>8. w.pc # "idle" /\ r.pc # "commit" /\ state # "default" /\ state # "plain"
  BY <1>2, <1>4, <1>6
<1>9. /\ state \in {"plain", "default", "absent", "same"}
      /\ state # "same" => b <= inserted'
      /\ w.draft = [addressRequest[h].draft EXCEPT ![b] = state]
      /\ w.seen = addressRequest[h].seen
  BY <1>2, <1>4, <1>6
<1>a. /\ b \in AddressIds /\ ~RowLocked(h, b) /\ address' = address
      /\ addressRequest[h].pc # "commit" /\ w \in AddressRequestType
  BY <1>2, <1>4
<1> HIDE DEF r
<1> QED BY <1>5, <1>7, <1>8, <1>9, <1>a, <1>t, RowWritten

(* The choice of a replacement: none is needed when no row is left, or when*)
(* another default is there, which the deleted address no longer is.       *)
LEMMA Promoting ==
  ASSUME AddressInv, NEW h \in AddressHandlers, Promote(h)
  PROVE  AddressInv'
<1> DEFINE r == addressRequest[h]
           a == r.a
           left == Existing(View(h))
           b == Oldest(left)
           loaded == IF r.seen[b] = "absent" THEN address[b] ELSE r.seen[b]
<1>1. r \in AddressRequestType /\ Sound(r, address, inserted)
  BY AddressTypes DEF AddressInv
<1>2. r.pc = "promote" /\ r.op = "delete" /\ a \in AddressIds /\ ~r.wanted
  BY <1>1 DEF Promote, Sound, OpSound
<1>3. /\ r.seen[a] = "default"
      /\ \A c \in AddressIds \ {a} : r.draft[c] = "same"
      /\ r.draft[a] = "absent" \/ (r.draft[a] = "same" /\ address[a] = "absent")
      /\ \A c, d \in Defaults(r.seen) : c = d
      /\ NoDefaultIn(r)
  BY <1>1, <1>2 DEF Sound, DraftSound, DeletionSound, NoDefaultIn
<1>4. /\ View(h)[a] = "absent"
      /\ \A c \in AddressIds \ {a} : View(h)[c] = address[c]
  BY <1>2, <1>3 DEF View
<1>5. left # {} => b \in left
  BY AddressTypes, LeastExists DEF Existing
<1>6. address' = address /\ inserted' = inserted
  BY DEF Promote
<1>7. CASE left = {} \/ loaded = "default"
  <2> DEFINE w == [r EXCEPT !.pc = "commit"]
  <2>1. /\ w \in AddressRequestType
        /\ w.pc = "commit" /\ w.op = r.op /\ w.a = a /\ w.wanted = r.wanted
        /\ w.seen = r.seen /\ w.draft = r.draft
    BY <1>1 DEF AddressRequestType
  <2>2. addressRequest' = [addressRequest EXCEPT ![h] = w]
    BY <1>7 DEF Promote, Replacement, AddressGo
  <2>3. \/ address[a] # "default"
        \/ \A c \in AddressIds \ {a} : r.seen[c] # "absent" => address[c] = "absent"
    <3>1. CASE left = {}
      BY <1>4, <3>1 DEF Existing
    <3>2. CASE left # {}
      <4>1. b \in AddressIds /\ b # a /\ loaded = "default"
        BY <1>4, <1>5, <1>7, <3>2 DEF Existing
      <4>2. r.seen[b] = "absent"
        BY <1>2, <1>3, <4>1 DEF Defaults
      <4>3. address[b] = "default"
        BY <4>1, <4>2
      <4> QED BY <1>2, <4>1, <4>3 DEF AddressInv, OneDefault, Defaults
    <3> QED BY <3>1, <3>2
  <2> HIDE DEF w
  <2>4. OpSound(w) /\ CreationSound(w, address) /\ DeletionSound(w, address)
    BY <1>2, <1>3, <2>1, <2>3 DEF OpSound, CreationSound, DeletionSound
  <2>5. /\ w.seen = addressRequest[h].seen /\ w.draft = addressRequest[h].draft
        /\ w.pc # "idle" /\ addressRequest[h].pc # "commit"
    BY <1>2, <2>1
  <2> QED BY <1>6, <2>1, <2>2, <2>4, <2>5, NothingWritten
<1>8. CASE ~(left = {} \/ loaded = "default")
  <2> DEFINE w == [r EXCEPT !.pc = "promoting", !.a = b]
  <2>1. b \in AddressIds
    BY <1>5, <1>8 DEF Existing
  <2>2. addressRequest' = [addressRequest EXCEPT ![h] = w]
    BY <1>8 DEF Promote, Replacement, AddressGo
  <2> HIDE DEF b
  <2>3. /\ w \in AddressRequestType
        /\ w.pc = "promoting" /\ w.op = r.op /\ w.a = b /\ w.wanted = r.wanted
        /\ w.seen = r.seen /\ w.draft = r.draft
    BY <1>1, <2>1 DEF AddressRequestType
  <2> HIDE DEF w
  <2>4. OpSound(w) /\ CreationSound(w, address) /\ DeletionSound(w, address)
    BY <1>2, <1>3, <2>1, <2>3 DEF OpSound, CreationSound, DeletionSound
  <2>5. /\ w.seen = addressRequest[h].seen /\ w.draft = addressRequest[h].draft
        /\ w.pc # "idle" /\ addressRequest[h].pc # "commit"
    BY <1>2, <2>3
  <2> QED BY <1>6, <2>2, <2>3, <2>4, <2>5, NothingWritten
<1> QED BY <1>7, <1>8

LEMMA Promoted ==
  ASSUME AddressInv, NEW h \in AddressHandlers, PromoteRow(h)
  PROVE  AddressInv'
<1> DEFINE b == addressRequest[h].a
<1>1. Sound(addressRequest[h], address, inserted)
  BY DEF AddressInv
<1>2. /\ b \in AddressIds /\ ~RowLocked(h, b) /\ address' = address /\ inserted' = inserted
      /\ addressRequest[h].pc = "promoting"
  BY <1>1 DEF PromoteRow, Sound, OpSound
<1>3. inserted' \in 0..MaxAddresses /\ inserted <= inserted'
  BY <1>2, AddressTypes
<1>4. CASE address[b] = "absent"
  BY <1>2, <1>3, <1>4, RolledBack DEF PromoteRow
<1>5. CASE address[b] # "absent"
  <2>1. WriteDefault(h, b)
    BY <1>5 DEF PromoteRow
  <2> HIDE DEF b
  <2> QED BY <1>2, <1>3, <1>5, <2>1, DefaultWritten
<1> QED BY <1>4, <1>5

(* Every step of a request about addresses preserves the invariant.        *)
LEMMA AddressStep == AddressInv /\ [AddressNext]_addressVars => AddressInv'
<1> SUFFICES ASSUME AddressInv, [AddressNext]_addressVars
             PROVE  AddressInv'
  OBVIOUS
<1>t. inserted \in 0..MaxAddresses /\ inserted <= inserted
  BY AddressTypes
<1>1. ASSUME NEW h \in AddressHandlers, NEW asked \in BOOLEAN, CreateAddress(h, asked)
      PROVE  AddressInv'
  <2> DEFINE wanted == BecomesDefault(asked)
             pc == IF wanted THEN "clear" ELSE "write"
  <2>1. /\ Begin(h, "create", 0, wanted, pc)
        /\ wanted \in BOOLEAN /\ pc \in {"clear", "write"}
        /\ ~wanted => Existing(address) # {}
        /\ pc = "clear" => wanted
    BY <1>1 DEF CreateAddress, BecomesDefault
  <2> HIDE DEF wanted, pc
  <2> QED BY <2>1, Begun
<1>2. ASSUME NEW h \in AddressHandlers, NEW a \in AddressIds, PreferAddress(h, a)
      PROVE  AddressInv'
  BY <1>2, Begun DEF PreferAddress
<1>3. ASSUME NEW h \in AddressHandlers, NEW a \in AddressIds, UnsetAddress(h, a)
      PROVE  AddressInv'
  BY <1>3, Begun DEF UnsetAddress
<1>4. ASSUME NEW h \in AddressHandlers, NEW a \in AddressIds, DeleteAddress(h, a)
      PROVE  AddressInv'
  BY <1>4, Begun DEF DeleteAddress
<1>5. ASSUME NEW h \in AddressHandlers, AddressAbort(h)
      PROVE  AddressInv'
  BY <1>t, <1>5, RolledBack DEF AddressAbort
<1>6. CASE UNCHANGED addressVars
  BY <1>6 DEF addressVars, AddressInv, AddressTypeOK, OneDefault, Inserted, OneDraftedDefault,
              GoneForGood, RowLocked
<1> QED BY <1>1, <1>2, <1>3, <1>4, <1>5, <1>6, RowCleared, Cleared, RowInserted, RowUpdated,
           RowDeleted, Promoting, Promoted, Committed
        DEF AddressNext

LEMMA AddressStart == AddressInit => AddressInv
<1> SUFFICES ASSUME AddressInit PROVE AddressInv
  OBVIOUS
<1>1. /\ \A h \in AddressHandlers : addressRequest[h] = NoAddressRequest
      /\ addressRequest \in [AddressHandlers -> AddressRequestType]
      /\ NoAddressRequest.draft = Unwritten
  BY IdleSound DEF AddressInit, NoAddressRequest
<1>2. AddressTypeOK
  BY <1>1, MaxAddressesAssumption
  DEF AddressInit, AddressTypeOK, NoAddresses, States, RowLocked, Unwritten
<1>3. \A b \in AddressIds : address[b] = "absent"
  BY DEF AddressInit, NoAddresses
<1> QED BY <1>1, <1>2, <1>3, IdleSound
        DEF AddressInv, OneDefault, Defaults, Inserted, OneDraftedDefault, GoneForGood

-----------------------------------------------------------------------------
(* Addresses: theorems                                                     *)

(* The inductive invariant holds of every reachable state.                 *)
THEOREM AddressInductive == AddressSpec => []AddressInv
BY AddressStart, AddressStep, PTL DEF AddressSpec

(* Type correctness: no row is written by two transactions, and one that   *)
(* has ended has written none.                                             *)
THEOREM AddressTypeCorrect == AddressSpec => []AddressTypeOK
<1>1. AddressInv => AddressTypeOK
  BY DEF AddressInv
<1> QED BY <1>1, AddressInductive, PTL

(* However creations, changes and deletions interleave, a user never has   *)
(* two default addresses.                                                  *)
THEOREM AtMostOneDefault == AddressSpec => []OneDefault
<1>1. AddressInv => OneDefault
  BY DEF AddressInv
<1> QED BY <1>1, AddressInductive, PTL

(* A commit over the rows its request began with leaves a default.         *)
LEMMA CommitKeepsDefault ==
  ASSUME AddressInv, NEW h \in AddressHandlers, Commits(h),
         addressRequest[h].op # "unset", addressRequest[h].seen = address, Settled(address)
  PROVE  Settled(View(h))
<1> DEFINE r == addressRequest[h]
<1>1. /\ r \in AddressRequestType /\ Sound(r, address, inserted) /\ r.pc = "commit"
      /\ View(h) = ViewOf(r, address)
  BY AddressTypes, ViewIsView DEF AddressInv, Commits
<1>2. \A b \in AddressIds : View(h)[b] = IF r.draft[b] = "same" THEN address[b] ELSE r.draft[b]
  BY DEF View
<1>3. CASE ~NoDefaultIn(r)
  BY <1>2, <1>3 DEF NoDefaultIn, Settled, Defaults
<1>4. CASE NoDefaultIn(r) /\ r.op = "create"
  <2>1. /\ Existing(address) # {}
        /\ \A b \in AddressIds : r.draft[b] # "same" => address[b] = "absent"
    BY <1>1, <1>4 DEF Sound, OpSound, CreationSound
  <2> QED BY <1>2, <2>1 DEF Settled, Existing, Defaults
<1>5. CASE NoDefaultIn(r) /\ r.op = "delete"
  <2> DEFINE a == r.a
  <2>1. /\ a \in AddressIds /\ address[a] # "absent"
        /\ \A b \in AddressIds \ {a} : r.draft[b] = "same"
        /\ r.draft[a] = "absent"
        /\ address[a] = "default" => \A b \in AddressIds \ {a} : address[b] = "absent"
    BY <1>1, <1>5 DEF Sound, OpSound, DeletionSound
  <2> QED BY <1>2, <2>1 DEF Settled, Existing, Defaults
<1>6. r.op # "prefer" \/ ~NoDefaultIn(r)
  BY <1>1 DEF Sound, OpSound
<1> QED BY <1>1, <1>3, <1>4, <1>5, <1>6 DEF AddressRequestType

(* A user with addresses loses the default only by asking for it, or by a  *)
(* request that commits over rows another one changed since it began.      *)
THEOREM DefaultLost == AddressSpec => DefaultLostOnlyByRace
<1>1. ASSUME AddressInv, [AddressNext]_addressVars, NEW h \in AddressHandlers,
             Commits(h), addressRequest'[h] # addressRequest[h],
             Settled(address), ~Settled(address'), addressRequest[h].op # "unset"
      PROVE  addressRequest[h].seen # address
  <2>1. address' # address
    BY <1>1
  <2>2. PICK g \in AddressHandlers : AddressCommit(g)
    BY <1>1, <2>1
    DEF AddressNext, addressVars, CreateAddress, PreferAddress, UnsetAddress, DeleteAddress,
        Begin, ClearRow, ClearStart, ClearDone, InsertRow, UpdateRow, DeleteRow, Promote,
        PromoteRow, AddressAbort
  <2>3. g = h
    BY <1>1, <2>2, AddressTypes DEF AddressCommit, RollBack, AddressGo
  <2> QED BY <1>1, <2>2, <2>3, CommitKeepsDefault DEF AddressCommit
<1>2. AddressInv /\ [AddressNext]_addressVars =>
         [\A h \in AddressHandlers :
             /\ Commits(h) /\ addressRequest'[h] # addressRequest[h]
             /\ Settled(address) /\ ~Settled(address')
             => addressRequest[h].op = "unset" \/ addressRequest[h].seen # address]_addressVars
  BY <1>1
<1> QED BY <1>2, AddressInductive, PTL DEF AddressSpec, DefaultLostOnlyByRace

-----------------------------------------------------------------------------
(* Roles                                                                   *)

(* What is written was asked for by an administrator, or by the seed for   *)
(* the account it makes one, and names roles that exist.                   *)
Lawful(r) ==
    /\ r.pc # "idle" => r.asked # {} /\ (r.user = r.by \/ Admin \in r.rights)
    /\ r.pc = "loaded" => r.asked \subseteq RoleNames

RoleInv ==
    /\ RoleTypeOK
    /\ \A h \in RoleHandlers : Lawful(roleRequest[h])

LEMMA RoleRequestStep ==
  ASSUME RoleInv, NEW h \in RoleHandlers, NEW w \in RoleRequestType, RoleGo(h, w),
         roles' \in [Users -> SUBSET RoleNames], Lawful(w)
  PROVE  RoleInv'
BY DEF RoleInv, RoleTypeOK, RoleGo

LEMMA AtRestFacts ==
  ASSUME NEW u \in Users
  PROVE  AtRest(u) \in RoleRequestType /\ AtRest(u).pc = "idle" /\ Lawful(AtRest(u))
BY DEF AtRest, RoleRequestType, Lawful

(* What an assignment writes.                                              *)
LEMMA Assigned ==
  ASSUME RoleInv, NEW h \in RoleHandlers, AssignRoles(h)
  PROVE  /\ roleRequest[h].user \in Users
         /\ roles' \in [Users -> SUBSET RoleNames]
         /\ \A v \in Users \ {roleRequest[h].user} : roles'[v] = roles[v]
         /\ roleRequest[h].seen = roles[roleRequest[h].user] /\ roles' # roles =>
               roles'[roleRequest[h].user] = roleRequest[h].asked
<1> DEFINE r == roleRequest[h]
           u == r.user
           added == r.asked \ r.seen
           removed == r.seen \ r.asked
           new == (roles[u] \ removed) \cup added
<1>1. /\ u \in Users /\ r.seen \subseteq RoleNames /\ r.asked \subseteq RoleNames
      /\ roles \in [Users -> SUBSET RoleNames]
  BY DEF RoleInv, RoleTypeOK, RoleRequestType, Lawful, AssignRoles
<1>2. roles' = roles \/ roles' = [roles EXCEPT ![u] = new]
  BY DEF AssignRoles
<1>3. new \subseteq RoleNames
  BY <1>1
<1>4. r.seen = roles[u] => new = r.asked
  OBVIOUS
<1> HIDE DEF new
<1> QED BY <1>1, <1>2, <1>3, <1>4

(* Every step of an assignment preserves the invariant.                    *)
LEMMA RoleStep == RoleInv /\ [RoleNext]_roleVars => RoleInv'
<1> SUFFICES ASSUME RoleInv, [RoleNext]_roleVars
             PROVE  RoleInv'
  OBVIOUS
<1>0. /\ roles \in [Users -> SUBSET RoleNames]
      /\ roleRequest \in [RoleHandlers -> RoleRequestType]
  BY DEF RoleInv, RoleTypeOK
<1>1. ASSUME NEW h \in RoleHandlers, NEW b \in Users, NEW u \in Users,
             NEW asked \in (SUBSET Names) \ {{}}, RequireAdmin(h, b, u, asked)
      PROVE  RoleInv'
  <2> DEFINE w == Admitted(b, u, asked)
  <2>1. w \in RoleRequestType /\ Lawful(w)
    <3>1. asked \in SUBSET Names /\ asked # {} /\ roles[b] \in SUBSET RoleNames
      <4>1. asked \in (SUBSET Names) \ {{}}
        OBVIOUS
      <4>2. asked # {}
        BY <4>1
      <4> QED BY <1>0, <4>1, <4>2
    <3>2. Admin \in roles[b]
      BY <1>1 DEF RequireAdmin
    <3> QED BY <3>1, <3>2 DEF RoleRequestType, Admitted, Lawful
  <2>2. RoleGo(h, w) /\ roles' = roles
    BY <1>1 DEF RequireAdmin
  <2> HIDE DEF w
  <2> QED BY <1>0, <2>1, <2>2, RoleRequestStep
<1>2. ASSUME NEW h \in RoleHandlers, NEW u \in Users, SeedAdmin(h, u)
      PROVE  RoleInv'
  <2> DEFINE w == [pc |-> "loaded", by |-> u, user |-> u,
                   asked |-> roles[u] \cup {Admin, Customer},
                   rights |-> {}, seen |-> roles[u]]
  <2>1. w \in RoleRequestType /\ Lawful(w)
    BY <1>0, RoleAssumption DEF RoleRequestType, Names, Lawful
  <2>2. RoleGo(h, w) /\ roles' = roles
    BY <1>2 DEF SeedAdmin
  <2> HIDE DEF w
  <2> QED BY <1>0, <2>1, <2>2, RoleRequestStep
<1>3. ASSUME NEW h \in RoleHandlers, LoadRoles(h)
      PROVE  RoleInv'
  <2> DEFINE r == roleRequest[h]
  <2>1. /\ r \in RoleRequestType /\ r.user \in Users /\ roles' = roles
        /\ r.asked # {} /\ (r.user = r.by \/ Admin \in r.rights)
    BY <1>0, <1>3 DEF LoadRoles, RoleInv, RoleRequestType, Lawful
  <2>2. CASE r.asked \subseteq RoleNames
    <3>1. Loaded(h) \in RoleRequestType /\ Lawful(Loaded(h))
      BY <1>0, <2>1, <2>2 DEF Loaded, RoleRequestType, Lawful
    <3>2. RoleGo(h, Loaded(h))
      BY <1>3, <2>2 DEF LoadRoles
    <3> QED BY <1>0, <2>1, <2>2, <3>1, <3>2, RoleRequestStep
  <2>3. CASE ~(r.asked \subseteq RoleNames)
    <3>1. RoleGo(h, AtRest(r.user))
      BY <1>3, <2>3 DEF LoadRoles
    <3> QED BY <1>0, <2>1, <3>1, AtRestFacts, RoleRequestStep
  <2> QED BY <2>2, <2>3
<1>4. ASSUME NEW h \in RoleHandlers, AssignRoles(h)
      PROVE  RoleInv'
  <2>1. RoleGo(h, AtRest(roleRequest[h].user))
    BY <1>4 DEF AssignRoles
  <2> QED BY <1>4, <2>1, Assigned, AtRestFacts, RoleRequestStep
<1>5. ASSUME NEW h \in RoleHandlers, RoleAbort(h)
      PROVE  RoleInv'
  <2>1. RoleGo(h, AtRest(roleRequest[h].user)) /\ roles' = roles /\ roleRequest[h].user \in Users
    BY <1>0, <1>5 DEF RoleAbort, RoleRequestType
  <2> QED BY <1>0, <2>1, AtRestFacts, RoleRequestStep
<1>6. CASE UNCHANGED roleVars
  BY <1>6 DEF roleVars, RoleInv, RoleTypeOK
<1> QED BY <1>1, <1>2, <1>3, <1>4, <1>5, <1>6 DEF RoleNext

LEMMA RoleStart == RoleInit => RoleInv
BY RoleAssumption, AtRestFacts DEF RoleInit, RoleInv, RoleTypeOK

(* The inductive invariant, with type correctness in it, holds of every    *)
(* reachable state.                                                        *)
THEOREM RoleInductive == RoleSpec => []RoleInv
BY RoleStart, RoleStep, PTL DEF RoleSpec

(* Only an assignment changes roles, and it ends its request.              *)
LEMMA RolesChange ==
  ASSUME RoleInv, [RoleNext]_roleVars, roles' # roles
  PROVE  \E h \in RoleHandlers :
            /\ AssignRoles(h)
            /\ \A g \in RoleHandlers \ {h} : roleRequest'[g] = roleRequest[g]
<1>1. PICK h \in RoleHandlers : AssignRoles(h)
  BY DEF RoleNext, roleVars, RequireAdmin, SeedAdmin, LoadRoles, RoleAbort
<1> QED BY <1>1 DEF AssignRoles, RoleGo, RoleInv, RoleTypeOK

(* The last administrator is removed only by themselves, or by a request   *)
(* that an administrator made who is none any more.                        *)
THEOREM LastAdminStays == RoleSpec => LastAdminKept
<1>1. ASSUME RoleInv, [RoleNext]_roleVars, NEW h \in RoleHandlers,
             Admins # {}, Admins' = {}, roleRequest'[h] # roleRequest[h]
      PROVE  \/ roleRequest[h].user = roleRequest[h].by
             \/ Admin \in roleRequest[h].rights /\ roleRequest[h].by \notin Admins
  <2>1. AssignRoles(h)
    BY <1>1, RolesChange DEF Admins
  <2>2. \A v \in Users \ {roleRequest[h].user} : roles'[v] = roles[v]
    BY <1>1, <2>1, Assigned
  <2>3. roleRequest[h].user = roleRequest[h].by \/ Admin \in roleRequest[h].rights
    BY <1>1, <2>1 DEF RoleInv, Lawful, AssignRoles
  <2> QED BY <1>1, <2>2, <2>3 DEF Admins
<1>2. RoleInv /\ [RoleNext]_roleVars =>
         [\A h \in RoleHandlers :
             Admins # {} /\ Admins' = {} /\ roleRequest'[h] # roleRequest[h] =>
                \/ roleRequest[h].user = roleRequest[h].by
                \/ Admin \in roleRequest[h].rights /\ roleRequest[h].by \notin Admins]_roleVars
  BY <1>1
<1> QED BY <1>2, RoleInductive, PTL DEF RoleSpec, LastAdminKept

(* A user is left without a role only by a replacement of roles that were  *)
(* replaced since it loaded them.                                          *)
THEOREM RolelessByRace == RoleSpec => RolelessOnlyByRace
<1>1. ASSUME RoleInv, [RoleNext]_roleVars, NEW h \in RoleHandlers,
             roles[roleRequest[h].user] # {}, roles'[roleRequest[h].user] = {},
             roleRequest'[h] # roleRequest[h]
      PROVE  roleRequest[h].seen # roles[roleRequest[h].user]
  <2>1. AssignRoles(h)
    BY <1>1, RolesChange
  <2>2. roleRequest[h].asked # {}
    <3>1. roleRequest[h].pc = "loaded"
      BY <2>1 DEF AssignRoles
    <3> QED BY <1>1, <3>1 DEF RoleInv, Lawful
  <2> QED BY <1>1, <2>1, <2>2, Assigned
<1>2. RoleInv /\ [RoleNext]_roleVars =>
         [\A h \in RoleHandlers :
             LET u == roleRequest[h].user IN
             roles[u] # {} /\ roles'[u] = {} /\ roleRequest'[h] # roleRequest[h] =>
                roleRequest[h].seen # roles[u]]_roleVars
  BY <1>1
<1> QED BY <1>2, RoleInductive, PTL DEF RoleSpec, RolelessOnlyByRace

-----------------------------------------------------------------------------
(* The three parts together                                                *)

(* The service is its parts: a step of one leaves the state of the others  *)
(* alone, and what is proved of each part holds of the whole.              *)
THEOREM AccountParts == Spec => SessionSpec /\ AddressSpec /\ RoleSpec
<1>1. Init => SessionInit /\ AddressInit /\ RoleInit
  BY DEF Init
<1>2. [Next]_accountVars => /\ [SessionNext]_sessionVars
                            /\ [AddressNext]_addressVars
                            /\ [RoleNext]_roleVars
  BY DEF Next, accountVars
<1> QED BY <1>1, <1>2, PTL DEF Spec, SessionSpec, AddressSpec, RoleSpec

(* Type correctness of user-service.                                       *)
THEOREM AccountsTypeCorrect == Spec => []AccountsTypeOK
<1>1. RoleInv => RoleTypeOK
  BY DEF RoleInv
<1>2. SessionTypeOK /\ AddressTypeOK /\ RoleTypeOK => AccountsTypeOK
  BY DEF AccountsTypeOK
<1> QED BY <1>1, <1>2, AccountParts, SessionTypeCorrect, AddressTypeCorrect, RoleInductive, PTL
=============================================================================
