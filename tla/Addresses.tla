----------------------------- MODULE Addresses ------------------------------
(***************************************************************************)
(* user-service: the addresses of one user and which of them is the        *)
(* default.                                                                *)
(*                                                                         *)
(* Every request is a transaction under READ COMMITTED: a statement sees   *)
(* what is committed when it starts, a row another transaction has written *)
(* is waited for and then taken as it is.  draft is what a transaction has *)
(* written and not committed; a row in a draft is locked.  That PostgreSQL *)
(* ends one of two transactions that wait for each other is an Abort, as is*)
(* the refusal of a label that exists.                                     *)
(***************************************************************************)
EXTENDS Naturals

CONSTANTS
    AddressHandlers,   \* handler executions that may run at the same time
    MaxAddresses       \* bound: addresses ever inserted

ASSUME MaxAddressesAssumption == MaxAddresses \in Nat

(* Addresses are numbered in the order of their created_at.                *)
AddressIds == 1..MaxAddresses

States == {"absent", "plain", "default"}

VARIABLES
    address,         \* address[a]: the committed row
    inserted,        \* how many addresses were inserted, committed or not
    addressRequest   \* addressRequest[h]: the transaction of h

addressVars == <<address, inserted, addressRequest>>

(* seen: the rows when the request began (they stay in the session); a: the*)
(* address it is about; wanted: whether it is to become the default; todo: *)
(* the rows its UPDATE has still to clear.                                 *)
AddressRequestType ==
    [pc: {"idle", "clear", "clearing", "write", "promote", "promoting", "commit"},
     op: {"create", "prefer", "unset", "delete"},
     a: AddressIds \cup {0}, wanted: BOOLEAN, seen: [AddressIds -> States],
     todo: SUBSET AddressIds, draft: [AddressIds -> States \cup {"same"}]]

NoAddresses == [a \in AddressIds |-> "absent"]

Unwritten == [a \in AddressIds |-> "same"]

NoAddressRequest ==
    [pc |-> "idle", op |-> "create", a |-> 0, wanted |-> FALSE, seen |-> NoAddresses,
     todo |-> {}, draft |-> Unwritten]

AddressInit ==
    /\ address = NoAddresses
    /\ inserted = 0
    /\ addressRequest = [h \in AddressHandlers |-> NoAddressRequest]

Existing(rows) == {a \in AddressIds : rows[a] # "absent"}

Defaults(rows) == {a \in AddressIds : rows[a] = "default"}

(* What h sees: its own writes over what is committed.                     *)
View(h) ==
    [a \in AddressIds |->
        IF addressRequest[h].draft[a] = "same" THEN address[a] ELSE addressRequest[h].draft[a]]

RowLocked(h, a) == \E g \in AddressHandlers \ {h} : addressRequest[g].draft[a] # "same"

AddressGo(h, new) == addressRequest' = [addressRequest EXCEPT ![h] = new]

RollBack(h) == AddressGo(h, NoAddressRequest)

-----------------------------------------------------------------------------
(* The requests                                                            *)

Begin(h, op, a, wanted, pc) ==
    /\ addressRequest[h].pc = "idle"
    /\ AddressGo(h, [NoAddressRequest EXCEPT !.pc = pc, !.op = op, !.a = a,
                                             !.wanted = wanted, !.seen = address])
    /\ UNCHANGED <<address, inserted>>

(* Fault: only the payload makes an address the default.                   *)
BecomesDefaultIfAsked(asked) == asked

BecomesDefault(asked) == asked \/ Existing(address) = {}

CreateAddress(h, asked) ==
    Begin(h, "create", 0, BecomesDefault(asked),
          IF BecomesDefault(asked) THEN "clear" ELSE "write")

(* PATCH with is_default true; with is_default false, which writes only    *)
(* when the address was the default.  Other fields change nothing here.    *)
PreferAddress(h, a) == address[a] # "absent" /\ Begin(h, "prefer", a, TRUE, "clear")

UnsetAddress(h, a) == address[a] = "default" /\ Begin(h, "unset", a, FALSE, "write")

DeleteAddress(h, a) == address[a] # "absent" /\ Begin(h, "delete", a, FALSE, "write")

-----------------------------------------------------------------------------
(* _clear_default_address: one UPDATE of the rows that are there when it   *)
(* starts, row by row.                                                     *)

ClearStart(h) ==
    /\ addressRequest[h].pc = "clear"
    /\ AddressGo(h, [addressRequest[h] EXCEPT !.pc = "clearing", !.todo = Existing(address)])
    /\ UNCHANGED <<address, inserted>>

ClearRow(h, a) ==
    /\ addressRequest[h].pc = "clearing"
    /\ a \in addressRequest[h].todo
    /\ ~RowLocked(h, a)
    /\ AddressGo(h, [addressRequest[h] EXCEPT
                        !.todo = @ \ {a},
                        !.draft[a] = IF address[a] = "absent" THEN "same" ELSE "plain"])
    /\ UNCHANGED <<address, inserted>>

ClearDone(h) ==
    /\ addressRequest[h].pc = "clearing"
    /\ addressRequest[h].todo = {}
    /\ AddressGo(h, [addressRequest[h] EXCEPT !.pc = "write"])
    /\ UNCHANGED <<address, inserted>>

-----------------------------------------------------------------------------
(* uq_addresses_one_default_per_user                                       *)

(* Another transaction has written a default, or over one: its end decides.*)
IndexBusy(h) ==
    \E g \in AddressHandlers \ {h}, a \in AddressIds :
       /\ addressRequest[g].draft[a] # "same"
       /\ "default" \in {addressRequest[g].draft[a], address[a]}

(* Fault: there is no such index.                                          *)
IndexAccepts(h, b) == TRUE

IndexAllows(h, b) == Defaults(View(h)) \subseteq {b}

(* h makes b its default, or is rolled back.                               *)
WriteDefault(h, b) ==
    /\ ~IndexBusy(h)
    /\ IF IndexAllows(h, b)
       THEN AddressGo(h, [addressRequest[h] EXCEPT !.pc = "commit", !.draft[b] = "default"])
       ELSE RollBack(h)

-----------------------------------------------------------------------------
(* What a request writes before its commit                                 *)

InsertRow(h) ==
    /\ addressRequest[h].pc = "write"
    /\ addressRequest[h].op = "create"
    /\ inserted < MaxAddresses
    /\ inserted' = inserted + 1
    /\ IF addressRequest[h].wanted
       THEN WriteDefault(h, inserted')
       ELSE AddressGo(h, [addressRequest[h] EXCEPT !.pc = "commit", !.draft[inserted'] = "plain"])
    /\ UNCHANGED address

(* The UPDATE of a row that is gone is an error.                           *)
UpdateRow(h) ==
    LET a == addressRequest[h].a IN
    /\ addressRequest[h].pc = "write"
    /\ addressRequest[h].op \in {"prefer", "unset"}
    /\ ~RowLocked(h, a)
    /\ IF address[a] = "absent" THEN RollBack(h)
       ELSE IF addressRequest[h].op = "prefer" THEN WriteDefault(h, a)
       ELSE AddressGo(h, [addressRequest[h] EXCEPT !.pc = "commit", !.draft[a] = "plain"])
    /\ UNCHANGED <<address, inserted>>

(* The DELETE of a row that is gone is not.  Whether it was the default is *)
(* what the session read at its beginning.                                 *)
DeleteRow(h) ==
    LET a == addressRequest[h].a IN
    /\ addressRequest[h].pc = "write"
    /\ addressRequest[h].op = "delete"
    /\ ~RowLocked(h, a)
    /\ AddressGo(h, [addressRequest[h] EXCEPT
                        !.pc = IF addressRequest[h].seen[a] = "default" THEN "promote" ELSE "commit",
                        !.draft[a] = IF address[a] = "absent" THEN "same" ELSE "absent"])
    /\ UNCHANGED <<address, inserted>>

Oldest(as) == CHOOSE a \in as : \A b \in as : a <= b

(* ORDER BY created_at LIMIT 1                                             *)
Replacement(as) == Oldest(as)

(* An address the session has read before is taken as it was then; one that*)
(* is the default already is not written.                                  *)
Promote(h) ==
    LET left == Existing(View(h))
        b == Replacement(left)
        loaded == IF addressRequest[h].seen[b] = "absent" THEN address[b]
                  ELSE addressRequest[h].seen[b] IN
    /\ addressRequest[h].pc = "promote"
    /\ AddressGo(h, IF left = {} \/ loaded = "default"
                    THEN [addressRequest[h] EXCEPT !.pc = "commit"]
                    ELSE [addressRequest[h] EXCEPT !.pc = "promoting", !.a = b])
    /\ UNCHANGED <<address, inserted>>

PromoteRow(h) ==
    LET b == addressRequest[h].a IN
    /\ addressRequest[h].pc = "promoting"
    /\ ~RowLocked(h, b)
    /\ IF address[b] = "absent" THEN RollBack(h) ELSE WriteDefault(h, b)
    /\ UNCHANGED <<address, inserted>>

Commits(h) == addressRequest[h].pc = "commit"

AddressCommit(h) ==
    /\ Commits(h)
    /\ address' = View(h)
    /\ RollBack(h)
    /\ UNCHANGED inserted

AddressAbort(h) ==
    /\ addressRequest[h].pc # "idle"
    /\ RollBack(h)
    /\ UNCHANGED <<address, inserted>>

-----------------------------------------------------------------------------

AddressNext ==
    \E h \in AddressHandlers :
       \/ \E asked \in BOOLEAN : CreateAddress(h, asked)
       \/ \E a \in AddressIds :
             PreferAddress(h, a) \/ UnsetAddress(h, a) \/ DeleteAddress(h, a) \/ ClearRow(h, a)
       \/ ClearStart(h) \/ ClearDone(h)
       \/ InsertRow(h) \/ UpdateRow(h) \/ DeleteRow(h) \/ Promote(h) \/ PromoteRow(h)
       \/ AddressCommit(h) \/ AddressAbort(h)

AddressSpec == AddressInit /\ [][AddressNext]_addressVars

-----------------------------------------------------------------------------
(* Properties                                                              *)

(* A handler that has ended holds no row, and no row is written by two.    *)
AddressTypeOK ==
    /\ address \in [AddressIds -> States]
    /\ inserted \in 0..MaxAddresses
    /\ addressRequest \in [AddressHandlers -> AddressRequestType]
    /\ \A h \in AddressHandlers :
          /\ addressRequest[h].pc = "idle" => addressRequest[h].draft = Unwritten
          /\ \A a \in AddressIds : addressRequest[h].draft[a] # "same" => ~RowLocked(h, a)

(* Selecting another default clears the old one: no interleaving of        *)
(* creations, changes and deletions, each of which clears the defaults it  *)
(* sees, leaves a user two defaults.                                       *)
OneDefault == \A a, b \in Defaults(address) : a = b

Settled(rows) == Existing(rows) = {} \/ Defaults(rows) # {}

(* A user with addresses has a default.  A request takes it away only when *)
(* it asks for that (is_default false), or commits over rows another       *)
(* request changed since it began.                                         *)
DefaultLostOnlyByRace ==
    [][\A h \in AddressHandlers :
          /\ Commits(h) /\ addressRequest'[h] # addressRequest[h]
          /\ Settled(address) /\ ~Settled(address')
          => addressRequest[h].op = "unset" \/ addressRequest[h].seen # address]_addressVars
=============================================================================
