----------------------------- MODULE MCAccounts -----------------------------
(* user-service for TLC: sessions, addresses and roles.  The three share no*)
(* state, so that every interleaving of them is one of each: a behaviour   *)
(* of this instance exercises one of them, which TLC chooses at the start. *)
EXTENDS Sessions, Addresses, Roles, TLC

VARIABLE part   \* the part of the service that is exercised

accountVars == <<sessionVars, addressVars, roleVars, part>>

Init ==
    /\ part \in {"sessions", "addresses", "roles"}
    /\ SessionInit /\ AddressInit /\ RoleInit

Next ==
    /\ UNCHANGED part
    /\ \/ part = "sessions"  /\ SessionNext /\ UNCHANGED <<addressVars, roleVars>>
       \/ part = "addresses" /\ AddressNext /\ UNCHANGED <<sessionVars, roleVars>>
       \/ part = "roles"     /\ RoleNext    /\ UNCHANGED <<sessionVars, addressVars>>

Spec == Init /\ [][Next]_accountVars

(* The type invariants of the parts.                                       *)
AccountsTypeOK == SessionTypeOK /\ AddressTypeOK /\ RoleTypeOK

(* Two handlers of each part can be exchanged; sessions have a third.       *)
AccountSymmetry == Permutations(AddressHandlers) \cup Permutations(Tokens)
=============================================================================
