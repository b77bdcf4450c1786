------------------------------- MODULE Roles --------------------------------
(***************************************************************************)
(* user-service: the roles of users, which administrators replace as a     *)
(* whole.  assign_roles reads the roles a user has and writes the          *)
(* difference to those it was asked for, row by row of user_roles.         *)
(***************************************************************************)

CONSTANTS
    RoleHandlers,  \* handler executions that may run at the same time
    Users,         \* registered users
    RoleNames,     \* the rows of roles
    NotARole,      \* a name without such a row
    Admin,         \* the role that require_admin asks for
    Customer       \* the role of a new registration

ASSUME RoleAssumption ==
    {Admin, Customer} \subseteq RoleNames /\ NotARole \notin RoleNames

VARIABLES
    roles,         \* roles[u]: the committed rows of user_roles of u
    roleRequest    \* roleRequest[h]: the transaction of h

roleVars == <<roles, roleRequest>>

Names == RoleNames \cup {NotARole}

(* by: who asks; rights: the roles they had when they were let in; seen:   *)
(* the roles of the user as loaded.                                        *)
RoleRequestType ==
    [pc: {"idle", "admitted", "loaded"}, by: Users, user: Users,
     asked: SUBSET Names, rights: SUBSET RoleNames, seen: SUBSET RoleNames]

AtRest(u) ==
    [pc |-> "idle", by |-> u, user |-> u, asked |-> {}, rights |-> {}, seen |-> {}]

RoleInit ==
    /\ roles = [u \in Users |-> {Customer}]
    /\ \E u \in Users : roleRequest = [h \in RoleHandlers |-> AtRest(u)]

RoleGo(h, new) == roleRequest' = [roleRequest EXCEPT ![h] = new]

Admitted(b, u, asked) ==
    [pc |-> "admitted", by |-> b, user |-> u, asked |-> asked,
     rights |-> roles[b], seen |-> {}]

(* Fault: any account is let in.                                           *)
RequireAnyone(h, b, u, asked) ==
    /\ roleRequest[h].pc = "idle"
    /\ RoleGo(h, Admitted(b, u, asked))
    /\ UNCHANGED roles

(* require_admin asks the database, not the token.                         *)
RequireAdmin(h, b, u, asked) ==
    /\ roleRequest[h].pc = "idle"
    /\ Admin \in roles[b]
    /\ RoleGo(h, Admitted(b, u, asked))
    /\ UNCHANGED roles

(* What require_admin loaded of the administrator is in the session: of    *)
(* one who asks for themselves nothing is read again.                      *)
Loaded(h) ==
    LET r == roleRequest[h] IN
    [r EXCEPT !.pc = "loaded",
              !.seen = IF r.user = r.by THEN r.rights ELSE roles[r.user]]

(* A name that is not a role is answered 422.                              *)
LoadRoles(h) ==
    LET r == roleRequest[h] IN
    /\ r.pc = "admitted"
    /\ RoleGo(h, IF r.asked \subseteq RoleNames THEN Loaded(h) ELSE AtRest(r.user))
    /\ UNCHANGED roles

(* make seed: the bootstrap administrator gets the roles it lacks.         *)
SeedAdmin(h, u) ==
    /\ roleRequest[h].pc = "idle"
    /\ RoleGo(h, [pc |-> "loaded", by |-> u, user |-> u,
                  asked |-> roles[u] \cup {Admin, Customer},
                  rights |-> {}, seen |-> roles[u]])
    /\ UNCHANGED roles

(* Fault: the rows are replaced, but those the user had are not written    *)
(* again.                                                                  *)
AssignDifference(h) ==
    LET r == roleRequest[h] IN
    /\ r.pc = "loaded"
    /\ roles' = [roles EXCEPT ![r.user] = (@ \ r.seen) \cup (r.asked \ r.seen)]
    /\ RoleGo(h, AtRest(r.user))

(* A row that another request inserted meanwhile violates the primary key: *)
(* the request fails.  (Where a row to delete is gone it may fail too.)    *)
AssignRoles(h) ==
    LET r == roleRequest[h]
        added == r.asked \ r.seen
        removed == r.seen \ r.asked IN
    /\ r.pc = "loaded"
    /\ roles' = IF added \cap roles[r.user] # {} THEN roles
                ELSE [roles EXCEPT ![r.user] = (@ \ removed) \cup added]
    /\ RoleGo(h, AtRest(r.user))

RoleAbort(h) ==
    /\ roleRequest[h].pc # "idle"
    /\ RoleGo(h, AtRest(roleRequest[h].user))
    /\ UNCHANGED roles

RoleNext ==
    \E h \in RoleHandlers :
       \/ \E b, u \in Users, asked \in (SUBSET Names) \ {{}} :
             RequireAdmin(h, b, u, asked)
       \/ \E u \in Users : SeedAdmin(h, u)
       \/ LoadRoles(h) \/ AssignRoles(h) \/ RoleAbort(h)

RoleSpec == RoleInit /\ [][RoleNext]_roleVars

-----------------------------------------------------------------------------
(* Properties                                                              *)

(* Users have roles that exist.                                            *)
RoleTypeOK ==
    /\ roles \in [Users -> SUBSET RoleNames]
    /\ roleRequest \in [RoleHandlers -> RoleRequestType]

Admins == {u \in Users : Admin \in roles[u]}

(* The shop is left without an administrator only by one who gives up      *)
(* their own role, or by a request that was let in as an administrator's   *)
(* while the last administrators took that role from each other.  Nobody   *)
(* who was not an administrator when their request came ever does it.      *)
LastAdminKept ==
    [][\A h \in RoleHandlers :
          LET r == roleRequest[h] IN
          Admins # {} /\ Admins' = {} /\ roleRequest'[h] # r =>
             \/ r.user = r.by
             \/ Admin \in r.rights /\ r.by \notin Admins]_roleVars

(* At least one role is required: a user is left without one only by a     *)
(* replacement of roles that were replaced since it loaded them.           *)
RolelessOnlyByRace ==
    [][\A h \in RoleHandlers :
          LET u == roleRequest[h].user IN
          roles[u] # {} /\ roles'[u] = {} /\ roleRequest'[h] # roleRequest[h] =>
             roleRequest[h].seen # roles[u]]_roleVars
=============================================================================
