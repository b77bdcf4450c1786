------------------------------ MODULE Sessions ------------------------------
(***************************************************************************)
(* user-service: registration, login, and the refresh tokens of a login.   *)
(*                                                                         *)
(* A refresh exchanges its token under a row lock (SELECT ... FOR UPDATE), *)
(* a logout reads the row without one.  A handler is cut where another     *)
(* transaction can run between what it read and what it writes.  An answer *)
(* that is lost leaves the rows as they are, and the client with the token *)
(* it had: any token that was ever issued may be presented at any time.    *)
(***************************************************************************)

CONSTANTS
    AuthHandlers,  \* handler executions that may run at the same time
    Emails,        \* normalised e-mail addresses
    Tokens,        \* refresh tokens (a row is found by jti and hash)
    NoEmail, NoToken

ASSUME NoTokenAssumption == NoToken \notin Tokens /\ NoEmail \notin Emails

VARIABLES
    users,         \* the e-mail addresses that have an account
    token,         \* token[t]: its row in refresh_tokens
    authRequest    \* authRequest[h]: the request h works on

sessionVars == <<users, token, authRequest>>

(* status and replacedBy are revoked_at and replaced_by_jti; expired is    *)
(* expires_at <= now.  Not columns, but kept to speak about sessions: the  *)
(* request that issued the token, the token of the login it goes back to,  *)
(* and whether a logout with it was answered 204.                          *)
TokenRow ==
    [status: {"unissued", "valid", "revoked"},
     expired: BOOLEAN,
     email: Emails \cup {NoEmail},
     replacedBy: Tokens \cup {NoToken},
     origin: {"none", "register", "login", "refresh"},
     login: Tokens \cup {NoToken},
     loggedOut: BOOLEAN]

Unissued ==
    [status |-> "unissued", expired |-> FALSE, email |-> NoEmail,
     replacedBy |-> NoToken, origin |-> "none", login |-> NoToken,
     loggedOut |-> FALSE]

AuthType ==
    [pc: {"idle", "registering", "refreshing", "rotating", "leaving", "revoking"},
     email: Emails \cup {NoEmail}, token: Tokens \cup {NoToken}]

NoAuth == [pc |-> "idle", email |-> NoEmail, token |-> NoToken]

SessionInit ==
    /\ users = {}
    /\ token = [t \in Tokens |-> Unissued]
    /\ authRequest = [h \in AuthHandlers |-> NoAuth]

Issued == {t \in Tokens : token[t].status # "unissued"}

TokenLocked(t) ==
    \E h \in AuthHandlers : authRequest[h].pc = "rotating" /\ authRequest[h].token = t

AuthGo(h, pc) == authRequest' = [authRequest EXCEPT ![h].pc = pc]

AuthEnd(h) == authRequest' = [authRequest EXCEPT ![h] = NoAuth]

(* The row _issue_token_pair adds.                                         *)
Issue(e, origin, root) ==
    [status |-> "valid", expired |-> FALSE, email |-> e,
     replacedBy |-> NoToken, origin |-> origin, login |-> root,
     loggedOut |-> FALSE]

-----------------------------------------------------------------------------
(* register and login                                                      *)

(* The first check finds no account; hashing the password takes a while.   *)
RegisterCheck(h, e) ==
    /\ authRequest[h].pc = "idle"
    /\ e \notin users
    /\ authRequest' = [authRequest EXCEPT
                         ![h] = [pc |-> "registering", email |-> e, token |-> NoToken]]
    /\ UNCHANGED <<users, token>>

(* Fault: the token is committed before the account is.                    *)
RegisterTokenFirst(h, n) ==
    LET e == authRequest[h].email IN
    /\ authRequest[h].pc = "registering"
    /\ n \notin Issued
    /\ token' = [token EXCEPT ![n] = Issue(e, "register", n)]
    /\ AuthEnd(h)
    /\ UNCHANGED users

(* The account and its first token are one transaction, which the unique   *)
(* e-mail address lets succeed once; the other is rolled back and answered *)
(* 409.                                                                    *)
RegisterCommit(h, n) ==
    LET e == authRequest[h].email IN
    /\ authRequest[h].pc = "registering"
    /\ n \notin Issued
    /\ IF e \in users
       THEN UNCHANGED <<users, token>>
       ELSE /\ users' = users \cup {e}
            /\ token' = [token EXCEPT ![n] = Issue(e, "register", n)]
    /\ AuthEnd(h)

Login(e, n) ==
    /\ e \in users
    /\ n \notin Issued
    /\ token' = [token EXCEPT ![n] = Issue(e, "login", n)]
    /\ UNCHANGED <<users, authRequest>>

-----------------------------------------------------------------------------
(* refresh and logout                                                      *)

(* Expiry is settled when the request comes, for a refresh and a logout    *)
(* alike: decode_token answers 401, and the query compares with that time. *)
Present(h, pc, t) ==
    /\ authRequest[h].pc = "idle"
    /\ t \in Issued
    /\ IF token[t].expired
       THEN UNCHANGED authRequest
       ELSE authRequest' = [authRequest EXCEPT
                              ![h] = [pc |-> pc, email |-> NoEmail, token |-> t]]
    /\ UNCHANGED <<users, token>>

(* Fault: the row is read without FOR UPDATE.                              *)
RefreshUnlocked(h) ==
    /\ authRequest[h].pc = "refreshing"
    /\ IF token[authRequest[h].token].status = "valid"
       THEN AuthGo(h, "rotating") ELSE AuthEnd(h)
    /\ UNCHANGED <<users, token>>

(* Fault: the query does not ask for revoked_at IS NULL.                   *)
RefreshRevoked(h) ==
    LET t == authRequest[h].token IN
    /\ authRequest[h].pc = "refreshing"
    /\ ~TokenLocked(t)
    /\ AuthGo(h, "rotating")
    /\ UNCHANGED <<users, token>>

(* The select waits for the row; the one that waited sees it as it is      *)
(* after the wait, and answers 401 when it no longer qualifies.            *)
RefreshLock(h) ==
    LET t == authRequest[h].token IN
    /\ authRequest[h].pc = "refreshing"
    /\ ~TokenLocked(t)
    /\ IF token[t].status = "valid" THEN AuthGo(h, "rotating") ELSE AuthEnd(h)
    /\ UNCHANGED <<users, token>>

(* Fault: the successor is not recorded.                                   *)
RotateUnrecorded(h, n) ==
    LET t == authRequest[h].token IN
    /\ authRequest[h].pc = "rotating"
    /\ n \notin Issued
    /\ token' = [token EXCEPT ![t].status = "revoked",
                              ![n] = Issue(token[t].email, "refresh", token[t].login)]
    /\ AuthEnd(h)
    /\ UNCHANGED users

RefreshCommit(h, n) ==
    LET t == authRequest[h].token IN
    /\ authRequest[h].pc = "rotating"
    /\ n \notin Issued
    /\ token' = [token EXCEPT ![t].status = "revoked", ![t].replacedBy = n,
                              ![n] = Issue(token[t].email, "refresh", token[t].login)]
    /\ AuthEnd(h)
    /\ UNCHANGED users

(* A revoked token is answered 204 at once.                                *)
LogoutRead(h) ==
    LET t == authRequest[h].token IN
    /\ authRequest[h].pc = "leaving"
    /\ \/ /\ token[t].status = "valid"
          /\ AuthGo(h, "revoking")
          /\ UNCHANGED token
       \/ /\ token[t].status = "revoked"
          /\ token' = [token EXCEPT ![t].loggedOut = TRUE]
          /\ AuthEnd(h)
    /\ UNCHANGED users

(* Fault: 204 is answered, but nothing is committed.                       *)
LogoutUncommitted(h) ==
    LET t == authRequest[h].token IN
    /\ authRequest[h].pc = "revoking"
    /\ ~TokenLocked(t)
    /\ token' = [token EXCEPT ![t].loggedOut = TRUE]
    /\ AuthEnd(h)
    /\ UNCHANGED users

(* The update waits for a refresh that has the row locked, then revokes    *)
(* what that refresh has revoked already.                                  *)
LogoutCommit(h) ==
    LET t == authRequest[h].token IN
    /\ authRequest[h].pc = "revoking"
    /\ ~TokenLocked(t)
    /\ token' = [token EXCEPT ![t].status = "revoked", ![t].loggedOut = TRUE]
    /\ AuthEnd(h)
    /\ UNCHANGED users

(* Timeout, disconnect, crash: the transaction is rolled back.             *)
AuthAbort(h) ==
    /\ authRequest[h].pc # "idle"
    /\ AuthEnd(h)
    /\ UNCHANGED <<users, token>>

TokenExpires(t) ==
    /\ t \in Issued
    /\ ~token[t].expired
    /\ token' = [token EXCEPT ![t].expired = TRUE]
    /\ UNCHANGED <<users, authRequest>>

-----------------------------------------------------------------------------

SessionNext ==
    \/ \E h \in AuthHandlers :
          \/ \E e \in Emails : RegisterCheck(h, e)
          \/ \E n \in Tokens : RegisterCommit(h, n) \/ RefreshCommit(h, n)
          \/ \E t \in Tokens : Present(h, "refreshing", t) \/ Present(h, "leaving", t)
          \/ RefreshLock(h) \/ LogoutRead(h) \/ LogoutCommit(h) \/ AuthAbort(h)
    \/ \E e \in Emails, n \in Tokens : Login(e, n)
    \/ \E t \in Tokens : TokenExpires(t)

SessionSpec == SessionInit /\ [][SessionNext]_sessionVars

-----------------------------------------------------------------------------
(* Properties                                                              *)

(* Rows and requests have their types; every token was issued to a         *)
(* registered user and goes back to a token that was issued by a login or  *)
(* a registration.                                                         *)
SessionTypeOK ==
    /\ users \subseteq Emails
    /\ token \in [Tokens -> TokenRow]
    /\ authRequest \in [AuthHandlers -> AuthType]
    /\ \A t \in Issued :
          /\ token[t].email \in users
          /\ token[t].login \in Issued
          /\ token[token[t].login].origin \in {"login", "register"}

(* Rotation is one-time: however many refreshes and logouts of its tokens  *)
(* run at once or are repeated, a login never has two tokens that can be   *)
(* exchanged.                                                              *)
OneTokenPerLogin ==
    \A s, t \in Tokens :
       token[s].status = "valid" /\ token[t].status = "valid"
       /\ token[s].login = token[t].login => s = t

(* Logout ends a session for good: a login whose chain ends in a token that*)
(* was revoked without a successor has no token left to exchange.          *)
LogoutEndsLogin ==
    \A s, t \in Issued :
       token[s].status = "revoked" /\ token[s].replacedBy = NoToken
       /\ token[s].login = token[t].login => token[t].status = "revoked"

(* A login survives a logout that was answered 204 only where the token    *)
(* that was handed in had been exchanged: its successor is not looked for. *)
SurvivesLogoutOnlyExchanged ==
    \A s, t \in Issued :
       token[s].loggedOut /\ token[t].status = "valid"
       /\ token[s].login = token[t].login => token[s].replacedBy # NoToken

(* A token is exchanged at most once, and never after a logout: what is    *)
(* revoked stays so, with the successor it has or without one, also when a *)
(* refresh has begun before.                                               *)
RevokedForGood ==
    [][\A t \in Tokens :
          token[t].status = "revoked" =>
             token'[t].status = "revoked" /\ token'[t].replacedBy = token[t].replacedBy]_sessionVars
=============================================================================
