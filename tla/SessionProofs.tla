---------------------------- MODULE SessionProofs ----------------------------
(***************************************************************************)
(* Proofs about Sessions: a login has at most one token that can be        *)
(* exchanged, a logout ends it, and what is revoked stays so, for any      *)
(* number of handlers, accounts and tokens.                                *)
(***************************************************************************)
EXTENDS Sessions, TLAPS

-----------------------------------------------------------------------------
(* The inductive invariant                                                 *)

Presented == {"refreshing", "rotating", "leaving", "revoking"}

(* What a handler relies on between its transactions.  A token that is     *)
(* being exchanged is still valid: its row is locked, and what revokes     *)
(* without a lock of its own, the logout, waits for it.                    *)
HandlersSound ==
    \A h \in AuthHandlers :
       LET w == authRequest[h] IN
       /\ w.pc = "registering" => w.email \in Emails
       /\ w.pc \in Presented => w.token \in Issued
       /\ w.pc = "rotating" => token[w.token].status = "valid"

(* A row is locked by one transaction.                                     *)
LockedOnce ==
    \A g, h \in AuthHandlers :
       /\ authRequest[g].pc = "rotating" /\ authRequest[h].pc = "rotating"
       /\ authRequest[g].token = authRequest[h].token
       => g = h

(* What was logged out is revoked: it can no longer be exchanged.          *)
LoggedOutRevoked ==
    \A t \in Tokens : token[t].loggedOut => token[t].status = "revoked"

(* One token per login is what makes a logout final: the token it revokes  *)
(* is the only one left to revoke.                                         *)
SessionInv ==
    /\ SessionTypeOK
    /\ HandlersSound
    /\ LockedOnce
    /\ OneTokenPerLogin
    /\ LogoutEndsLogin
    /\ LoggedOutRevoked

LEMMA NoAuthFacts == NoAuth \in AuthType /\ NoAuth.pc = "idle"
BY DEF NoAuth, AuthType

(* A step that only changes the request of one handler.                    *)
LEMMA HandlerStep ==
  ASSUME SessionInv, NEW h \in AuthHandlers, NEW w \in AuthType,
         authRequest' = [authRequest EXCEPT ![h] = w],
         UNCHANGED <<users, token>>,
         w.pc = "registering" => w.email \in Emails,
         w.pc \in Presented => w.token \in Issued,
         w.pc = "rotating" => token[w.token].status = "valid" /\ ~TokenLocked(w.token)
  PROVE  SessionInv'
<1> USE DEF SessionInv
<1>1. SessionTypeOK'
  BY DEF SessionTypeOK, Issued
<1>2. HandlersSound'
  BY DEF SessionTypeOK, HandlersSound, Issued
<1>3. LockedOnce'
  BY DEF SessionTypeOK, LockedOnce, TokenLocked
<1>4. OneTokenPerLogin' /\ LogoutEndsLogin' /\ LoggedOutRevoked'
  BY DEF OneTokenPerLogin, LogoutEndsLogin, LoggedOutRevoked, Issued
<1> QED BY <1>1, <1>2, <1>3, <1>4

(* A new row, the first of a login.                                        *)
LEMMA IssuedFirst ==
  ASSUME SessionInv, NEW e \in Emails, NEW n \in Tokens \ Issued,
         NEW origin \in {"register", "login"},
         users' = users \cup {e},
         token' = [token EXCEPT ![n] = Issue(e, origin, n)],
         \A h \in AuthHandlers : authRequest'[h] \in {authRequest[h], NoAuth},
         authRequest' \in [AuthHandlers -> AuthType]
  PROVE  SessionInv'
<1> USE DEF SessionInv
<1>0. /\ token'[n] = Issue(e, origin, n)
      /\ \A t \in Tokens \ {n} : token'[t] = token[t]
      /\ Issued' = Issued \cup {n}
  BY DEF SessionTypeOK, Issued, Issue
<1>r. Issue(e, origin, n) \in TokenRow
  BY DEF TokenRow, Issue
<1>1. SessionTypeOK'
  <2>1. token' \in [Tokens -> TokenRow]
    BY <1>r DEF SessionTypeOK
  <2>2. \A t \in Issued' : /\ token'[t].email \in users'
                           /\ token'[t].login \in Issued'
                           /\ token'[token'[t].login].origin \in {"login", "register"}
    BY <1>0 DEF SessionTypeOK, Issued, Issue
  <2> QED BY <2>1, <2>2 DEF SessionTypeOK
<1>2. HandlersSound'
  BY <1>0, NoAuthFacts DEF HandlersSound, Issued, Presented
<1>3. LockedOnce'
  BY NoAuthFacts DEF LockedOnce
<1>4. OneTokenPerLogin'
  BY <1>0 DEF SessionTypeOK, OneTokenPerLogin, Issued, Issue
<1>5. LogoutEndsLogin'
  BY <1>0 DEF SessionTypeOK, LogoutEndsLogin, Issued, Issue
<1>6. LoggedOutRevoked'
  BY <1>0 DEF LoggedOutRevoked, Issue
<1> QED BY <1>1, <1>2, <1>3, <1>4, <1>5, <1>6

-----------------------------------------------------------------------------
(* The steps that write                                                    *)

(* A refresh: the token it revokes names its successor, which is the new   *)
(* valid token of the login.                                               *)
LEMMA Rotated ==
  ASSUME SessionInv, NEW h \in AuthHandlers, NEW n \in Tokens, RefreshCommit(h, n)
  PROVE  SessionInv'
<1> USE DEF SessionInv
<1> DEFINE t == authRequest[h].token
<1>0. /\ t \in Issued /\ t \in Tokens /\ n \notin Issued /\ n # t
      /\ token[t].status = "valid"
      /\ token[t].login \in Issued
      /\ authRequest[h].pc = "rotating" /\ authRequest[h].token = t
  BY DEF RefreshCommit, HandlersSound, Presented, Issued, SessionTypeOK
<1>1. \A s \in Tokens \ {n, t} : token'[s] = token[s]
  BY <1>0 DEF RefreshCommit, SessionTypeOK
<1>n. token'[n] = Issue(token[t].email, "refresh", token[t].login)
  BY <1>0 DEF RefreshCommit, SessionTypeOK
<1>f. /\ token'[t].status = "revoked" /\ token'[t].replacedBy = n
      /\ token'[t].email = token[t].email /\ token'[t].login = token[t].login
      /\ token'[t].origin = token[t].origin
      /\ token'[t] \in TokenRow
  <2>1. token'[t] = [token[t] EXCEPT !.status = "revoked", !.replacedBy = n]
    BY <1>0 DEF RefreshCommit, SessionTypeOK
  <2>2. token[t] \in TokenRow
    BY <1>0 DEF SessionTypeOK
  <2> QED BY <1>0, <2>1, <2>2 DEF TokenRow
<1>m. /\ token'[n].status = "valid" /\ token'[n].replacedBy = NoToken
      /\ token'[n].email = token[t].email /\ token'[n].login = token[t].login
      /\ ~token'[n].loggedOut
  BY <1>n DEF Issue
<1>2. /\ authRequest'[h] = NoAuth
      /\ \A g \in AuthHandlers \ {h} : authRequest'[g] = authRequest[g]
      /\ authRequest' \in [AuthHandlers -> AuthType]
      /\ users' = users
  BY NoAuthFacts DEF RefreshCommit, AuthEnd, SessionTypeOK
<1> HIDE DEF t
<1>3. Issued' = Issued \cup {n}
  BY <1>0, <1>1, <1>f, <1>m DEF Issued
<1>4. SessionTypeOK'
  <2>1. token'[n] \in TokenRow /\ token'[t] \in TokenRow
    BY <1>0, <1>f, <1>n DEF TokenRow, Issue, Issued, SessionTypeOK
  <2>2. token' \in [Tokens -> TokenRow]
    BY <1>0, <1>1, <2>1 DEF RefreshCommit, SessionTypeOK
  <2>3. \A s \in Issued' : /\ token'[s].email \in users'
                           /\ token'[s].login \in Issued'
                           /\ token'[token'[s].login].origin \in {"login", "register"}
    BY <1>0, <1>1, <1>2, <1>3, <1>f, <1>m DEF SessionTypeOK, Issued
  <2> QED BY <1>2, <2>2, <2>3 DEF SessionTypeOK
<1>5. HandlersSound'
  BY <1>0, <1>1, <1>2, <1>3, NoAuthFacts
  DEF HandlersSound, Presented, LockedOnce, Issued, SessionTypeOK
<1>6. LockedOnce'
  BY <1>2, NoAuthFacts DEF LockedOnce
<1>7. OneTokenPerLogin'
  BY <1>0, <1>1, <1>f, <1>m DEF OneTokenPerLogin
<1>8. LogoutEndsLogin'
  BY <1>0, <1>1, <1>3, <1>f, <1>m, NoTokenAssumption DEF LogoutEndsLogin, Issued
<1>9. LoggedOutRevoked'
  BY <1>0, <1>1, <1>f, <1>m DEF LoggedOutRevoked
<1> QED BY <1>4, <1>5, <1>6, <1>7, <1>8, <1>9

(* A logout: the token was the only valid one of its login, so that none is*)
(* left.                                                                   *)
LEMMA LoggedOut ==
  ASSUME SessionInv, NEW h \in AuthHandlers, LogoutCommit(h)
  PROVE  SessionInv'
<1> USE DEF SessionInv
<1> DEFINE t == authRequest[h].token
<1>0. /\ t \in Issued /\ t \in Tokens /\ token[t] \in TokenRow
      /\ ~TokenLocked(t)
  BY DEF LogoutCommit, HandlersSound, Presented, Issued, SessionTypeOK
<1>r. token'[t] = [token[t] EXCEPT !.status = "revoked", !.loggedOut = TRUE]
  BY <1>0 DEF LogoutCommit, SessionTypeOK
<1>1. \A s \in Tokens \ {t} : token'[s] = token[s]
  BY <1>0 DEF LogoutCommit, SessionTypeOK
<1>2. /\ authRequest'[h] = NoAuth
      /\ \A g \in AuthHandlers \ {h} : authRequest'[g] = authRequest[g]
      /\ authRequest' \in [AuthHandlers -> AuthType]
      /\ users' = users
  BY NoAuthFacts DEF LogoutCommit, AuthEnd, SessionTypeOK
<1>f. /\ token'[t].status = "revoked" /\ token'[t].replacedBy = token[t].replacedBy
      /\ token'[t].email = token[t].email /\ token'[t].login = token[t].login
      /\ token'[t].origin = token[t].origin
      /\ token[t].status \in {"valid", "revoked"}
  BY <1>0, <1>r DEF TokenRow, Issued
<1> HIDE DEF t
<1>3. Issued' = Issued
  BY <1>0, <1>1, <1>f DEF Issued
<1>4. SessionTypeOK'
  <2>1. \A s \in Issued' : /\ token'[s].email \in users'
                           /\ token'[s].login \in Issued'
                           /\ token'[token'[s].login].origin \in {"login", "register"}
    BY <1>0, <1>1, <1>2, <1>3, <1>f DEF SessionTypeOK, Issued
  <2>2. token'[t] \in TokenRow
    BY <1>0, <1>r DEF TokenRow
  <2>3. token' \in [Tokens -> TokenRow]
    BY <1>0, <1>1, <2>2 DEF LogoutCommit, SessionTypeOK
  <2> QED BY <1>2, <2>1, <2>3 DEF SessionTypeOK
<1>5. HandlersSound'
  BY <1>0, <1>1, <1>2, <1>3, NoAuthFacts
  DEF HandlersSound, Presented, TokenLocked, Issued
<1>6. LockedOnce'
  BY <1>2, NoAuthFacts DEF LockedOnce
<1>7. OneTokenPerLogin'
  BY <1>1, <1>f DEF OneTokenPerLogin
<1>8. LogoutEndsLogin'
  <2> SUFFICES ASSUME NEW r \in Issued, NEW s \in Issued,
                      token'[r].status = "revoked", token'[r].replacedBy = NoToken,
                      token'[r].login = token'[s].login
               PROVE  token'[s].status = "revoked"
    BY <1>3 DEF LogoutEndsLogin
  <2>1. /\ token[r].login = token[s].login /\ token[r].replacedBy = NoToken
        /\ token[s].status \in {"valid", "revoked"}
    BY <1>1, <1>f DEF Issued, SessionTypeOK, TokenRow
  <2>2. CASE token[r].status = "revoked"
    BY <1>1, <1>f, <2>1, <2>2 DEF LogoutEndsLogin, Issued
  <2>3. CASE token[r].status # "revoked"
    BY <1>1, <1>f, <2>1, <2>3 DEF OneTokenPerLogin, Issued
  <2> QED BY <2>2, <2>3
<1>9. LoggedOutRevoked'
  BY <1>1, <1>f DEF LoggedOutRevoked
<1> QED BY <1>4, <1>5, <1>6, <1>7, <1>8, <1>9

(* A logout that finds its token revoked already notes its answer.         *)
LEMMA AnsweredRevoked ==
  ASSUME SessionInv, NEW h \in AuthHandlers, LogoutRead(h),
         token[authRequest[h].token].status = "revoked"
  PROVE  SessionInv'
<1> USE DEF SessionInv
<1> DEFINE t == authRequest[h].token
<1>0. /\ t \in Tokens /\ token[t] \in TokenRow /\ token \in [Tokens -> TokenRow]
      /\ token' = [token EXCEPT ![t].loggedOut = TRUE] /\ AuthEnd(h) /\ users' = users
  BY DEF LogoutRead, HandlersSound, Presented, Issued, SessionTypeOK
<1>1. /\ authRequest'[h] = NoAuth
      /\ \A g \in AuthHandlers \ {h} : authRequest'[g] = authRequest[g]
      /\ authRequest' \in [AuthHandlers -> AuthType]
  BY <1>0, NoAuthFacts DEF AuthEnd, SessionTypeOK
<1>2. \A s \in Tokens : /\ token'[s].status = token[s].status
                        /\ token'[s].email = token[s].email
                        /\ token'[s].replacedBy = token[s].replacedBy
                        /\ token'[s].origin = token[s].origin
                        /\ token'[s].login = token[s].login
                        /\ s # t => token'[s] = token[s]
  BY <1>0 DEF TokenRow
<1>3. token' \in [Tokens -> TokenRow]
  <2>1. [token[t] EXCEPT !.loggedOut = TRUE] \in TokenRow
    BY <1>0 DEF TokenRow
  <2> QED BY <1>0, <2>1
<1>s. token[t].status = "revoked"
  OBVIOUS
<1> HIDE DEF t
<1>4. Issued' = Issued
  BY <1>2 DEF Issued
<1>5. SessionTypeOK'
  BY <1>0, <1>1, <1>2, <1>3, <1>4 DEF SessionTypeOK, Issued
<1>6. HandlersSound'
  BY <1>1, <1>2, <1>4, NoAuthFacts DEF HandlersSound, Presented, Issued
<1>7. LockedOnce'
  BY <1>1, NoAuthFacts DEF LockedOnce
<1>8. OneTokenPerLogin' /\ LogoutEndsLogin'
  BY <1>2, <1>4 DEF OneTokenPerLogin, LogoutEndsLogin, Issued
<1>9. LoggedOutRevoked'
  BY <1>2, <1>s DEF LoggedOutRevoked
<1> QED BY <1>5, <1>6, <1>7, <1>8, <1>9

-----------------------------------------------------------------------------

(* Every step of user-service preserves the invariant.                     *)
LEMMA SessionStep == SessionInv /\ [SessionNext]_sessionVars => SessionInv'
<1> SUFFICES ASSUME SessionInv, [SessionNext]_sessionVars
             PROVE  SessionInv'
  OBVIOUS
<1>0. /\ authRequest \in [AuthHandlers -> AuthType]
      /\ NoAuth \in AuthType /\ NoAuth.pc = "idle" /\ "idle" \notin Presented
  BY NoAuthFacts DEF SessionInv, SessionTypeOK, Presented
<1>a. ASSUME NEW h \in AuthHandlers, AuthEnd(h), UNCHANGED <<users, token>>
      PROVE  SessionInv'
  BY <1>0, <1>a, HandlerStep DEF AuthEnd
<1>b. CASE UNCHANGED sessionVars
  BY <1>b DEF sessionVars, SessionInv, SessionTypeOK, HandlersSound, LockedOnce,
              OneTokenPerLogin, LogoutEndsLogin, LoggedOutRevoked, Issued
<1>1. ASSUME NEW h \in AuthHandlers, NEW e \in Emails, RegisterCheck(h, e)
      PROVE  SessionInv'
  <2> DEFINE w == [pc |-> "registering", email |-> e, token |-> NoToken]
  <2>1. w \in AuthType /\ w.pc = "registering" /\ w.email = e
    BY DEF AuthType
  <2>2. authRequest' = [authRequest EXCEPT ![h] = w] /\ UNCHANGED <<users, token>>
    BY <1>1 DEF RegisterCheck
  <2> HIDE DEF w
  <2> QED BY <2>1, <2>2, HandlerStep DEF Presented
<1>2. ASSUME NEW h \in AuthHandlers, NEW n \in Tokens, RegisterCommit(h, n)
      PROVE  SessionInv'
  <2> DEFINE e == authRequest[h].email
  <2>1. CASE e \in users
    BY <1>2, <1>a, <2>1 DEF RegisterCommit
  <2>2. CASE e \notin users
    <3>1. e \in Emails
      BY <1>2 DEF RegisterCommit, SessionInv, HandlersSound
    <3>2. /\ authRequest' \in [AuthHandlers -> AuthType]
          /\ \A g \in AuthHandlers : authRequest'[g] \in {authRequest[g], NoAuth}
      BY <1>0, <1>2 DEF RegisterCommit, AuthEnd
    <3>3. /\ users' = users \cup {e} /\ n \in Tokens \ Issued
          /\ token' = [token EXCEPT ![n] = Issue(e, "register", n)]
      BY <1>2, <2>2 DEF RegisterCommit
    <3> HIDE DEF e
    <3> QED BY <3>1, <3>2, <3>3, IssuedFirst
  <2> QED BY <2>1, <2>2
<1>3. ASSUME NEW h \in AuthHandlers, NEW t \in Tokens, NEW pc \in {"refreshing", "leaving"},
             Present(h, pc, t)
      PROVE  SessionInv'
  <2> DEFINE w == [pc |-> pc, email |-> NoEmail, token |-> t]
  <2>1. w \in AuthType /\ w.pc = pc /\ w.token = t /\ t \in Issued
    BY <1>3 DEF AuthType, Present
  <2>2. CASE token[t].expired
    BY <1>3, <1>b, <2>2 DEF Present, sessionVars
  <2>3. CASE ~token[t].expired
    <3>1. authRequest' = [authRequest EXCEPT ![h] = w] /\ UNCHANGED <<users, token>>
      BY <1>3, <2>3 DEF Present
    <3> HIDE DEF w
    <3> QED BY <2>1, <3>1, HandlerStep DEF Presented
  <2> QED BY <2>2, <2>3
<1>4. ASSUME NEW h \in AuthHandlers, RefreshLock(h)
      PROVE  SessionInv'
  <2> DEFINE w == [authRequest[h] EXCEPT !.pc = "rotating"]
  <2>1. /\ w \in AuthType /\ w.pc = "rotating" /\ w.token = authRequest[h].token
        /\ w.token \in Issued
    BY <1>0, <1>4 DEF AuthType, RefreshLock, SessionInv, HandlersSound, Presented
  <2>2. CASE token[authRequest[h].token].status = "valid"
    <3>1. authRequest' = [authRequest EXCEPT ![h] = w] /\ UNCHANGED <<users, token>>
      BY <1>4, <2>2 DEF RefreshLock, AuthGo
    <3>2. token[w.token].status = "valid" /\ ~TokenLocked(w.token)
      BY <1>4, <2>1, <2>2 DEF RefreshLock
    <3> HIDE DEF w
    <3> QED BY <2>1, <3>1, <3>2, HandlerStep DEF Presented
  <2>3. CASE token[authRequest[h].token].status # "valid"
    BY <1>4, <1>a, <2>3 DEF RefreshLock
  <2> QED BY <2>2, <2>3
<1>5. ASSUME NEW h \in AuthHandlers, LogoutRead(h)
      PROVE  SessionInv'
  <2> DEFINE w == [authRequest[h] EXCEPT !.pc = "revoking"]
  <2>1. /\ w \in AuthType /\ w.pc = "revoking" /\ w.token = authRequest[h].token
        /\ w.token \in Issued
    BY <1>0, <1>5 DEF AuthType, LogoutRead, SessionInv, HandlersSound, Presented
  <2>2. CASE token[authRequest[h].token].status = "valid"
    <3>1. authRequest' = [authRequest EXCEPT ![h] = w] /\ UNCHANGED <<users, token>>
      BY <1>5, <2>2 DEF LogoutRead, AuthGo
    <3> HIDE DEF w
    <3> QED BY <2>1, <3>1, HandlerStep DEF Presented
  <2>3. CASE token[authRequest[h].token].status # "valid"
    <3>1. token[authRequest[h].token].status = "revoked"
      BY <1>5, <2>3 DEF LogoutRead
    <3> QED BY <1>5, <3>1, AnsweredRevoked
  <2> QED BY <2>2, <2>3
<1>6. ASSUME NEW h \in AuthHandlers, AuthAbort(h)
      PROVE  SessionInv'
  BY <1>6, <1>a DEF AuthAbort
<1>7. ASSUME NEW e \in Emails, NEW n \in Tokens, Login(e, n)
      PROVE  SessionInv'
  <2>1. /\ users' = users \cup {e} /\ n \in Tokens \ Issued
        /\ token' = [token EXCEPT ![n] = Issue(e, "login", n)]
        /\ authRequest' = authRequest
    BY <1>7 DEF Login
  <2> QED BY <1>0, <2>1, IssuedFirst
<1>8. ASSUME NEW t \in Tokens, TokenExpires(t)
      PROVE  SessionInv'
  <2>0. /\ token' = [token EXCEPT ![t] = [token[t] EXCEPT !.expired = TRUE]]
        /\ users' = users /\ authRequest' = authRequest
        /\ token \in [Tokens -> TokenRow]
    BY <1>8 DEF TokenExpires, SessionInv, SessionTypeOK
  <2>1. token' \in [Tokens -> TokenRow]
    <3>1. [token[t] EXCEPT !.expired = TRUE] \in TokenRow
      BY <2>0 DEF TokenRow
    <3> QED BY <2>0, <3>1
  <2>2. \A s \in Tokens : /\ token'[s].status = token[s].status
                          /\ token'[s].email = token[s].email
                          /\ token'[s].replacedBy = token[s].replacedBy
                          /\ token'[s].origin = token[s].origin
                          /\ token'[s].login = token[s].login
                          /\ token'[s].loggedOut = token[s].loggedOut
    BY <2>0 DEF TokenRow
  <2>3. Issued' = Issued
    BY <2>2 DEF Issued
  <2>4. SessionTypeOK'
    BY <2>0, <2>1, <2>2, <2>3 DEF SessionInv, SessionTypeOK, Issued
  <2>5. HandlersSound' /\ LockedOnce'
    BY <2>0, <2>2, <2>3 DEF SessionInv, HandlersSound, LockedOnce, Issued
  <2>6. OneTokenPerLogin' /\ LogoutEndsLogin' /\ LoggedOutRevoked'
    BY <2>2, <2>3 DEF SessionInv, OneTokenPerLogin, LogoutEndsLogin, LoggedOutRevoked, Issued
  <2> QED BY <2>4, <2>5, <2>6 DEF SessionInv
<1> QED BY <1>1, <1>2, <1>3, <1>4, <1>5, <1>6, <1>7, <1>8, <1>b, Rotated, LoggedOut
        DEF SessionNext

LEMMA SessionStart == SessionInit => SessionInv
<1> SUFFICES ASSUME SessionInit PROVE SessionInv
  OBVIOUS
<1>1. Issued = {} /\ Unissued \in TokenRow
  BY DEF SessionInit, Issued, Unissued, TokenRow
<1>2. SessionTypeOK
  BY <1>1, NoAuthFacts DEF SessionInit, SessionTypeOK
<1> QED BY <1>1, <1>2, NoAuthFacts
        DEF SessionInit, SessionInv, HandlersSound, LockedOnce, OneTokenPerLogin,
            LogoutEndsLogin, LoggedOutRevoked, Unissued, Presented

(* The inductive invariant holds of every reachable state.                 *)
THEOREM SessionInductive == SessionSpec => []SessionInv
BY SessionStart, SessionStep, PTL DEF SessionSpec

-----------------------------------------------------------------------------

(* Every row of refresh_tokens goes back to a token that a login or a      *)
(* registration issued to a registered user.                               *)
THEOREM SessionTypeCorrect == SessionSpec => []SessionTypeOK
<1>1. SessionInv => SessionTypeOK
  BY DEF SessionInv
<1> QED BY <1>1, SessionInductive, PTL

(* Rotation is one-time: a login never has two tokens that can be          *)
(* exchanged.                                                              *)
THEOREM RotationIsOneTime == SessionSpec => []OneTokenPerLogin
<1>1. SessionInv => OneTokenPerLogin
  BY DEF SessionInv
<1> QED BY <1>1, SessionInductive, PTL

(* After a logout that revoked a token without a successor no token of the *)
(* login can be exchanged.                                                 *)
THEOREM LogoutIsFinal == SessionSpec => []LogoutEndsLogin
<1>1. SessionInv => LogoutEndsLogin
  BY DEF SessionInv
<1> QED BY <1>1, SessionInductive, PTL

(* A login survives a logout that was answered 204 only where the token    *)
(* handed in had been exchanged.                                           *)
THEOREM LogoutOutlivedByExchange == SessionSpec => []SurvivesLogoutOnlyExchanged
<1>1. ASSUME SessionInv, NEW s \in Issued, NEW t \in Issued,
             token[s].loggedOut, token[t].status = "valid", token[s].login = token[t].login
      PROVE  token[s].replacedBy # NoToken
  <2>1. token[s].status = "revoked"
    BY <1>1 DEF SessionInv, LoggedOutRevoked, Issued
  <2> QED BY <1>1, <2>1 DEF SessionInv, LogoutEndsLogin
<1>2. SessionInv => SurvivesLogoutOnlyExchanged
  BY <1>1 DEF SurvivesLogoutOnlyExchanged
<1> QED BY <1>2, SessionInductive, PTL

(* A revoked token is never valid again, and its successor never changes.  *)
THEOREM RevokedTokens == SessionSpec => RevokedForGood
<1>1. ASSUME SessionInv, [SessionNext]_sessionVars, NEW t \in Tokens, token[t].status = "revoked"
      PROVE  token'[t].status = "revoked" /\ token'[t].replacedBy = token[t].replacedBy
  <2>0. /\ token \in [Tokens -> TokenRow] /\ t \in Issued
    BY <1>1 DEF SessionInv, SessionTypeOK, Issued
  <2>1. ASSUME NEW h \in AuthHandlers, NEW n \in Tokens, RegisterCommit(h, n)
        PROVE  token'[t] = token[t]
    BY <2>0, <2>1 DEF RegisterCommit
  <2>2. ASSUME NEW h \in AuthHandlers, NEW n \in Tokens, RefreshCommit(h, n)
        PROVE  token'[t] = token[t]
    <3>1. authRequest[h].token # t
      BY <1>1, <2>2 DEF RefreshCommit, SessionInv, HandlersSound
    <3> QED BY <2>0, <2>2, <3>1 DEF RefreshCommit
  <2>3. ASSUME NEW h \in AuthHandlers, LogoutCommit(h)
        PROVE  token'[t].status = "revoked" /\ token'[t].replacedBy = token[t].replacedBy
    BY <1>1, <2>0, <2>3 DEF LogoutCommit, TokenRow
  <2>4. ASSUME NEW e \in Emails, NEW n \in Tokens, Login(e, n)
        PROVE  token'[t] = token[t]
    BY <2>0, <2>4 DEF Login
  <2>5. ASSUME NEW s \in Tokens, TokenExpires(s)
        PROVE  token'[t].status = "revoked" /\ token'[t].replacedBy = token[t].replacedBy
    BY <1>1, <2>0, <2>5 DEF TokenExpires, TokenRow
  <2>6. ASSUME NEW h \in AuthHandlers, LogoutRead(h)
        PROVE  token'[t].status = "revoked" /\ token'[t].replacedBy = token[t].replacedBy
    BY <1>1, <2>0, <2>6 DEF LogoutRead, TokenRow
  <2>7. ASSUME token' = token
        PROVE  token'[t] = token[t]
    BY <2>7
  <2> QED BY <1>1, <2>1, <2>2, <2>3, <2>4, <2>5, <2>6, <2>7
          DEF SessionNext, sessionVars, RegisterCheck, Present, RefreshLock, AuthAbort
<1>2. SessionInv /\ [SessionNext]_sessionVars =>
         [\A t \in Tokens :
             token[t].status = "revoked" =>
                token'[t].status = "revoked" /\ token'[t].replacedBy = token[t].replacedBy]_sessionVars
  BY <1>1
<1> QED BY <1>2, SessionInductive, PTL DEF SessionSpec, RevokedForGood
=============================================================================
