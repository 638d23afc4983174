-------------------------- MODULE AuthSessionsProofs --------------------------
(***************************************************************************)
(* Proofs about AuthSessions for any Users, sessions, token pairs, mailed  *)
(* codes and any number of Logins at the same time.                        *)
(***************************************************************************)
EXTENDS AuthSessions, TLAPS

\* The refresh tokens of a session form a chain: all but the last are exchanged,
\* and the last is the partner of the access token in the sessions row.
Chained ==
    /\ \A p \in Pairs : session[p] # None => owner[session[p]] # None
    /\ \A p \in Pairs : session[p] = None => ~ consumed[p]
    /\ \A s \in Sessions : owner[s] # None => session[pair[s]] = s /\ ~ consumed[pair[s]]
    /\ \A p \in Pairs : session[p] # None /\ ~ consumed[p] => pair[session[p]] = p

\* Sessions and Logins are of Users who have registered, and what is not opened is
\* neither revoked nor replayed.
Registered ==
    /\ \A s \in Sessions : owner[s] # None => password[owner[s]] # 0
    /\ \A r \in Requests : login[r] # None => password[login[r]] # 0
    /\ \A s \in Sessions : owner[s] = None => ~ revoked[s] /\ s \notin replayed

ReplayRevokes == \A s \in replayed : revoked[s]

CodesOK == \A k \in Codes : code[k].status = "usable" => code[k].user # None

IInv ==
    /\ TypeOK
    /\ Chained
    /\ Registered
    /\ ReplayRevokes
    /\ ResetSignsOut
    /\ CodesOK
    /\ OneCodeWorks

LEMMA InitIInv == Init => IInv
BY AuthAssumption DEF Init, IInv, TypeOK, Chained, Registered, ReplayRevokes, ResetSignsOut,
   CodesOK, OneCodeWorks, NoCode, Purposes

\* What opening a session does to sessions and tokens; the handler has set the
\* password the User then has.
LEMMA OpenSessionKeeps ==
    ASSUME IInv, NEW u \in Users, NEW s \in Sessions, NEW p \in Pairs,
           OpenSession(u, s, p), UNCHANGED <<expiry, code>>,
           password' \in [Users -> Nat], verified' \in [Users -> BOOLEAN], UNCHANGED unlinked,
           login' \in [Requests -> Users \cup {None}],
           password'[u] # 0,
           \A v \in Users : password[v] # 0 => password'[v] = password[v],
           \A r \in Requests : login'[r] # None => login'[r] = login[r] \/ login'[r] = u
    PROVE  IInv'
<1> USE AuthAssumption
<1>1. TypeOK'
  BY DEF IInv, TypeOK, OpenSession
<1>2. Chained'
  BY DEF IInv, TypeOK, Chained, OpenSession
<1>3. Registered'
  BY DEF IInv, TypeOK, Registered, OpenSession
<1>4. ReplayRevokes'
  BY DEF IInv, TypeOK, ReplayRevokes, OpenSession
<1>5. ResetSignsOut'
  BY DEF IInv, TypeOK, Registered, ResetSignsOut, OpenSession
<1>6. CodesOK' /\ OneCodeWorks'
  BY DEF IInv, CodesOK, OneCodeWorks
<1> QED BY <1>1, <1>2, <1>3, <1>4, <1>5, <1>6 DEF IInv

LEMMA RegisterIInv ==
    ASSUME IInv, NEW u \in Users, NEW s \in Sessions, NEW p \in Pairs, Register(u, s, p)
    PROVE  IInv'
<1>1. /\ password' \in [Users -> Nat] /\ password'[u] # 0
      /\ \A v \in Users : password[v] # 0 => password'[v] = password[v]
  BY DEF IInv, TypeOK, Register
<1>2. OpenSession(u, s, p) /\ UNCHANGED <<unlinked, expiry, code, verified, login>>
  BY DEF Register
<1>3. verified' \in [Users -> BOOLEAN] /\ login' \in [Requests -> Users \cup {None}]
  BY <1>2 DEF IInv, TypeOK
<1> QED BY <1>1, <1>2, <1>3, OpenSessionKeeps

LEMMA LoginIInv ==
    ASSUME IInv, NEW r \in Requests
    PROVE  /\ \A u \in Users : LoginVerified(r, u) => IInv'
           /\ \A s \in Sessions, p \in Pairs : LoginCommit(r, s, p) => IInv'
           /\ LoginFails(r) => IInv'
<1> USE AuthAssumption
<1>1. ASSUME NEW u \in Users, LoginVerified(r, u)
      PROVE  IInv'
  BY <1>1 DEF IInv, TypeOK, Chained, Registered, ReplayRevokes, ResetSignsOut, CodesOK,
     OneCodeWorks, LoginVerified, sessionVars, accountVars
<1>2. ASSUME NEW s \in Sessions, NEW p \in Pairs, LoginCommit(r, s, p)
      PROVE  IInv'
  <2>1. login[r] \in Users /\ password[login[r]] # 0
    BY <1>2 DEF IInv, TypeOK, Registered, LoginCommit
  <2>2. OpenSession(login[r], s, p) /\ UNCHANGED <<password, unlinked, verified, expiry, code>>
    BY <1>2 DEF LoginCommit, accountVars
  <2>3. /\ password' \in [Users -> Nat] /\ verified' \in [Users -> BOOLEAN]
        /\ password'[login[r]] # 0
        /\ \A v \in Users : password[v] # 0 => password'[v] = password[v]
    BY <2>1, <2>2 DEF IInv, TypeOK
  <2>4. /\ login' \in [Requests -> Users \cup {None}]
        /\ \A q \in Requests : login'[q] # None => login'[q] = login[q]
    BY <1>2 DEF IInv, TypeOK, LoginCommit
  <2> QED BY <2>1, <2>2, <2>3, <2>4, OpenSessionKeeps
<1>3. ASSUME LoginFails(r)
      PROVE  IInv'
  BY <1>3 DEF IInv, TypeOK, Chained, Registered, ReplayRevokes, ResetSignsOut, CodesOK,
     OneCodeWorks, LoginFails, sessionVars, accountVars
<1> QED BY <1>1, <1>2, <1>3

LEMMA RotateIInv ==
    ASSUME IInv, NEW p \in Pairs, NEW q \in Pairs, Rotate(p, q)
    PROVE  IInv'
<1> USE AuthAssumption
<1>1. TypeOK'
  BY DEF IInv, TypeOK, Chained, Rotate, accountVars
<1>2. Chained'
  <2>1. session[p] \in Sessions /\ owner[session[p]] # None /\ pair[session[p]] = p /\ p # q
    BY DEF IInv, TypeOK, Chained, Rotate, Exchangeable
  <2> QED BY <2>1 DEF IInv, TypeOK, Chained, Rotate, accountVars
<1>3. Registered' /\ ReplayRevokes' /\ ResetSignsOut' /\ CodesOK' /\ OneCodeWorks'
  BY DEF IInv, Registered, ReplayRevokes, ResetSignsOut, CodesOK, OneCodeWorks, Rotate, accountVars
<1> QED BY <1>1, <1>2, <1>3 DEF IInv

LEMMA RotateRefusedIInv ==
    ASSUME IInv, NEW p \in Pairs, RotateRefused(p)
    PROVE  IInv'
<1>1. session[p] \in Sessions /\ owner[session[p]] # None
  BY DEF IInv, TypeOK, Chained, RotateRefused
<1> QED BY <1>1 DEF IInv, TypeOK, Chained, Registered, ReplayRevokes, ResetSignsOut, CodesOK,
           OneCodeWorks, RotateRefused, accountVars

LEMMA LogoutIInv ==
    ASSUME IInv, NEW p \in Pairs, NEW q \in Pairs, Logout(p, q)
    PROVE  IInv'
<1>1. session[p] \in Sessions /\ owner[session[p]] # None
  BY DEF IInv, TypeOK, Chained, Logout
<1> QED BY <1>1 DEF IInv, TypeOK, Chained, Registered, ReplayRevokes, ResetSignsOut, CodesOK,
           OneCodeWorks, Logout, accountVars

LEMMA ExpireIInv ==
    ASSUME IInv, NEW p \in Pairs, Expire(p)
    PROVE  IInv'
BY DEF IInv, TypeOK, Chained, Registered, ReplayRevokes, ResetSignsOut, CodesOK, OneCodeWorks,
   Expire, sessionVars, accountVars

\* The steps that change mailed codes only.
LEMMA CreateEmailTokenIInv ==
    ASSUME IInv, NEW u \in Users, NEW purpose \in Purposes, NEW k \in Codes,
           CreateEmailToken(u, purpose, k)
    PROVE  IInv'
<1> USE AuthAssumption
<1>1. TypeOK'
  BY DEF IInv, TypeOK, CreateEmailToken, sessionVars, accountVars
<1>2. CodesOK' /\ OneCodeWorks'
  BY DEF IInv, TypeOK, CodesOK, OneCodeWorks, CreateEmailToken, CodesOf
<1>3. Chained' /\ Registered' /\ ReplayRevokes' /\ ResetSignsOut'
  BY DEF IInv, Chained, Registered, ReplayRevokes, ResetSignsOut, CreateEmailToken, sessionVars,
         accountVars
<1> QED BY <1>1, <1>2, <1>3 DEF IInv

LEMMA CodeIInv ==
    ASSUME IInv, NEW k \in Codes, CooldownEnds(k) \/ CodeExpires(k) \/ VerifyEmail(k)
           \/ ResetFindsNone(k)
    PROVE  IInv'
<1> USE AuthAssumption
<1>1. TypeOK'
  <2>1. code[k].user \in Users \cup {None} /\ (code[k].status = "usable" => code[k].user \in Users)
    BY DEF IInv, TypeOK, CodesOK
  <2>2. CASE CooldownEnds(k)
    <3> DEFINE Code == [user : Users \cup {None}, purpose : Purposes \cup {None},
                        status : {"none", "usable", "spent"}, recent : BOOLEAN]
    <3>1. code \in [Codes -> Code] /\ code' = [code EXCEPT ![k].recent = FALSE]
      BY <2>2 DEF IInv, TypeOK, CooldownEnds
    <3>2. [code[k] EXCEPT !.recent = FALSE] \in Code
      BY <3>1, Zenon
    <3>3. code' \in [Codes -> Code]
      BY ONLY <3>1, <3>2
    <3> QED BY <2>2, <3>3 DEF IInv, TypeOK, CooldownEnds, sessionVars, accountVars
  <2>3. CASE CodeExpires(k)
    BY <2>3 DEF IInv, TypeOK, CodeExpires, sessionVars, accountVars
  <2>4. CASE VerifyEmail(k)
    BY <2>1, <2>4 DEF IInv, TypeOK, VerifyEmail, sessionVars, accountVars
  <2>5. CASE ResetFindsNone(k)
    BY <2>5 DEF IInv, TypeOK, ResetFindsNone, sessionVars, accountVars
  <2> QED BY <2>2, <2>3, <2>4, <2>5
<1>2. CodesOK' /\ OneCodeWorks'
  <2>1. \A j \in Codes : /\ code'[j].user = code[j].user
                         /\ code'[j].purpose = code[j].purpose
                         /\ code'[j].status = "usable" => code[j].status = "usable"
    <3>1. \A j \in Codes \ {k} : code'[j] = code[j]
      BY DEF IInv, TypeOK, CooldownEnds, CodeExpires, VerifyEmail, ResetFindsNone
    <3>2. \/ code'[k] = [code[k] EXCEPT !.recent = FALSE]
          \/ code'[k] = [code[k] EXCEPT !.status = "spent"]
      BY DEF IInv, TypeOK, CooldownEnds, CodeExpires, VerifyEmail, ResetFindsNone
    <3>3. /\ code'[k].user = code[k].user
          /\ code'[k].purpose = code[k].purpose
          /\ code'[k].status = "usable" => code[k].status = "usable"
      <4>1. code[k] \in [user : Users \cup {None}, purpose : Purposes \cup {None},
                         status : {"none", "usable", "spent"}, recent : BOOLEAN]
        BY DEF IInv, TypeOK
      <4> QED BY ONLY <3>2, <4>1
    <3> QED BY ONLY <3>1, <3>3
  <2>2. CodesOK'
    BY <2>1 DEF IInv, CodesOK
  <2>3. OneCodeWorks'
    <3>1. OneCodeWorks
      BY DEF IInv
    <3> QED BY ONLY <2>1, <3>1 DEF OneCodeWorks
  <2> QED BY <2>2, <2>3
<1>3. Chained' /\ Registered' /\ ReplayRevokes' /\ ResetSignsOut'
  BY DEF IInv, Chained, Registered, ReplayRevokes, ResetSignsOut, CooldownEnds, CodeExpires,
     VerifyEmail, ResetFindsNone, sessionVars, accountVars
<1> QED BY <1>1, <1>2, <1>3 DEF IInv

LEMMA UnlinkIInv ==
    ASSUME IInv, NEW u \in Users, UnlinkPassword(u)
    PROVE  IInv'
BY DEF IInv, TypeOK, Chained, Registered, ReplayRevokes, ResetSignsOut, CodesOK, OneCodeWorks,
   UnlinkPassword, sessionVars

LEMMA ResetPasswordIInv ==
    ASSUME IInv, NEW k \in Codes, ResetPassword(k)
    PROVE  IInv'
<1> USE AuthAssumption
<1> DEFINE u == code[k].user
<1>1. u \in Users
  BY DEF IInv, TypeOK, CodesOK, ResetPassword
<1>2. TypeOK'
  BY <1>1 DEF IInv, TypeOK, ResetPassword
<1>3. CodesOK' /\ OneCodeWorks'
  BY DEF IInv, TypeOK, CodesOK, OneCodeWorks, ResetPassword
<1>4. Chained' /\ ReplayRevokes'
  BY DEF IInv, TypeOK, Chained, ReplayRevokes, ResetPassword
<1>5. /\ password' = [password EXCEPT ![u] = @ + 1]
      /\ revoked' = [s \in Sessions |-> revoked[s] \/ owner[s] = u]
      /\ UNCHANGED <<owner, login, opened, replayed>>
  BY DEF ResetPassword
<1> HIDE DEF u
<1>6. /\ \A v \in Users : v # u => password'[v] = password[v]
      /\ password'[u] # 0
  <2>1. password \in [Users -> Nat]
    BY DEF IInv, TypeOK
  <2> QED BY ONLY <1>1, <1>5, <2>1
<1>7. Registered'
  BY <1>1, <1>5, <1>6 DEF IInv, TypeOK, Registered
<1>8. ResetSignsOut'
  BY <1>5, <1>6 DEF IInv, TypeOK, ResetSignsOut
<1> QED BY <1>2, <1>3, <1>4, <1>7, <1>8 DEF IInv

LEMMA NextIInv == IInv /\ [Next]_vars => IInv'
<1> SUFFICES ASSUME IInv, [Next]_vars PROVE IInv'
  OBVIOUS
<1>1. ASSUME NEW u \in Users, NEW s \in Sessions, NEW p \in Pairs, Register(u, s, p)
      PROVE  IInv'
  BY <1>1, RegisterIInv
<1>2. ASSUME NEW r \in Requests,
             \/ \E u \in Users : LoginVerified(r, u)
             \/ \E s \in Sessions, p \in Pairs : LoginCommit(r, s, p)
             \/ LoginFails(r)
      PROVE  IInv'
  BY <1>2, LoginIInv
<1>3. ASSUME NEW p \in Pairs, NEW q \in Pairs, Rotate(p, q) \/ Logout(p, q)
      PROVE  IInv'
  BY <1>3, RotateIInv, LogoutIInv
<1>4. ASSUME NEW p \in Pairs, RotateRefused(p) \/ Expire(p)
      PROVE  IInv'
  BY <1>4, RotateRefusedIInv, ExpireIInv
<1>5. ASSUME NEW u \in Users, NEW purpose \in Purposes, NEW k \in Codes,
             CreateEmailToken(u, purpose, k)
      PROVE  IInv'
  BY <1>5, CreateEmailTokenIInv
<1>6. ASSUME NEW k \in Codes,
             CooldownEnds(k) \/ CodeExpires(k) \/ VerifyEmail(k) \/ ResetPassword(k)
             \/ ResetFindsNone(k)
      PROVE  IInv'
  BY <1>6, CodeIInv, ResetPasswordIInv
<1>7. ASSUME NEW u \in Users, UnlinkPassword(u)
      PROVE  IInv'
  BY <1>7, UnlinkIInv
<1>8. CASE UNCHANGED vars
  BY <1>8 DEF vars, sessionVars, accountVars, IInv, TypeOK, Chained, Registered, ReplayRevokes,
     ResetSignsOut, CodesOK, OneCodeWorks
<1> QED BY <1>1, <1>2, <1>3, <1>4, <1>5, <1>6, <1>7, <1>8 DEF Next

\* The invariant holds throughout.
LEMMA AlwaysIInv == Spec => []IInv
BY InitIInv, NextIInv, PTL DEF Spec

\* Every variable keeps its type.
THEOREM TypeCorrect == Spec => []TypeOK
<1>1. IInv => TypeOK
  BY DEF IInv
<1> QED BY <1>1, AlwaysIInv, PTL

\* However often refresh tokens are exchanged, and by however many clients, a session
\* has one unexchanged token, that of its current pair (RotateSession).
THEOREM OnePair == Spec => []OnePairPerSession
<1>1. IInv => OnePairPerSession
  <2> SUFFICES ASSUME IInv, NEW s \in Sessions, owner[s] # None
               PROVE  {p \in Pairs : session[p] = s /\ ~ consumed[p]} = {pair[s]}
    BY DEF OnePairPerSession
  <2>1. pair[s] \in Pairs /\ session[pair[s]] = s /\ ~ consumed[pair[s]]
    BY DEF IInv, TypeOK, Chained
  <2>2. ASSUME NEW p \in Pairs, session[p] = s, ~ consumed[p]
        PROVE  p = pair[s]
    BY <2>2, AuthAssumption DEF IInv, Chained
  <2> QED BY <2>1, <2>2
<1> QED BY <1>1, AlwaysIInv, PTL

\* A session whose exchanged token is presented again is over, and none of the tokens
\* it was ever given authenticates anyone (RotateSession's committed revocation).
THEOREM ReplayEnds == Spec => []ReplayEndsSession
<1>1. IInv => ReplayEndsSession
  <2> SUFFICES ASSUME IInv, NEW s \in replayed
               PROVE  revoked[s] /\ \A p \in Pairs : session[p] = s => AuthenticatesAs(p) = {}
    BY DEF ReplayEndsSession
  <2>1. s \in Sessions /\ revoked[s]
    BY DEF IInv, TypeOK, ReplayRevokes
  <2>2. ASSUME NEW p \in Pairs, session[p] = s, NEW t \in Sessions, owner[t] # None, pair[t] = p
        PROVE  revoked[t]
    BY <2>1, <2>2 DEF IInv, Chained
  <2> QED BY <2>1, <2>2 DEF AuthenticatesAs
<1> QED BY <1>1, AlwaysIInv, PTL

\* No session open at a password reset outlives it (ResetPassword).
THEOREM ResetEnds == Spec => []ResetSignsOut
<1>1. IInv => ResetSignsOut
  BY DEF IInv
<1> QED BY <1>1, AlwaysIInv, PTL

\* However many mails are asked for, one code per User and purpose works
\* (CreateEmailToken).
THEOREM OneCode == Spec => []OneCodeWorks
<1>1. IInv => OneCodeWorks
  BY DEF IInv
<1> QED BY <1>1, AlwaysIInv, PTL

\* A session that has ended, revoked or with both its tokens expired, never gets
\* another pair (RotateSession).
THEOREM EndedStays == Spec => EndedIsFinal
<1>1. IInv /\ [Next]_vars => [\A s \in Sessions : Ended(s) => Ended(s)' /\ pair'[s] = pair[s]]_vars
  <2> SUFFICES ASSUME IInv, Next, NEW s \in Sessions, Ended(s)
               PROVE  Ended(s)' /\ pair'[s] = pair[s]
    OBVIOUS
  <2> USE AuthAssumption
  <2>1. ASSUME NEW u \in Users, NEW t \in Sessions, NEW p \in Pairs, OpenSession(u, t, p),
               expiry' = expiry
        PROVE  Ended(s)' /\ pair'[s] = pair[s]
    BY <2>1 DEF Ended, OpenSession, IInv, TypeOK
  <2>2. ASSUME NEW p \in Pairs, NEW q \in Pairs, Rotate(p, q)
        PROVE  Ended(s)' /\ pair'[s] = pair[s]
    BY <2>2 DEF Ended, Rotate, Exchangeable, IInv, TypeOK
  <2>3. ASSUME NEW p \in Pairs, NEW q \in Pairs, Logout(p, q)
        PROVE  Ended(s)' /\ pair'[s] = pair[s]
    BY <2>3 DEF Ended, Logout, IInv, TypeOK
  <2>4. ASSUME NEW p \in Pairs, RotateRefused(p) \/ Expire(p)
        PROVE  Ended(s)' /\ pair'[s] = pair[s]
    BY <2>4 DEF Ended, RotateRefused, Expire, sessionVars, accountVars, IInv, TypeOK
  <2>5. ASSUME NEW k \in Codes,
               CooldownEnds(k) \/ CodeExpires(k) \/ VerifyEmail(k) \/ ResetPassword(k)
               \/ ResetFindsNone(k)
        PROVE  Ended(s)' /\ pair'[s] = pair[s]
    BY <2>5 DEF Ended, CooldownEnds, CodeExpires, VerifyEmail, ResetPassword, ResetFindsNone,
       sessionVars, accountVars, IInv, TypeOK
  <2>6. ASSUME UNCHANGED <<owner, pair, revoked, expiry>>
        PROVE  Ended(s)' /\ pair'[s] = pair[s]
    BY <2>6 DEF Ended
  <2>7. ASSUME NEW u \in Users, NEW t \in Sessions, NEW p \in Pairs, Register(u, t, p)
        PROVE  Ended(s)' /\ pair'[s] = pair[s]
    BY <2>1, <2>7 DEF Register
  <2>8. ASSUME NEW r \in Requests, NEW t \in Sessions, NEW p \in Pairs, LoginCommit(r, t, p)
        PROVE  Ended(s)' /\ pair'[s] = pair[s]
    <3>1. login[r] \in Users
      BY <2>8 DEF LoginCommit, IInv, TypeOK
    <3> QED BY <2>1, <2>8, <3>1 DEF LoginCommit
  <2>9. ASSUME NEW r \in Requests, LoginFails(r) \/ \E u \in Users : LoginVerified(r, u)
        PROVE  Ended(s)' /\ pair'[s] = pair[s]
    BY <2>6, <2>9 DEF LoginFails, LoginVerified, sessionVars, accountVars
  <2>10. ASSUME NEW u \in Users, NEW purpose \in Purposes, NEW k \in Codes,
                CreateEmailToken(u, purpose, k)
         PROVE  Ended(s)' /\ pair'[s] = pair[s]
    BY <2>6, <2>10 DEF CreateEmailToken, sessionVars, accountVars
  <2>11. ASSUME NEW u \in Users, UnlinkPassword(u)
         PROVE  Ended(s)' /\ pair'[s] = pair[s]
    BY <2>6, <2>11 DEF UnlinkPassword, sessionVars
  <2> QED BY <2>2, <2>3, <2>4, <2>5, <2>7, <2>8, <2>9, <2>10, <2>11 DEF Next
<1> QED BY <1>1, AlwaysIInv, PTL DEF Spec, EndedIsFinal
=============================================================================
