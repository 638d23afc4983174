----------------------------- MODULE AuthSessions -----------------------------
(***************************************************************************)
(* The sessions of aster-server's accounts: Register, Login, Refresh and   *)
(* Logout (internal/auth/service.go, postgres.go) and the mailed codes     *)
(* that verify an address or reset a password (account.go,                 *)
(* account_postgres.go).                                                   *)
(*                                                                         *)
(* A session holds one access token; its refresh tokens form a chain of    *)
(* which each is exchanged for the next.  The access and the refresh token *)
(* that are issued together are one "pair" here.  A transaction that locks *)
(* the rows it reads is one step; Login reads and writes in two.           *)
(***************************************************************************)
EXTENDS Integers, FiniteSets

CONSTANTS
    Users,
    Sessions,
    Pairs,          \* token pairs, each issued at most once
    Codes,          \* mailed codes, each issued at most once
    Requests,       \* Login handlers that may run at the same time
    None,
    MaxResets       \* bound of the model on the password versions of a User

ASSUME AuthAssumption ==
    /\ MaxResets \in Nat
    /\ None \notin Users \cup Sessions \cup Pairs \cup Codes

Purposes == {"VERIFY_EMAIL", "RESET_PASSWORD"}

VARIABLES
    password,       \* version of the password hash, 0 before Register
    unlinked,       \* Users whose Password identity was unlinked
    verified,       \* users.email_verified
    owner,          \* sessions.user_id
    pair,           \* the pair whose access token the sessions row holds
    revoked,        \* sessions.revoked_at is set
    session,        \* session_refresh_tokens.session_id
    consumed,       \* consumed_at is set
    expiry,         \* of a pair: fresh, access token expired, both expired
    code,           \* email_tokens
    login,          \* Login handlers: the User whose password was verified
    opened,         \* the password's version when a session was opened (history)
    replayed        \* sessions whose exchanged token was presented again (history)

accountVars == <<password, unlinked, verified>>
sessionVars == <<owner, pair, revoked, session, consumed, opened, replayed>>
vars == <<accountVars, sessionVars, expiry, code, login>>

NoCode == [user |-> None, purpose |-> None, status |-> "none", recent |-> FALSE]

Init ==
    /\ password = [u \in Users |-> 0]
    /\ unlinked = {}
    /\ verified = [u \in Users |-> FALSE]
    /\ owner = [s \in Sessions |-> None]
    /\ pair = [s \in Sessions |-> None]
    /\ revoked = [s \in Sessions |-> FALSE]
    /\ session = [p \in Pairs |-> None]
    /\ consumed = [p \in Pairs |-> FALSE]
    /\ expiry = [p \in Pairs |-> "fresh"]
    /\ code = [k \in Codes |-> NoCode]
    /\ login = [r \in Requests |-> None]
    /\ opened = [s \in Sessions |-> 0]
    /\ replayed = {}
-----------------------------------------------------------------------------
(* Sessions.                                                               *)

\* insertSession: the row and the first refresh token of its chain.
OpenSession(u, s, p) ==
    /\ owner[s] = None
    /\ session[p] = None
    /\ owner' = [owner EXCEPT ![s] = u]
    /\ pair' = [pair EXCEPT ![s] = p]
    /\ session' = [session EXCEPT ![p] = s]
    /\ opened' = [opened EXCEPT ![s] = password'[u]]
    /\ UNCHANGED <<revoked, consumed, replayed>>

\* CreatePasswordUser: the User, the identity and the first session together.
Register(u, s, p) ==
    /\ password[u] = 0
    /\ password' = [password EXCEPT ![u] = 1]
    /\ OpenSession(u, s, p)
    /\ UNCHANGED <<unlinked, verified, expiry, code, login>>

\* Login reads the password hash and verifies it without a lock ...
LoginVerified(r, u) ==
    /\ login[r] = None
    /\ password[u] > 0 /\ u \notin unlinked
    /\ login' = [login EXCEPT ![r] = u]
    /\ UNCHANGED <<accountVars, sessionVars, expiry, code>>

\* ... and opens the session in a transaction of its own, or fails to.
LoginCommit(r, s, p) ==
    /\ login[r] # None
    /\ UNCHANGED <<accountVars, expiry, code>>
    /\ OpenSession(login[r], s, p)
    /\ login' = [login EXCEPT ![r] = None]

LoginFails(r) ==
    /\ login[r] # None
    /\ login' = [login EXCEPT ![r] = None]
    /\ UNCHANGED <<accountVars, sessionVars, expiry, code>>

\* UnlinkAuthenticationMethod, of a User who has a Google identity as well (see
\* AuthIdentities): the Password never comes back.
UnlinkPassword(u) ==
    /\ password[u] > 0 /\ u \notin unlinked
    /\ unlinked' = unlinked \cup {u}
    /\ UNCHANGED <<password, verified, sessionVars, expiry, code, login>>

\* RotateSession locks the refresh token and its session, so it is one step.
ExchangeableUnrevoked(p) ==
    /\ ~ consumed[p]
    /\ expiry[p] # "both"
    /\ expiry[pair[session[p]]] # "both"
Exchangeable(p) ==
    /\ ~ consumed[p]
    /\ ~ revoked[session[p]]
    /\ expiry[p] # "both"
    /\ expiry[pair[session[p]]] # "both"

RotateWithoutConsuming(p, q) ==
    /\ session[p] # None
    /\ Exchangeable(p)
    /\ session[q] = None
    /\ pair' = [pair EXCEPT ![session[p]] = q]
    /\ session' = [session EXCEPT ![q] = session[p]]
    /\ UNCHANGED <<accountVars, owner, revoked, consumed, expiry, code, login,
                   opened, replayed>>
Rotate(p, q) ==
    /\ session[p] # None
    /\ Exchangeable(p)
    /\ session[q] = None
    /\ consumed' = [consumed EXCEPT ![p] = TRUE]
    /\ pair' = [pair EXCEPT ![session[p]] = q]
    /\ session' = [session EXCEPT ![q] = session[p]]
    /\ UNCHANGED <<accountVars, owner, revoked, expiry, code, login, opened,
                   replayed>>

\* Any other token of a session, an exchanged one above all, ends the session:
\* the revocation is committed before the error is returned.
RotateRefusedRolledBack(p) ==
    /\ session[p] # None
    /\ ~ Exchangeable(p)
    /\ replayed' = replayed \cup (IF consumed[p] THEN {session[p]} ELSE {})
    /\ UNCHANGED <<accountVars, owner, pair, revoked, session, consumed, expiry,
                   code, login, opened>>
RotateRefused(p) ==
    /\ session[p] # None
    /\ ~ Exchangeable(p)
    /\ revoked' = [revoked EXCEPT ![session[p]] = TRUE]
    /\ replayed' = replayed \cup (IF consumed[p] THEN {session[p]} ELSE {})
    /\ UNCHANGED <<accountVars, owner, pair, session, consumed, expiry, code,
                   login, opened>>

\* RevokeSession: Logout needs the current access token, expired or not, and an
\* unexchanged refresh token of the same session.
Logout(p, q) ==
    /\ session[p] # None
    /\ pair[session[p]] = p
    /\ ~ revoked[session[p]]
    /\ session[q] = session[p]
    /\ ~ consumed[q]
    /\ revoked' = [revoked EXCEPT ![session[p]] = TRUE]
    /\ UNCHANGED <<accountVars, owner, pair, session, consumed, expiry, code,
                   login, opened, replayed>>

\* FindUserByAccessToken: whom the access token of a pair stands for.
AuthenticatesAs(p) ==
    {owner[s] : s \in {t \in Sessions : /\ owner[t] # None
                                        /\ pair[t] = p
                                        /\ ~ revoked[t]
                                        /\ expiry[p] = "fresh"}}

Expire(p) ==
    /\ session[p] # None
    /\ expiry[p] # "both"
    /\ expiry' = [expiry EXCEPT ![p] = IF @ = "fresh" THEN "access" ELSE "both"]
    /\ UNCHANGED <<accountVars, sessionVars, code, login>>
-----------------------------------------------------------------------------
(* Mailed codes.                                                           *)

CodesOf(u, purpose) == {k \in Codes : code[k].user = u /\ code[k].purpose = purpose}

\* CreateEmailToken, under the lock of the User's row: nothing within the
\* cooldown, else earlier codes are spent and a new one is stored.  The checks that
\* an address is not verified yet, or that there is a Password to reset, were made
\* on an earlier read of the User.
CreateEmailTokenKeepingOld(u, purpose, k) ==
    /\ password[u] > 0
    /\ code[k] = NoCode
    /\ \A j \in CodesOf(u, purpose) : ~ code[j].recent
    /\ code' = [code EXCEPT ![k] = [user |-> u, purpose |-> purpose,
                                    status |-> "usable", recent |-> TRUE]]
    /\ UNCHANGED <<accountVars, sessionVars, expiry, login>>
CreateEmailToken(u, purpose, k) ==
    /\ password[u] > 0
    /\ code[k] = NoCode
    /\ \A j \in CodesOf(u, purpose) : ~ code[j].recent
    /\ code' = [j \in Codes |->
                  IF j = k THEN [user |-> u, purpose |-> purpose, status |-> "usable",
                                 recent |-> TRUE]
                  ELSE IF j \in CodesOf(u, purpose)
                       THEN [code[j] EXCEPT !.status = "spent"] ELSE code[j]]
    /\ UNCHANGED <<accountVars, sessionVars, expiry, login>>

\* A minute passes since the code was stored; the code's lifetime ends.
CooldownEnds(k) ==
    /\ code[k].recent
    /\ code' = [code EXCEPT ![k].recent = FALSE]
    /\ UNCHANGED <<accountVars, sessionVars, expiry, login>>
CodeExpires(k) ==
    /\ code[k].status = "usable"
    /\ ~ code[k].recent
    /\ code' = [code EXCEPT ![k].status = "spent"]
    /\ UNCHANGED <<accountVars, sessionVars, expiry, login>>

\* consumeEmailToken, then what the code is for.  The address a code was sent to is
\* the User's for good: no statement changes users.normalized_email, so the UPDATE
\* that asks for the same address always finds the row.
VerifyEmail(k) ==
    /\ code[k].status = "usable"
    /\ code[k].purpose = "VERIFY_EMAIL"
    /\ code' = [code EXCEPT ![k].status = "spent"]
    /\ verified' = [verified EXCEPT ![code[k].user] = TRUE]
    /\ UNCHANGED <<password, unlinked, sessionVars, expiry, login>>

\* ResetPassword: one transaction changes the password, verifies the address,
\* revokes every session of the User and spends the other reset codes.
ResetKeepingSessions(k) ==
    LET u == code[k].user
    IN  /\ code[k].status = "usable"
        /\ code[k].purpose = "RESET_PASSWORD"
        /\ u \notin unlinked
        /\ password[u] <= MaxResets
        /\ code' = [j \in Codes |-> IF j \in CodesOf(u, "RESET_PASSWORD")
                                    THEN [code[j] EXCEPT !.status = "spent"] ELSE code[j]]
        /\ password' = [password EXCEPT ![u] = @ + 1]
        /\ verified' = [verified EXCEPT ![u] = TRUE]
        /\ UNCHANGED <<unlinked, sessionVars, expiry, login>>
ResetPassword(k) ==
    LET u == code[k].user
    IN  /\ code[k].status = "usable"
        /\ code[k].purpose = "RESET_PASSWORD"
        /\ u \notin unlinked
        /\ password[u] <= MaxResets
        /\ code' = [j \in Codes |-> IF j \in CodesOf(u, "RESET_PASSWORD")
                                    THEN [code[j] EXCEPT !.status = "spent"] ELSE code[j]]
        /\ password' = [password EXCEPT ![u] = @ + 1]
        /\ verified' = [verified EXCEPT ![u] = TRUE]
        /\ revoked' = [s \in Sessions |-> revoked[s] \/ owner[s] = u]
        /\ UNCHANGED <<unlinked, owner, pair, session, consumed, opened, replayed, expiry,
                       login>>

\* ResetPassword once the Password identity is gone: the code stays spent, and that
\* is all.
ResetFindsNone(k) ==
    /\ code[k].status = "usable"
    /\ code[k].purpose = "RESET_PASSWORD"
    /\ code[k].user \in unlinked
    /\ code' = [code EXCEPT ![k].status = "spent"]
    /\ UNCHANGED <<accountVars, sessionVars, expiry, login>>
-----------------------------------------------------------------------------
Next ==
    \/ \E u \in Users, s \in Sessions, p \in Pairs : Register(u, s, p)
    \/ \E r \in Requests, u \in Users : LoginVerified(r, u)
    \/ \E r \in Requests, s \in Sessions, p \in Pairs : LoginCommit(r, s, p)
    \/ \E r \in Requests : LoginFails(r)
    \/ \E u \in Users : UnlinkPassword(u)
    \/ \E p, q \in Pairs : Rotate(p, q) \/ Logout(p, q)
    \/ \E p \in Pairs : RotateRefused(p) \/ Expire(p)
    \/ \E u \in Users, purpose \in Purposes, k \in Codes : CreateEmailToken(u, purpose, k)
    \/ \E k \in Codes :
         \/ CooldownEnds(k) \/ CodeExpires(k) \/ VerifyEmail(k)
         \/ ResetPassword(k) \/ ResetFindsNone(k)

Spec == Init /\ [][Next]_vars
-----------------------------------------------------------------------------
(* Properties.                                                             *)

TypeOK ==
    /\ password \in [Users -> Nat]
    /\ unlinked \subseteq Users
    /\ verified \in [Users -> BOOLEAN]
    /\ owner \in [Sessions -> Users \cup {None}]
    /\ pair \in [Sessions -> Pairs \cup {None}]
    /\ \A s \in Sessions : owner[s] = None <=> pair[s] = None
    /\ revoked \in [Sessions -> BOOLEAN]
    /\ session \in [Pairs -> Sessions \cup {None}]
    /\ consumed \in [Pairs -> BOOLEAN]
    /\ expiry \in [Pairs -> {"fresh", "access", "both"}]
    /\ code \in [Codes -> [user : Users \cup {None}, purpose : Purposes \cup {None},
                           status : {"none", "usable", "spent"}, recent : BOOLEAN]]
    /\ login \in [Requests -> Users \cup {None}]
    /\ opened \in [Sessions -> Nat]
    /\ replayed \subseteq Sessions

\* Of all the tokens a session was ever given, the only refresh token still
\* unexchanged is the partner of the access token in the sessions row, however
\* often the clients that share the session refresh (RotateSession).
OnePairPerSession ==
    \A s \in Sessions : owner[s] # None =>
        {p \in Pairs : session[p] = s /\ ~ consumed[p]} = {pair[s]}

\* Presenting a refresh token a second time ends its session for good: whoever
\* holds the newest tokens, the thief or the owner, is signed out
\* (RotateSession's committed revocation).
ReplayEndsSession ==
    \A s \in replayed : revoked[s] /\ \A p \in Pairs : session[p] = s => AuthenticatesAs(p) = {}

\* A session that was revoked, or whose newest tokens have expired, never gets
\* new ones (RotateSession after Logout, ResetPassword or a replay).
Ended(s) == owner[s] # None /\ (revoked[s] \/ expiry[pair[s]] = "both")
EndedIsFinal == [][\A s \in Sessions : Ended(s) => Ended(s)' /\ pair'[s] = pair[s]]_vars

\* At most one code per User and purpose works: a newer mail replaces the older
\* one (CreateEmailToken).
OneCodeWorks ==
    \A j, k \in Codes :
        /\ code[j].status = "usable" /\ code[k].status = "usable"
        /\ code[j].user = code[k].user /\ code[j].purpose = code[k].purpose
        => j = k
\* A session that was open when the password was reset never works again, however
\* its tokens are exchanged: a Login that verified the old password and is still
\* under way then is the only way past a reset (ResetPassword, LoginCommit).
ResetSignsOut ==
    \A s \in Sessions :
        owner[s] # None /\ ~ revoked[s] => opened[s] = password[owner[s]]
=============================================================================
