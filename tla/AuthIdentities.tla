---------------------------- MODULE AuthIdentities ----------------------------
(***************************************************************************)
(* Google sign-in and the authentication methods of an Account             *)
(* (internal/auth/google_service.go, google_postgres.go, account.go,       *)
(* account_postgres.go): the attempts of the Desktop Client, their state   *)
(* and Exchange Code, the sign-in, link and unlink they lead to.           *)
(*                                                                         *)
(* A row of auth_identities is a User and a method: the address its        *)
(* Password belongs to, or the subject of a Google account.  UNIQUE        *)
(* (provider, provider_subject) and the uniqueness of                      *)
(* users.normalized_email are checked where a row is inserted: whoever     *)
(* inserts the same key waits for the transaction that did, so that the    *)
(* insertions and the commit that follows them are one step.  A handler    *)
(* otherwise takes one step per statement whose result it acts upon.       *)
(***************************************************************************)
EXTENDS Naturals, Sequences, FiniteSets

CONSTANTS
    Users,
    Addresses,
    Subjects,       \* Google accounts
    Attempts,       \* rows of oauth_logins, each inserted at most once
    Requests,       \* handlers that may run at the same time
    None

ASSUME IdentitiesAssumption ==
    /\ None \notin Users \cup Addresses \cup Subjects \cup Attempts
    /\ Addresses \cap Subjects = {}

VARIABLES
    email,          \* users.normalized_email, None before the User exists
    verified,       \* users.email_verified
    methods,        \* auth_identities of a User
    attempt,        \* oauth_logins
    request,        \* the handlers: exchange, link, unlink
    uses,           \* what the code of an attempt was good for (history)
    origin,         \* the method a User was created with (history)
    sessions        \* who was signed in by which Google account (history)

vars == <<email, verified, methods, attempt, request, uses, origin, sessions>>
history == <<uses, origin, sessions>>

Methods == Addresses \cup Subjects

(* expired: expires_at has passed; spent: exchange_consumed_at is set.     *)
NoAttempt == [status |-> "none", link |-> None, expired |-> FALSE, spent |-> FALSE,
              subject |-> None, address |-> None]
Idle == [step |-> "idle", attempt |-> None, user |-> None, method |-> None]

Init ==
    /\ email = [u \in Users |-> None]
    /\ verified = [u \in Users |-> FALSE]
    /\ methods = [u \in Users |-> {}]
    /\ attempt = [a \in Attempts |-> NoAttempt]
    /\ request = [r \in Requests |-> Idle]
    /\ uses = [a \in Attempts |-> <<>>]
    /\ origin = [u \in Users |-> None]
    /\ sessions = {}

Exists(u) == email[u] # None
EmailTaken(e) == \E u \in Users : email[u] = e
Claimed(m) == \E u \in Users : m \in methods[u]
(* SELECT ... FROM users ... FOR UPDATE, held until the commit.            *)
Locked(u) == \E r \in Requests : request[r].step \in {"insert", "delete"} /\ request[r].user = u

AtStep(r, step) == request[r].step = step
Goto(r, new) == request' = [request EXCEPT ![r] = new]
Finish(r) == Goto(r, Idle)

-----------------------------------------------------------------------------
(* The Account                                                             *)

(* CreatePasswordUser.                                                     *)
Register(u, e) ==
    /\ ~Exists(u) /\ ~EmailTaken(e) /\ ~Claimed(e)
    /\ email' = [email EXCEPT ![u] = e]
    /\ methods' = [methods EXCEPT ![u] = {e}]
    /\ origin' = [origin EXCEPT ![u] = e]
    /\ UNCHANGED <<verified, attempt, request, uses, sessions>>

-----------------------------------------------------------------------------
(* The attempt                                                             *)

(* BeginGoogleLogin and CreateOAuthLogin, which first removes the attempts *)
(* that expired an hour ago, old: by then their codes have expired too.    *)
Begin(a, link, old) ==
    /\ attempt[a].status = "none"
    /\ link # None => Exists(link)
    /\ attempt' = [b \in Attempts |->
                     IF b = a THEN [NoAttempt EXCEPT !.status = "begun", !.link = link]
                     ELSE IF b \in old THEN [attempt[b] EXCEPT !.status = "purged"]
                     ELSE attempt[b]]
    /\ UNCHANGED <<email, verified, methods, request, history>>

OldEnough(b) == attempt[b].expired /\ attempt[b].status # "granted"

AttemptExpires(a) ==
    /\ attempt[a].status # "none"
    /\ ~attempt[a].expired
    /\ attempt' = [attempt EXCEPT ![a].expired = TRUE]
    /\ UNCHANGED <<email, verified, methods, request, history>>

(* The callback claims the state, then asks Google about the code.         *)
ClaimOAuthState(a) ==
    /\ attempt[a].status = "begun"
    /\ ~attempt[a].expired
    /\ attempt' = [attempt EXCEPT ![a].status = "claimed"]
    /\ UNCHANGED <<email, verified, methods, request, history>>

(* Google names an account and its verified address, which may change from *)
(* one attempt to the next.                                                *)
StoreExchangeGrant(a, s, e) ==
    /\ attempt[a].status = "claimed"
    /\ attempt' = [attempt EXCEPT ![a].status = "granted", ![a].subject = s, ![a].address = e]
    /\ UNCHANGED <<email, verified, methods, request, history>>

(* The User refuses, Google fails, the address is not verified; or the     *)
(* minute of the Exchange Code is over.                                    *)
AttemptFails(a) ==
    /\ attempt[a].status \in {"claimed", "granted"}
    /\ attempt' = [attempt EXCEPT ![a].status = "over"]
    /\ UNCHANGED <<email, verified, methods, request, history>>

-----------------------------------------------------------------------------
(* The Exchange Code                                                       *)

(* Mutant: the Exchange Code is read, not consumed.                        *)
ConsumableAgain(a) == attempt[a].status = "granted"

(* ConsumeExchangeCode: any presentation spends the code.                  *)
Consumable(a) == attempt[a].status = "granted" /\ ~attempt[a].spent
Spend(a) == attempt' = [attempt EXCEPT ![a].spent = TRUE]

(* redeemExchangeCode with a wrong verifier, or for the wrong purpose.     *)
RedeemInVain(a) ==
    /\ Consumable(a)
    /\ Spend(a)
    /\ UNCHANGED <<email, verified, methods, request, history>>

(* ExchangeGoogleLogin, up to SignInGoogle.                                *)
RedeemToSignIn(r, a) ==
    /\ AtStep(r, "idle")
    /\ Consumable(a) /\ attempt[a].link = None
    /\ Spend(a)
    /\ Goto(r, [Idle EXCEPT !.step = "find", !.attempt = a])
    /\ UNCHANGED <<email, verified, methods, history>>

(* LinkGoogleIdentity of the signed-in User, up to LinkGoogle.             *)
RedeemToLink(r, a, u) ==
    /\ AtStep(r, "idle")
    /\ Consumable(a) /\ attempt[a].link = u
    /\ Spend(a)
    /\ Goto(r, [Idle EXCEPT !.step = "link", !.attempt = a, !.user = u])
    /\ UNCHANGED <<email, verified, methods, history>>

-----------------------------------------------------------------------------
(* Signing in: SignInGoogle                                                *)

SubjectOf(r) == attempt[request[r].attempt].subject
AddressOf(r) == attempt[request[r].attempt].address
Uses(r, purpose, u) ==
    uses' = [uses EXCEPT ![request[r].attempt] = Append(@, [purpose |-> purpose, user |-> u])]

(* Mutant: an unknown Google account is taken for the User of its address.  *)
FindIdentityByAddress(r) ==
    /\ AtStep(r, "find")
    /\ IF \E u \in Users : SubjectOf(r) \in methods[u] \/ email[u] = AddressOf(r)
       THEN \E u \in Users : /\ SubjectOf(r) \in methods[u] \/ email[u] = AddressOf(r)
                             /\ Goto(r, [request[r] EXCEPT !.step = "open", !.user = u])
       ELSE Goto(r, [request[r] EXCEPT !.step = "create"])
    /\ UNCHANGED <<email, verified, methods, attempt, history>>

(* Looks for the identity, without a lock.                                 *)
FindIdentity(r) ==
    /\ AtStep(r, "find")
    /\ IF Claimed(SubjectOf(r))
       THEN \E u \in Users : /\ SubjectOf(r) \in methods[u]
                             /\ Goto(r, [request[r] EXCEPT !.step = "open", !.user = u])
       ELSE Goto(r, [request[r] EXCEPT !.step = "create"])
    /\ UNCHANGED <<email, verified, methods, attempt, history>>

SignInExisting(r) ==
    /\ AtStep(r, "open")
    /\ sessions' = sessions \cup {<<request[r].user, SubjectOf(r)>>}
    /\ Uses(r, "sign_in", request[r].user)
    /\ Finish(r)
    /\ UNCHANGED <<email, verified, methods, attempt, origin>>

SignInNew(r, u) ==
    /\ AtStep(r, "create")
    /\ ~EmailTaken(AddressOf(r)) /\ ~Claimed(SubjectOf(r))
    /\ ~Exists(u)
    /\ email' = [email EXCEPT ![u] = AddressOf(r)]
    /\ verified' = [verified EXCEPT ![u] = TRUE]
    /\ methods' = [methods EXCEPT ![u] = {SubjectOf(r)}]
    /\ origin' = [origin EXCEPT ![u] = SubjectOf(r)]
    /\ sessions' = sessions \cup {<<u, SubjectOf(r)>>}
    /\ Uses(r, "sign_in", u)
    /\ Finish(r)
    /\ UNCHANGED attempt

(* ErrAccountLinkRequired; or, for an account that another request has     *)
(* inserted under another address, an internal error.                      *)
SignInRefused(r) ==
    /\ AtStep(r, "create")
    /\ EmailTaken(AddressOf(r)) \/ Claimed(SubjectOf(r))
    /\ Finish(r)
    /\ UNCHANGED <<email, verified, methods, attempt, history>>

-----------------------------------------------------------------------------
(* Linking and unlinking: both lock the User, check, then write            *)

CheckLink(r) ==
    LET u == request[r].user IN
    /\ AtStep(r, "link")
    /\ ~Locked(u)
    /\ IF Claimed(SubjectOf(r)) \/ methods[u] \cap Subjects # {}
       THEN Finish(r)                               \* ErrIdentityAlreadyLinked
       ELSE Goto(r, [request[r] EXCEPT !.step = "insert"])
    /\ UNCHANGED <<email, verified, methods, attempt, history>>

InsertIdentity(r) ==
    LET u == request[r].user IN
    /\ AtStep(r, "insert")
    /\ ~Claimed(SubjectOf(r))
    /\ methods' = [methods EXCEPT ![u] = @ \cup {SubjectOf(r)}]
    /\ verified' = [verified EXCEPT ![u] = @ \/ AddressOf(r) = email[u]]
    /\ Uses(r, "link", u)
    /\ Finish(r)
    /\ UNCHANGED <<email, attempt, origin, sessions>>

InsertFails(r) ==
    /\ AtStep(r, "insert")
    /\ Claimed(SubjectOf(r))
    /\ Finish(r)
    /\ UNCHANGED <<email, verified, methods, attempt, history>>

(* Mutant: the identities are listed without a lock on the User.           *)
CheckUnlinkUnlocked(r, u, m) ==
    /\ AtStep(r, "idle")
    /\ m \in methods[u]
    /\ Cardinality(methods[u]) > 1
    /\ Goto(r, [Idle EXCEPT !.step = "delete", !.user = u, !.method = m])
    /\ UNCHANGED <<email, verified, methods, attempt, history>>

(* UnlinkAuthenticationMethod.  A User has one identity per provider, so   *)
(* that the provider names the method; a User without it, or with no other *)
(* is refused.                                                             *)
CheckUnlink(r, u, m) ==
    /\ AtStep(r, "idle")
    /\ ~Locked(u)
    /\ m \in methods[u]
    /\ Cardinality(methods[u]) > 1
    /\ Goto(r, [Idle EXCEPT !.step = "delete", !.user = u, !.method = m])
    /\ UNCHANGED <<email, verified, methods, attempt, history>>

DeleteIdentity(r) ==
    LET u == request[r].user IN
    /\ AtStep(r, "delete")
    /\ methods' = [methods EXCEPT ![u] = @ \ {request[r].method}]
    /\ Finish(r)
    /\ UNCHANGED <<email, verified, attempt, history>>

(* The connection to PostgreSQL is lost, or the request ends: the          *)
(* transaction is rolled back.                                             *)
Rollback(r) ==
    /\ ~AtStep(r, "idle")
    /\ Finish(r)
    /\ UNCHANGED <<email, verified, methods, attempt, history>>

Next ==
    \/ \E u \in Users, e \in Addresses : Register(u, e)
    \/ \E a \in Attempts :
         \/ \E link \in Users \cup {None}, old \in SUBSET {b \in Attempts : OldEnough(b)} :
                Begin(a, link, old)
         \/ AttemptExpires(a) \/ ClaimOAuthState(a) \/ AttemptFails(a) \/ RedeemInVain(a)
         \/ \E s \in Subjects, e \in Addresses : StoreExchangeGrant(a, s, e)
         \/ \E r \in Requests :
              RedeemToSignIn(r, a) \/ \E u \in Users : RedeemToLink(r, a, u)
    \/ \E r \in Requests :
         \/ FindIdentity(r) \/ SignInExisting(r) \/ SignInRefused(r)
         \/ CheckLink(r) \/ InsertIdentity(r) \/ InsertFails(r)
         \/ DeleteIdentity(r) \/ Rollback(r)
         \/ \E u \in Users : SignInNew(r, u) \/ \E m \in Methods : CheckUnlink(r, u, m)

Spec == Init /\ [][Next]_vars

-----------------------------------------------------------------------------
(* Properties                                                              *)

TypeOK ==
    /\ email \in [Users -> Addresses \cup {None}]
    /\ verified \in [Users -> BOOLEAN]
    /\ methods \in [Users -> SUBSET Methods]
    /\ attempt \in [Attempts ->
         [status: {"none", "begun", "claimed", "granted", "over", "purged"},
          link: Users \cup {None}, expired: BOOLEAN, spent: BOOLEAN,
          subject: Subjects \cup {None}, address: Addresses \cup {None}]]
    /\ request \in [Requests ->
         [step: {"idle", "find", "open", "create", "link", "insert", "delete"},
          attempt: Attempts \cup {None}, user: Users \cup {None},
          method: Methods \cup {None}]]
    /\ uses \in [Attempts -> Seq([purpose: {"sign_in", "link"}, user: Users])]
    /\ origin \in [Users -> Methods \cup {None}]
    /\ sessions \in SUBSET (Users \X Subjects)

(* The handlers, with their locks and the unique indexes, do no more than  *)
(* the atomic operations of Accounts.  Two unlinks never remove the last   *)
(* two methods of a User between them, a link racing another or a first    *)
(* sign-in never leaves a User with two Google accounts or an account with *)
(* two Users (account_postgres.go:139-214, google_postgres.go:90-136).     *)
Abstract == INSTANCE Accounts WITH methods <- methods
ImplementsAccounts == Abstract!AccountsSpec

(* An attempt is good for one sign-in, or for one link to the User who     *)
(* began it, whatever requests present its code: migration 000011 "can     *)
(* each be used once", google_service.go:164 "Codes from a link attempt    *)
(* only work with LinkGoogleIdentity".                                     *)
CodeServesItsPurpose ==
    \A a \in Attempts :
        /\ Len(uses[a]) <= 1
        /\ \A i \in 1 .. Len(uses[a]) :
             IF attempt[a].link = None
             THEN uses[a][i].purpose = "sign_in"
             ELSE uses[a][i] = [purpose |-> "link", user |-> attempt[a].link]

(* Google opens a session only for the User it created, or for one who     *)
(* asked to link that account: a User is never reached through the address *)
(* alone (google_postgres.go:88).                                          *)
NoSignInByAddress ==
    \A x \in sessions :
        \/ origin[x[1]] = x[2]
        \/ \E a \in Attempts : /\ attempt[a].subject = x[2]
                               /\ uses[a] = <<[purpose |-> "link", user |-> x[1]]>>
=============================================================================
