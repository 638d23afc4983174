------------------------- MODULE AuthIdentitiesProofs -------------------------
(***************************************************************************)
(* Proofs about AuthIdentities for any Users, addresses, Google accounts   *)
(* and attempts, and any number of overlapping requests.                   *)
(***************************************************************************)
EXTENDS AuthIdentities, FiniteSetTheorems, TLAPS

Holding == {"find", "open", "create", "link", "insert"}
Locking == {"insert", "delete"}

\* A User was created with the Google account, or has asked to link it.
Known(u, s) ==
    \/ origin[u] = s
    \/ \E a \in Attempts : /\ attempt[a].subject = s
                           /\ uses[a] = <<[purpose |-> "link", user |-> u]>>

\* What an attempt was good for fits what it was begun for.
UsesOK(a) ==
    \/ uses[a] = <<>>
    \/ attempt[a].link = None /\ \E u \in Users : uses[a] = <<[purpose |-> "sign_in", user |-> u]>>
    \/ attempt[a].link \in Users /\ uses[a] = <<[purpose |-> "link", user |-> attempt[a].link]>>

AttemptOK(a) ==
    /\ attempt[a].status \in {"none", "begun", "claimed"} => ~attempt[a].spent
    /\ attempt[a].spent \/ attempt[a].status = "granted" =>
         attempt[a].subject \in Subjects /\ attempt[a].address \in Addresses
    /\ ~attempt[a].spent => uses[a] = <<>>
    /\ attempt[a].link \in Users => email[attempt[a].link] # None
    /\ UsesOK(a)

\* What a handler has established by the step it has reached.
RequestOK(r) ==
    /\ request[r].step \in Holding =>
         /\ request[r].attempt \in Attempts
         /\ attempt[request[r].attempt].spent
         /\ uses[request[r].attempt] = <<>>
    /\ request[r].step \in {"find", "open", "create"} => attempt[request[r].attempt].link = None
    /\ request[r].step \in {"link", "insert"} =>
         request[r].user \in Users /\ attempt[request[r].attempt].link = request[r].user
    /\ request[r].step = "open" =>
         request[r].user \in Users /\ Known(request[r].user, attempt[request[r].attempt].subject)
    /\ request[r].step = "insert" =>
         methods[request[r].user] \cap Subjects = {} /\ methods[request[r].user] # {}
    /\ request[r].step = "delete" =>
         /\ request[r].user \in Users
         /\ request[r].method \in methods[request[r].user]
         /\ methods[request[r].user] # {request[r].method}

\* No two handlers hold the code of one attempt, or the lock of one User.
Apart(r, q) ==
    /\ request[r].step \in Holding /\ request[q].step \in Holding =>
         request[r].attempt # request[q].attempt
    /\ request[r].step \in Locking /\ request[q].step \in Locking =>
         request[r].user # request[q].user

UserOK(u) ==
    /\ email[u] = None <=> methods[u] = {}
    /\ email[u] = None => origin[u] = None
    /\ \A s \in methods[u] \cap Subjects : Known(u, s)

IInv ==
    /\ TypeOK
    /\ \A a \in Attempts : AttemptOK(a)
    /\ \A r \in Requests : RequestOK(r)
    /\ \A r, q \in Requests : r # q => Apart(r, q)
    /\ \A u \in Users : UserOK(u)
    /\ \A x \in sessions : Known(x[1], x[2])

AttemptType ==
    [status: {"none", "begun", "claimed", "granted", "over", "purged"},
     link: Users \cup {None}, expired: BOOLEAN, spent: BOOLEAN,
     subject: Subjects \cup {None}, address: Addresses \cup {None}]
RequestType ==
    [step: {"idle", "find", "open", "create", "link", "insert", "delete"},
     attempt: Attempts \cup {None}, user: Users \cup {None}, method: Methods \cup {None}]
UseType == [purpose: {"sign_in", "link"}, user: Users]

LEMMA InitIInv == Init => IInv
<1> SUFFICES ASSUME Init PROVE IInv
  OBVIOUS
<1> USE IdentitiesAssumption
<1>1. TypeOK
  BY DEF Init, TypeOK, NoAttempt, Idle, Methods
<1>2. \A a \in Attempts : AttemptOK(a)
  BY DEF Init, AttemptOK, UsesOK, NoAttempt
<1>3. \A r \in Requests : RequestOK(r)
  BY DEF Init, RequestOK, Idle, Holding
<1>4. \A r, q \in Requests : r # q => Apart(r, q)
  BY DEF Init, Apart, Idle, Holding, Locking
<1>5. \A u \in Users : UserOK(u)
  BY DEF Init, UserOK
<1>6. \A x \in sessions : Known(x[1], x[2])
  BY DEF Init
<1> QED BY <1>1, <1>2, <1>3, <1>4, <1>5, <1>6 DEF IInv

\* What an attempt was used for, and its subject, are never changed again.
Lasting ==
    /\ \A u \in Users : email[u] # None => origin'[u] = origin[u]
    /\ \A a \in Attempts : uses[a] # <<>> =>
         uses'[a] = uses[a] /\ attempt'[a].subject = attempt[a].subject

LEMMA KnownLasts ==
    ASSUME IInv, Lasting, NEW u \in Users, NEW s \in Subjects, Known(u, s)
    PROVE  Known(u, s)'
<1>1. CASE origin[u] = s
  <2>1. email[u] # None
    BY <1>1, IdentitiesAssumption DEF IInv, UserOK
  <2> QED BY <1>1, <2>1 DEF Lasting, Known
<1>2. CASE \E a \in Attempts : /\ attempt[a].subject = s
                               /\ uses[a] = <<[purpose |-> "link", user |-> u]>>
  <2>1. PICK a \in Attempts : /\ attempt[a].subject = s
                              /\ uses[a] = <<[purpose |-> "link", user |-> u]>>
    BY <1>2
  <2>2. uses[a] # <<>>
    BY <2>1
  <2>3. attempt'[a].subject = s /\ uses'[a] = <<[purpose |-> "link", user |-> u]>>
    BY <2>1, <2>2 DEF Lasting
  <2> QED BY <2>3 DEF Known
<1> QED BY <1>1, <1>2 DEF Known

\* A handler that takes no step keeps what it has established while the attempt it
\* holds and the User it has locked are left alone.
SpentKept ==
    \A a \in Attempts : attempt[a].spent =>
        /\ attempt'[a].spent
        /\ attempt'[a].link = attempt[a].link
        /\ attempt'[a].subject = attempt[a].subject

LEMMA RequestKept ==
    ASSUME IInv, Lasting, SpentKept, NEW r \in Requests,
           request'[r] = request[r],
           request[r].step \in Holding => uses'[request[r].attempt] = uses[request[r].attempt],
           request[r].step \in Locking => methods'[request[r].user] = methods[request[r].user]
    PROVE  RequestOK(r)'
<1>1. RequestOK(r)
  BY DEF IInv
<1>2. request[r].step = "open" => Known(request[r].user, attempt[request[r].attempt].subject)'
  <2> SUFFICES ASSUME request[r].step = "open"
               PROVE  Known(request[r].user, attempt[request[r].attempt].subject)'
    OBVIOUS
  <2>1. request[r].attempt \in Attempts /\ request[r].user \in Users
        /\ attempt[request[r].attempt].spent
        /\ Known(request[r].user, attempt[request[r].attempt].subject)
    BY <1>1 DEF RequestOK, Holding
  <2>2. attempt[request[r].attempt].subject \in Subjects
    BY <2>1 DEF IInv, AttemptOK
  <2>4. \A u \in Users, s \in Subjects : Known(u, s) => Known(u, s)'
    BY KnownLasts
  <2>5. attempt'[request[r].attempt].subject = attempt[request[r].attempt].subject
    BY <2>1 DEF SpentKept
  <2>6. PICK u \in Users, s \in Subjects :
            u = request[r].user /\ s = attempt[request[r].attempt].subject
    BY <2>1, <2>2
  <2>7. Known(u, s)'
    BY <2>1, <2>4, <2>6
  <2>8. u = request'[r].user /\ s = attempt'[request'[r].attempt].subject
    BY <2>5, <2>6
  <2> QED BY <2>7, <2>8 DEF Known
<1> QED BY <1>1, <1>2 DEF RequestOK, SpentKept, Holding, Locking

\* Steps of the attempts alone.
LEMMA AttemptsAlone ==
    ASSUME IInv, UNCHANGED <<email, verified, methods, request, history>>,
           attempt' \in [Attempts -> AttemptType], SpentKept, Lasting,
           \A a \in Attempts : AttemptOK(a)'
    PROVE  IInv'
<1>1. TypeOK'
  BY DEF IInv, TypeOK, AttemptType, history
<1>2. \A r \in Requests : RequestOK(r)'
  BY RequestKept DEF history
<1>3. \A r, q \in Requests : r # q => Apart(r, q)'
  BY DEF IInv, Apart
<1>4. \A u \in Users, s \in Subjects : Known(u, s) => Known(u, s)'
  BY KnownLasts
<1>5. \A u \in Users : UserOK(u)'
  <2> SUFFICES ASSUME NEW u \in Users PROVE UserOK(u)'
    OBVIOUS
  <2>1. /\ email[u] = None <=> methods[u] = {}
        /\ email[u] = None => origin[u] = None
        /\ \A s \in methods[u] \cap Subjects : Known(u, s)
    BY DEF IInv, UserOK
  <2>2. UNCHANGED <<email, methods, origin>>
    BY DEF history
  <2> QED BY <1>4, <2>1, <2>2 DEF UserOK
<1>6. \A x \in sessions' : Known(x[1], x[2])'
  <2> SUFFICES ASSUME NEW x \in sessions PROVE Known(x[1], x[2])'
    BY DEF history
  <2>1. x[1] \in Users /\ x[2] \in Subjects /\ Known(x[1], x[2])
    BY DEF IInv, TypeOK
  <2> QED BY <1>4, <2>1
<1> QED BY <1>1, <1>2, <1>3, <1>5, <1>6 DEF IInv

LEMMA AttemptTypes == IInv => attempt \in [Attempts -> AttemptType]
BY DEF IInv, TypeOK, AttemptType

LEMMA BeginIInv ==
    ASSUME IInv, NEW a \in Attempts, NEW link \in Users \cup {None},
           NEW old \in SUBSET {b \in Attempts : OldEnough(b)}, Begin(a, link, old)
    PROVE  IInv'
<1> USE IdentitiesAssumption
<1>1. UNCHANGED <<email, verified, methods, request, history>> /\ attempt[a].status = "none"
      /\ (link # None => email[link] # None)
  BY DEF Begin, Exists
<1>2. ASSUME NEW b \in Attempts, b # a
      PROVE  /\ attempt'[b] \in AttemptType
             /\ attempt'[b].spent = attempt[b].spent /\ attempt'[b].link = attempt[b].link
             /\ attempt'[b].subject = attempt[b].subject
             /\ attempt'[b].address = attempt[b].address
             /\ attempt'[b].status = attempt[b].status \/ attempt'[b].status = "purged"
  BY <1>2, AttemptTypes DEF Begin, AttemptType
<1>3. /\ attempt'[a] \in AttemptType
      /\ attempt'[a].status = "begun" /\ attempt'[a].link = link /\ ~attempt'[a].spent
  BY DEF Begin, AttemptType, NoAttempt
<1>4. attempt' \in [Attempts -> AttemptType]
  <2>1. attempt' = [b \in Attempts |-> attempt'[b]]
    BY DEF Begin
  <2> QED BY <1>2, <1>3, <2>1
<1>5. ~attempt[a].spent /\ uses[a] = <<>>
  BY <1>1 DEF IInv, AttemptOK
<1>6. SpentKept /\ Lasting
  BY <1>1, <1>2, <1>5 DEF SpentKept, Lasting, history
<1>7. ASSUME NEW b \in Attempts
      PROVE  AttemptOK(b)'
  <2>1. CASE b = a
    BY <1>1, <1>3, <1>5, <2>1 DEF AttemptOK, UsesOK, history
  <2>2. CASE b # a
    <3>1. AttemptOK(b)
      BY DEF IInv
    <3> QED BY <1>1, <1>2, <2>2, <3>1 DEF AttemptOK, UsesOK, history
  <2> QED BY <2>1, <2>2
<1> QED BY <1>1, <1>4, <1>6, <1>7, AttemptsAlone

\* Steps of one attempt, whatever else they change: its subject and address are set
\* before its code can be spent.
LEMMA OneAttempt ==
    ASSUME IInv, NEW a \in Attempts,
           UNCHANGED <<email, verified, methods, history>>,
           \/ AttemptExpires(a) \/ ClaimOAuthState(a) \/ AttemptFails(a)
           \/ \E s \in Subjects, e \in Addresses : StoreExchangeGrant(a, s, e)
           \/ Consumable(a) /\ Spend(a)
    PROVE  /\ attempt' \in [Attempts -> AttemptType]
           /\ SpentKept /\ Lasting
           /\ \A b \in Attempts : AttemptOK(b)'
<1>1. attempt' = [attempt EXCEPT ![a] = attempt'[a]] /\ attempt \in [Attempts -> AttemptType]
  BY AttemptTypes DEF AttemptExpires, ClaimOAuthState, AttemptFails, StoreExchangeGrant, Spend,
     AttemptType
<1>2. AttemptOK(a)
  BY DEF IInv
<1>3. CASE \E s \in Subjects, e \in Addresses : StoreExchangeGrant(a, s, e)
  <2>1. PICK s \in Subjects, e \in Addresses : StoreExchangeGrant(a, s, e)
    BY <1>3
  <2>2. /\ attempt[a].status = "claimed"
        /\ attempt'[a] \in AttemptType
        /\ attempt'[a].status = "granted" /\ attempt'[a].subject = s /\ attempt'[a].address = e
        /\ attempt'[a].spent = attempt[a].spent /\ attempt'[a].link = attempt[a].link
    <3>1. attempt[a] \in AttemptType
      BY <1>1
    <3>2. attempt'[a] = [attempt[a] EXCEPT !.status = "granted", !.subject = s, !.address = e]
      BY <1>1, <2>1 DEF StoreExchangeGrant
    <3>3. attempt[a].status = "claimed"
      BY <2>1 DEF StoreExchangeGrant
    <3> QED BY <3>1, <3>2, <3>3 DEF AttemptType
  <2>3. ~attempt[a].spent /\ uses[a] = <<>>
    BY <1>2, <2>2 DEF AttemptOK
  <2>4. AttemptOK(a)'
    BY <1>2, <2>2, <2>3 DEF AttemptOK, UsesOK, history
  <2>5. ASSUME NEW b \in Attempts, b # a
        PROVE  AttemptOK(b)' /\ attempt'[b] = attempt[b]
    <3>1. AttemptOK(b) /\ attempt'[b] = attempt[b]
      BY <1>1, <2>5 DEF IInv
    <3> QED BY <3>1 DEF AttemptOK, UsesOK, history
  <2>6. attempt' \in [Attempts -> AttemptType]
    BY <1>1, <2>2
  <2> QED BY <2>3, <2>4, <2>5, <2>6 DEF SpentKept, Lasting, history
<1>4. CASE \/ AttemptExpires(a) \/ ClaimOAuthState(a) \/ AttemptFails(a)
           \/ Consumable(a) /\ Spend(a)
  <2>1. /\ attempt'[a] \in AttemptType
        /\ attempt'[a].subject = attempt[a].subject /\ attempt'[a].address = attempt[a].address
        /\ attempt'[a].link = attempt[a].link
        /\ attempt[a].spent => attempt'[a].spent
        /\ attempt'[a].spent => attempt[a].spent \/ attempt[a].status = "granted"
        /\ attempt'[a].status = "granted" => attempt[a].status = "granted"
        /\ attempt'[a].status \in {"none", "begun", "claimed"} =>
             attempt[a].status \in {"none", "begun", "claimed"}
             /\ attempt'[a].spent = attempt[a].spent
    <3>1. attempt[a] \in AttemptType
      BY <1>1
    <3>2. CASE AttemptExpires(a)
      BY <1>1, <3>1, <3>2 DEF AttemptExpires, AttemptType
    <3>3. CASE ClaimOAuthState(a)
      BY <1>1, <3>1, <3>3 DEF ClaimOAuthState, AttemptType
    <3>4. CASE AttemptFails(a)
      BY <1>1, <3>1, <3>4 DEF AttemptFails, AttemptType
    <3>5. CASE Consumable(a) /\ Spend(a)
      BY <1>1, <3>1, <3>5 DEF Consumable, Spend, AttemptType
    <3> QED BY <1>4, <3>2, <3>3, <3>4, <3>5
  <2>2. AttemptOK(a)'
    BY <1>2, <2>1 DEF AttemptOK, UsesOK, history
  <2>3. ASSUME NEW b \in Attempts, b # a
        PROVE  AttemptOK(b)' /\ attempt'[b] = attempt[b]
    <3>1. AttemptOK(b) /\ attempt'[b] = attempt[b]
      BY <1>1, <2>3 DEF IInv
    <3> QED BY <3>1 DEF AttemptOK, UsesOK, history
  <2>4. attempt' \in [Attempts -> AttemptType]
    BY <1>1, <2>1
  <2> QED BY <2>1, <2>2, <2>3, <2>4 DEF SpentKept, Lasting, history
<1> QED BY <1>3, <1>4

LEMMA OneAttemptIInv ==
    ASSUME IInv, NEW a \in Attempts,
           \/ AttemptExpires(a) \/ ClaimOAuthState(a) \/ AttemptFails(a)
           \/ \E s \in Subjects, e \in Addresses : StoreExchangeGrant(a, s, e)
           \/ RedeemInVain(a)
    PROVE  IInv'
<1>1. UNCHANGED <<email, verified, methods, request, history>>
  BY DEF AttemptExpires, ClaimOAuthState, AttemptFails, StoreExchangeGrant, RedeemInVain
<1>2. /\ attempt' \in [Attempts -> AttemptType]
      /\ SpentKept /\ Lasting
      /\ \A b \in Attempts : AttemptOK(b)'
  BY <1>1, OneAttempt DEF RedeemInVain
<1> QED BY <1>1, <1>2, AttemptsAlone

\* One handler moves on, with a code or a lock that no other one holds.
Exclusive(r, new) ==
    /\ new.step \in Holding =>
         \A q \in Requests \ {r} : request[q].step \in Holding => request[q].attempt # new.attempt
    /\ new.step \in Locking =>
         \A q \in Requests \ {r} : request[q].step \in Locking => request[q].user # new.user

LEMMA RequestsStep ==
    ASSUME IInv, Lasting, SpentKept, NEW r \in Requests, NEW new \in RequestType,
           request' = [request EXCEPT ![r] = new], RequestOK(r)', Exclusive(r, new),
           \A q \in Requests \ {r} :
             /\ request[q].step \in Holding =>
                  uses'[request[q].attempt] = uses[request[q].attempt]
             /\ request[q].step \in Locking =>
                  methods'[request[q].user] = methods[request[q].user]
    PROVE  /\ request' \in [Requests -> RequestType]
           /\ \A q \in Requests : RequestOK(q)'
           /\ \A q, t \in Requests : q # t => Apart(q, t)'
<1>1. request \in [Requests -> RequestType]
  BY DEF IInv, TypeOK, RequestType
<1>2. request'[r] = new /\ \A q \in Requests \ {r} : request'[q] = request[q]
  BY <1>1
<1>3. ASSUME NEW q \in Requests
      PROVE  RequestOK(q)'
  BY <1>2, RequestKept
<1>4. ASSUME NEW q \in Requests, NEW t \in Requests, q # t
      PROVE  Apart(q, t)'
  <2>1. Apart(q, t)
    BY <1>4 DEF IInv
  <2>2. CASE q = r
    BY <1>2, <1>4, <2>2 DEF Apart, Exclusive
  <2>3. CASE t = r
    BY <1>2, <1>4, <2>3 DEF Apart, Exclusive
  <2>4. CASE q # r /\ t # r
    BY <1>2, <2>1, <2>4 DEF Apart
  <2> QED BY <2>2, <2>3, <2>4
<1> QED BY <1>1, <1>3, <1>4

LEMMA UsersKept ==
    ASSUME IInv, Lasting, NEW u \in Users, email'[u] = email[u], methods'[u] = methods[u],
           origin'[u] = origin[u]
    PROVE  UserOK(u)'
<1>1. UserOK(u)
  BY DEF IInv
<1>2. \A s \in Subjects : Known(u, s) => Known(u, s)'
  BY KnownLasts
<1> QED BY <1>1, <1>2 DEF UserOK

LEMMA SessionsKept ==
    ASSUME IInv, Lasting
    PROVE  \A x \in sessions : Known(x[1], x[2])'
<1> SUFFICES ASSUME NEW x \in sessions PROVE Known(x[1], x[2])'
  OBVIOUS
<1>1. x[1] \in Users /\ x[2] \in Subjects /\ Known(x[1], x[2])
  BY DEF IInv, TypeOK
<1> QED BY <1>1, KnownLasts

\* Handlers that have read, and have written nothing but the code they spent.
LEMMA HandlerIInv ==
    ASSUME IInv, NEW r \in Requests, NEW new \in RequestType,
           request' = [request EXCEPT ![r] = new],
           UNCHANGED <<email, verified, methods, history>>,
           attempt' \in [Attempts -> AttemptType], SpentKept, Lasting,
           \A a \in Attempts : AttemptOK(a)',
           RequestOK(r)', Exclusive(r, new)
    PROVE  IInv'
<1>1. /\ request' \in [Requests -> RequestType]
      /\ \A q \in Requests : RequestOK(q)'
      /\ \A q, t \in Requests : q # t => Apart(q, t)'
  BY RequestsStep DEF history
<1>2. TypeOK'
  BY <1>1 DEF IInv, TypeOK, AttemptType, RequestType, history
<1>3. \A u \in Users : UserOK(u)'
  BY UsersKept DEF history
<1>4. \A x \in sessions' : Known(x[1], x[2])'
  BY SessionsKept DEF history
<1> QED BY <1>1, <1>2, <1>3, <1>4 DEF IInv

LEMMA RedeemIInv ==
    ASSUME IInv, NEW r \in Requests, NEW a \in Attempts,
           RedeemToSignIn(r, a) \/ \E u \in Users : RedeemToLink(r, a, u)
    PROVE  IInv'
<1>1. /\ Consumable(a) /\ Spend(a) /\ UNCHANGED <<email, verified, methods, history>>
  BY DEF RedeemToSignIn, RedeemToLink
<1>2. /\ attempt' \in [Attempts -> AttemptType] /\ SpentKept /\ Lasting
      /\ \A b \in Attempts : AttemptOK(b)'
  BY <1>1, OneAttempt
<1>3. /\ ~attempt[a].spent /\ attempt'[a].spent /\ attempt'[a].link = attempt[a].link
      /\ uses[a] = <<>> /\ uses' = uses
  BY <1>1, AttemptTypes DEF Consumable, Spend, AttemptType, IInv, AttemptOK, history
<1>4. \A q \in Requests : request[q].step \in Holding => request[q].attempt # a
  BY <1>3 DEF IInv, RequestOK
<1>5. PICK new \in RequestType :
        /\ request' = [request EXCEPT ![r] = new]
        /\ new.attempt = a
        /\ \/ new.step = "find" /\ attempt[a].link = None
           \/ new.step = "link" /\ attempt[a].link = new.user /\ new.user \in Users
  <2>1. CASE RedeemToSignIn(r, a)
    <3> DEFINE n == [Idle EXCEPT !.step = "find", !.attempt = a]
    <3>1. n \in RequestType /\ n.attempt = a /\ n.step = "find"
      BY DEF Idle, RequestType
    <3>2. request' = [request EXCEPT ![r] = n] /\ attempt[a].link = None
      BY <2>1 DEF RedeemToSignIn, Goto
    <3> QED BY <3>1, <3>2
  <2>2. CASE \E u \in Users : RedeemToLink(r, a, u)
    <3>1. PICK u \in Users : RedeemToLink(r, a, u)
      BY <2>2
    <3> DEFINE n == [Idle EXCEPT !.step = "link", !.attempt = a, !.user = u]
    <3>2. n \in RequestType /\ n.attempt = a /\ n.step = "link" /\ n.user = u
      BY DEF Idle, RequestType
    <3>3. request' = [request EXCEPT ![r] = n] /\ attempt[a].link = u
      BY <3>1 DEF RedeemToLink, Goto
    <3> QED BY <3>2, <3>3
  <2> QED BY <2>1, <2>2
<1>6. request'[r] = new
  BY <1>5 DEF IInv, TypeOK
<1>7. RequestOK(r)'
  BY <1>3, <1>5, <1>6 DEF RequestOK, Holding
<1>8. Exclusive(r, new)
  BY <1>4, <1>5 DEF Exclusive, Locking
<1> QED BY <1>1, <1>2, <1>5, <1>7, <1>8, HandlerIInv

\* Handlers that only read.
LEMMA ReadingIInv ==
    ASSUME IInv, NEW r \in Requests, NEW new \in RequestType,
           request' = [request EXCEPT ![r] = new],
           UNCHANGED <<email, verified, methods, attempt, history>>,
           RequestOK(r)', Exclusive(r, new)
    PROVE  IInv'
<1>1. SpentKept /\ Lasting
  BY DEF SpentKept, Lasting, history
<1>2. \A a \in Attempts : AttemptOK(a)'
  <2> SUFFICES ASSUME NEW a \in Attempts PROVE AttemptOK(a)'
    OBVIOUS
  <2>1. AttemptOK(a)
    BY DEF IInv
  <2> QED BY <2>1 DEF AttemptOK, UsesOK, history
<1> QED BY <1>1, <1>2, AttemptTypes, HandlerIInv

LEMMA FinishIInv ==
    ASSUME IInv, NEW r \in Requests, Finish(r),
           UNCHANGED <<email, verified, methods, attempt, history>>
    PROVE  IInv'
<1>1. Idle \in RequestType /\ Idle.step = "idle"
  BY DEF Idle, RequestType
<1>2. request' = [request EXCEPT ![r] = Idle] /\ request'[r] = Idle
  BY DEF Finish, Goto, IInv, TypeOK
<1>3. RequestOK(r)' /\ Exclusive(r, Idle)
  BY <1>1, <1>2 DEF RequestOK, Exclusive, Holding, Locking
<1> QED BY <1>1, <1>2, <1>3, ReadingIInv

LEMMA FindIdentityIInv ==
    ASSUME IInv, NEW r \in Requests, FindIdentity(r)
    PROVE  IInv'
<1> DEFINE a == request[r].attempt
<1>1. /\ RequestOK(r) /\ request[r] \in RequestType /\ request[r].step = "find"
      /\ \A q \in Requests \ {r} : Apart(r, q)
      /\ UNCHANGED <<email, verified, methods, attempt, history>>
  BY DEF IInv, TypeOK, RequestType, FindIdentity, AtStep
<1>2. a \in Attempts /\ attempt[a].spent /\ uses[a] = <<>> /\ attempt[a].link = None
  BY <1>1 DEF RequestOK, Holding
<1>3. PICK new \in RequestType :
        /\ request' = [request EXCEPT ![r] = new]
        /\ new.attempt = a
        /\ \/ new.step = "create"
           \/ new.step = "open" /\ new.user \in Users /\ attempt[a].subject \in methods[new.user]
  <2>1. CASE Claimed(SubjectOf(r))
    <3>1. PICK u \in Users : /\ SubjectOf(r) \in methods[u]
                             /\ Goto(r, [request[r] EXCEPT !.step = "open", !.user = u])
      BY <2>1 DEF FindIdentity
    <3> DEFINE n == [request[r] EXCEPT !.step = "open", !.user = u]
    <3>2. n \in RequestType /\ n.attempt = a /\ n.step = "open" /\ n.user = u
      BY <1>1 DEF RequestType
    <3>3. request' = [request EXCEPT ![r] = n] /\ attempt[a].subject \in methods[u]
      BY <3>1 DEF Goto, SubjectOf
    <3> QED BY <3>2, <3>3
  <2>2. CASE ~Claimed(SubjectOf(r))
    <3> DEFINE n == [request[r] EXCEPT !.step = "create"]
    <3>1. n \in RequestType /\ n.attempt = a /\ n.step = "create"
      BY <1>1 DEF RequestType
    <3>2. request' = [request EXCEPT ![r] = n]
      BY <2>2 DEF Goto, FindIdentity
    <3> QED BY <3>1, <3>2
  <2> QED BY <2>1, <2>2
<1>4. request'[r] = new
  BY <1>3 DEF IInv, TypeOK
<1>5. attempt[a].subject \in Subjects
  BY <1>2 DEF IInv, AttemptOK
<1>6. ASSUME new.step = "open"
      PROVE  Known(new.user, attempt[a].subject)'
  <2>1. PICK u \in Users, s \in Subjects : u = new.user /\ s = attempt[a].subject
    BY <1>3, <1>5, <1>6
  <2>2. Known(u, s)
    BY <1>3, <1>6, <2>1 DEF IInv, UserOK
  <2> QED BY <1>1, <1>3, <1>4, <2>1, <2>2 DEF Known, history
<1>7. RequestOK(r)'
  BY <1>1, <1>2, <1>3, <1>4, <1>6 DEF RequestOK, Holding, history
<1>8. Exclusive(r, new)
  BY <1>1, <1>3 DEF Exclusive, Apart, Holding, Locking
<1> QED BY <1>1, <1>3, <1>7, <1>8, ReadingIInv

LEMMA CheckLinkIInv ==
    ASSUME IInv, NEW r \in Requests, CheckLink(r)
    PROVE  IInv'
<1> DEFINE a == request[r].attempt
           u == request[r].user
           n == [request[r] EXCEPT !.step = "insert"]
<1>1. /\ RequestOK(r) /\ request[r] \in RequestType /\ request[r].step = "link"
      /\ \A q \in Requests \ {r} : Apart(r, q)
      /\ UNCHANGED <<email, verified, methods, attempt, history>>
  BY DEF IInv, TypeOK, RequestType, CheckLink, AtStep
<1>2. /\ a \in Attempts /\ attempt[a].spent /\ uses[a] = <<>> /\ attempt[a].link = u
      /\ u \in Users
  BY <1>1 DEF RequestOK, Holding
<1>3. methods[u] # {}
  BY <1>2 DEF IInv, AttemptOK, UserOK
<1>4. CASE Claimed(SubjectOf(r)) \/ methods[u] \cap Subjects # {}
  BY <1>1, <1>4, FinishIInv DEF CheckLink
<1>5. CASE ~(Claimed(SubjectOf(r)) \/ methods[u] \cap Subjects # {})
  <2>1. n \in RequestType /\ n.attempt = a /\ n.step = "insert" /\ n.user = u
    BY <1>1 DEF RequestType
  <2>2. request' = [request EXCEPT ![r] = n] /\ ~Locked(u)
    BY <1>5 DEF CheckLink, Goto
  <2>3. request'[r] = n
    BY <2>2 DEF IInv, TypeOK
  <2> HIDE DEF n
  <2>4. RequestOK(r)'
    BY <1>1, <1>2, <1>3, <1>5, <2>1, <2>3 DEF RequestOK, Holding, history
  <2>5. Exclusive(r, n)
    BY <1>1, <2>1, <2>2 DEF Exclusive, Apart, Locked, Holding, Locking
  <2> QED BY <1>1, <2>1, <2>2, <2>4, <2>5, ReadingIInv
<1> QED BY <1>4, <1>5

LEMMA CheckUnlinkIInv ==
    ASSUME IInv, NEW r \in Requests, NEW u \in Users, NEW m \in Methods, CheckUnlink(r, u, m)
    PROVE  IInv'
<1> DEFINE n == [Idle EXCEPT !.step = "delete", !.user = u, !.method = m]
<1>1. n \in RequestType /\ n.step = "delete" /\ n.user = u /\ n.method = m
  BY DEF Idle, RequestType
<1>2. /\ request' = [request EXCEPT ![r] = n] /\ ~Locked(u)
      /\ m \in methods[u] /\ Cardinality(methods[u]) > 1
      /\ UNCHANGED <<email, verified, methods, attempt, history>>
  BY DEF CheckUnlink, Goto
<1>3. request'[r] = n
  BY <1>2 DEF IInv, TypeOK
<1> HIDE DEF n
<1>4. methods[u] # {m}
  BY <1>2, FS_Singleton
<1>5. RequestOK(r)'
  BY <1>1, <1>2, <1>3, <1>4 DEF RequestOK, Holding
<1>6. Exclusive(r, n)
  BY <1>1, <1>2 DEF Exclusive, Locked, Holding, Locking
<1> QED BY <1>1, <1>2, <1>5, <1>6, ReadingIInv

\* No handler holds the lock of a User who does not exist yet.
LEMMA NoLockOnNobody ==
    ASSUME IInv, NEW u \in Users, email[u] = None, NEW q \in Requests, request[q].step \in Locking
    PROVE  request[q].user # u
BY DEF IInv, RequestOK, UserOK, Locking

LEMMA RegisterIInv ==
    ASSUME IInv, NEW u \in Users, NEW e \in Addresses, Register(u, e)
    PROVE  IInv'
<1> USE IdentitiesAssumption
<1>1. /\ email[u] = None /\ UNCHANGED <<verified, attempt, request, uses, sessions>>
      /\ email' = [email EXCEPT ![u] = e]
      /\ methods' = [methods EXCEPT ![u] = {e}]
      /\ origin' = [origin EXCEPT ![u] = e]
  BY DEF Register, Exists
<1>2. TypeOK'
  BY <1>1 DEF IInv, TypeOK, Methods
<1>3. /\ email'[u] = e /\ methods'[u] = {e} /\ origin'[u] = e
      /\ \A v \in Users \ {u} : email'[v] = email[v] /\ methods'[v] = methods[v]
                                /\ origin'[v] = origin[v]
  BY <1>1 DEF IInv, TypeOK
<1>4. Lasting /\ SpentKept
  BY <1>1, <1>3 DEF Lasting, SpentKept
<1>5. ASSUME NEW q \in Requests, request[q].step \in Locking
      PROVE  methods'[request[q].user] = methods[request[q].user]
  <2>1. request[q].user # u
    BY <1>1, <1>5, NoLockOnNobody
  <2>2. request[q].user \in Users
    BY <1>5 DEF IInv, RequestOK, Locking
  <2> QED BY <1>3, <2>1, <2>2
<1>6. \A q \in Requests : RequestOK(q)'
  BY <1>1, <1>4, <1>5, RequestKept
<1>7. \A q, t \in Requests : q # t => Apart(q, t)'
  BY <1>1 DEF IInv, Apart
<1>8. ASSUME NEW a \in Attempts
      PROVE  AttemptOK(a)'
  <2>1. AttemptOK(a)
    BY DEF IInv
  <2> QED BY <1>1, <1>3, <2>1 DEF AttemptOK, UsesOK
<1>9. ASSUME NEW v \in Users
      PROVE  UserOK(v)'
  <2>1. CASE v = u
    BY <1>3, <2>1 DEF UserOK
  <2>2. CASE v # u
    BY <1>3, <1>4, <2>2, UsersKept
  <2> QED BY <2>1, <2>2
<1>10. \A x \in sessions' : Known(x[1], x[2])'
  BY <1>1, <1>4, SessionsKept
<1> QED BY <1>2, <1>6, <1>7, <1>8, <1>9, <1>10 DEF IInv

\* A handler writes and is done: it has used the attempt it held, or none, and changes
\* no User whose lock another handler holds.
LEMMA WritingIInv ==
    ASSUME IInv, NEW r \in Requests, Finish(r), attempt' = attempt, Lasting,
           email' \in [Users -> Addresses \cup {None}], verified' \in [Users -> BOOLEAN],
           methods' \in [Users -> SUBSET Methods], origin' \in [Users -> Methods \cup {None}],
           uses' \in [Attempts -> Seq(UseType)], sessions' \in SUBSET (Users \X Subjects),
           \A a \in Attempts : AttemptOK(a)',
           \A u \in Users : UserOK(u)',
           \A x \in sessions' : Known(x[1], x[2])',
           \A q \in Requests \ {r} :
             /\ request[q].step \in Holding =>
                  uses'[request[q].attempt] = uses[request[q].attempt]
             /\ request[q].step \in Locking =>
                  methods'[request[q].user] = methods[request[q].user]
    PROVE  IInv'
<1>1. Idle \in RequestType /\ Idle.step = "idle"
  BY DEF Idle, RequestType
<1>2. request' = [request EXCEPT ![r] = Idle] /\ request'[r] = Idle
  BY DEF Finish, Goto, IInv, TypeOK
<1>3. RequestOK(r)' /\ Exclusive(r, Idle)
  BY <1>1, <1>2 DEF RequestOK, Exclusive, Holding, Locking
<1>4. SpentKept
  BY DEF SpentKept
<1>5. /\ request' \in [Requests -> RequestType]
      /\ \A q \in Requests : RequestOK(q)'
      /\ \A q, t \in Requests : q # t => Apart(q, t)'
  BY <1>1, <1>2, <1>3, <1>4, RequestsStep
<1>6. TypeOK'
  BY <1>5 DEF IInv, TypeOK, RequestType, UseType
<1> QED BY <1>5, <1>6 DEF IInv

\* The attempt a handler holds, and what holds of it once it has been used.
LEMMA HeldAttempt ==
    ASSUME IInv, NEW r \in Requests, request[r].step \in Holding
    PROVE  /\ request[r].attempt \in Attempts
           /\ attempt[request[r].attempt].spent
           /\ uses[request[r].attempt] = <<>>
           /\ SubjectOf(r) \in Subjects /\ AddressOf(r) \in Addresses
           /\ \A q \in Requests \ {r} : request[q].step \in Holding =>
                request[q].attempt # request[r].attempt
<1>1. RequestOK(r)
  BY DEF IInv
<1>2. /\ request[r].attempt \in Attempts
      /\ attempt[request[r].attempt].spent
      /\ uses[request[r].attempt] = <<>>
  BY <1>1 DEF RequestOK
<1>3. SubjectOf(r) \in Subjects /\ AddressOf(r) \in Addresses
  BY <1>2 DEF IInv, AttemptOK, SubjectOf, AddressOf
<1>4. \A q \in Requests \ {r} : request[q].step \in Holding =>
        request[q].attempt # request[r].attempt
  BY DEF IInv, Apart
<1> QED BY <1>2, <1>3, <1>4

LEMMA UsedOnce ==
    ASSUME IInv, NEW r \in Requests, request[r].step \in Holding, attempt' = attempt,
           NEW purpose \in {"sign_in", "link"}, NEW u \in Users, Uses(r, purpose, u),
           \A v \in Users : email[v] # None => email'[v] # None /\ origin'[v] = origin[v],
           \/ purpose = "sign_in" /\ attempt[request[r].attempt].link = None
           \/ purpose = "link" /\ attempt[request[r].attempt].link = u
    PROVE  /\ uses' \in [Attempts -> Seq(UseType)]
           /\ uses'[request[r].attempt] = <<[purpose |-> purpose, user |-> u]>>
           /\ Lasting
           /\ \A a \in Attempts : AttemptOK(a)'
           /\ \A q \in Requests \ {r} : request[q].step \in Holding =>
                uses'[request[q].attempt] = uses[request[q].attempt]
<1> DEFINE held == request[r].attempt
           use == [purpose |-> purpose, user |-> u]
<1>1. /\ held \in Attempts /\ attempt[held].spent /\ uses[held] = <<>>
      /\ \A q \in Requests \ {r} : request[q].step \in Holding => request[q].attempt # held
  BY HeldAttempt
<1>2. uses \in [Attempts -> Seq(UseType)] /\ use \in UseType
  BY DEF IInv, TypeOK, UseType
<1>3. uses' = [uses EXCEPT ![held] = Append(@, use)]
  BY DEF Uses
<1> HIDE DEF use, held
<1>4. Append(<<>>, use) = <<use>> /\ <<use>> \in Seq(UseType)
  BY <1>2
<1>5. uses' = [uses EXCEPT ![held] = <<use>>]
  BY <1>1, <1>3, <1>4, Zenon
<1>6. /\ uses'[held] = <<use>>
      /\ \A a \in Attempts \ {held} : uses'[a] = uses[a]
      /\ uses' \in [Attempts -> Seq(UseType)]
  BY <1>1, <1>2, <1>4, <1>5
<1>7. Lasting
  BY <1>1, <1>6 DEF Lasting
<1>8. ASSUME NEW a \in Attempts
      PROVE  AttemptOK(a)'
  <2>1. AttemptOK(a)
    BY DEF IInv
  <2>2. attempt[a].link \in Users => email'[attempt[a].link] # None
    BY <2>1 DEF AttemptOK
  <2>3. CASE a = held
    <3>1. UsesOK(a)'
      BY <1>6, <2>3 DEF UsesOK, use, held
    <3> QED BY <1>1, <2>1, <2>2, <2>3, <3>1 DEF AttemptOK
  <2>4. CASE a # held
    <3>1. UsesOK(a)'
      BY <1>6, <2>1, <2>4 DEF UsesOK, AttemptOK
    <3> QED BY <1>6, <2>1, <2>2, <2>4, <3>1 DEF AttemptOK
  <2> QED BY <2>3, <2>4
<1>9. \A q \in Requests \ {r} : request[q].step \in Holding =>
        uses'[request[q].attempt] = uses[request[q].attempt]
  <2> SUFFICES ASSUME NEW q \in Requests \ {r}, request[q].step \in Holding
               PROVE  uses'[request[q].attempt] = uses[request[q].attempt]
    OBVIOUS
  <2>1. request[q].attempt \in Attempts
    BY DEF IInv, RequestOK
  <2> QED BY <1>1, <1>6, <2>1
<1> QED BY <1>6, <1>7, <1>8, <1>9 DEF use, held

LEMMA SignInExistingIInv ==
    ASSUME IInv, NEW r \in Requests, SignInExisting(r)
    PROVE  IInv'
<1>1. /\ request[r].step = "open" /\ RequestOK(r)
      /\ Finish(r) /\ UNCHANGED <<email, verified, methods, attempt, origin>>
  BY DEF SignInExisting, AtStep, IInv
<1>2. /\ request[r].user \in Users /\ SubjectOf(r) \in Subjects
      /\ Known(request[r].user, SubjectOf(r)) /\ attempt[request[r].attempt].link = None
  BY <1>1, HeldAttempt DEF RequestOK, SubjectOf, Holding
<1>3. PICK u \in Users, s \in Subjects : u = request[r].user /\ s = SubjectOf(r)
  BY <1>2
<1>4. Uses(r, "sign_in", u) /\ sessions' = sessions \cup {<<u, s>>}
  BY <1>3 DEF SignInExisting
<1>5. /\ uses' \in [Attempts -> Seq(UseType)]
      /\ Lasting
      /\ \A a \in Attempts : AttemptOK(a)'
      /\ \A q \in Requests \ {r} : request[q].step \in Holding =>
           uses'[request[q].attempt] = uses[request[q].attempt]
  BY <1>1, <1>2, <1>4, UsedOnce DEF Holding
<1>6. \A v \in Users : UserOK(v)'
  BY <1>1, <1>5, UsersKept
<1>7. Known(u, s)'
  BY <1>2, <1>3, <1>5, KnownLasts
<1>8. \A x \in sessions' : Known(x[1], x[2])'
  <2>1. \A x \in sessions : Known(x[1], x[2])'
    BY <1>5, SessionsKept
  <2> QED BY <1>4, <1>7, <2>1
<1>9. sessions' \in SUBSET (Users \X Subjects)
  BY <1>4 DEF IInv, TypeOK
<1> QED BY <1>1, <1>5, <1>6, <1>8, <1>9, WritingIInv DEF IInv, TypeOK

LEMMA SignInNewIInv ==
    ASSUME IInv, NEW r \in Requests, NEW u \in Users, SignInNew(r, u)
    PROVE  IInv'
<1>1. /\ request[r].step = "create" /\ RequestOK(r)
      /\ Finish(r) /\ attempt' = attempt /\ Uses(r, "sign_in", u)
      /\ email[u] = None
  BY DEF SignInNew, AtStep, Exists, IInv
<1>2. /\ SubjectOf(r) \in Subjects /\ AddressOf(r) \in Addresses
      /\ attempt[request[r].attempt].link = None
  BY <1>1, HeldAttempt DEF RequestOK, Holding
<1>3. PICK s \in Subjects, e \in Addresses : s = SubjectOf(r) /\ e = AddressOf(r)
  BY <1>2
<1>4. /\ email' = [email EXCEPT ![u] = e]
      /\ verified' = [verified EXCEPT ![u] = TRUE]
      /\ methods' = [methods EXCEPT ![u] = {s}]
      /\ origin' = [origin EXCEPT ![u] = s]
      /\ sessions' = sessions \cup {<<u, s>>}
  BY <1>3 DEF SignInNew
<1>5. /\ email' \in [Users -> Addresses \cup {None}] /\ verified' \in [Users -> BOOLEAN]
      /\ methods' \in [Users -> SUBSET Methods] /\ origin' \in [Users -> Methods \cup {None}]
      /\ sessions' \in SUBSET (Users \X Subjects)
  BY <1>4 DEF IInv, TypeOK, Methods
<1>6. /\ email'[u] = e /\ methods'[u] = {s} /\ origin'[u] = s
      /\ \A v \in Users \ {u} : email'[v] = email[v] /\ methods'[v] = methods[v]
                                /\ origin'[v] = origin[v]
  BY <1>4 DEF IInv, TypeOK
<1>7. \A v \in Users : email[v] # None => email'[v] # None /\ origin'[v] = origin[v]
  BY <1>1, <1>6
<1>8. /\ uses' \in [Attempts -> Seq(UseType)]
      /\ Lasting
      /\ \A a \in Attempts : AttemptOK(a)'
      /\ \A q \in Requests \ {r} : request[q].step \in Holding =>
           uses'[request[q].attempt] = uses[request[q].attempt]
  BY <1>1, <1>2, <1>7, UsedOnce DEF Holding
<1>9. Known(u, s)'
  BY <1>6 DEF Known
<1>10. ASSUME NEW v \in Users
       PROVE  UserOK(v)'
  <2>1. CASE v = u
    BY <1>6, <1>9, <2>1, IdentitiesAssumption DEF UserOK
  <2>2. CASE v # u
    BY <1>6, <1>8, <2>2, UsersKept
  <2> QED BY <2>1, <2>2
<1>11. \A x \in sessions' : Known(x[1], x[2])'
  <2>1. \A x \in sessions : Known(x[1], x[2])'
    BY <1>8, SessionsKept
  <2> QED BY <1>4, <1>9, <2>1
<1>12. ASSUME NEW q \in Requests, request[q].step \in Locking
       PROVE  methods'[request[q].user] = methods[request[q].user]
  <2>1. request[q].user # u /\ request[q].user \in Users
    BY <1>1, <1>12, NoLockOnNobody DEF IInv, RequestOK, Locking
  <2> QED BY <1>6, <2>1
<1> QED BY <1>1, <1>5, <1>8, <1>10, <1>11, <1>12, WritingIInv

LEMMA InsertIdentityIInv ==
    ASSUME IInv, NEW r \in Requests, InsertIdentity(r)
    PROVE  IInv'
<1>1. /\ request[r].step = "insert" /\ RequestOK(r)
      /\ Finish(r) /\ UNCHANGED <<email, attempt, origin, sessions>>
  BY DEF InsertIdentity, AtStep, IInv
<1>2. /\ SubjectOf(r) \in Subjects /\ request[r].user \in Users
      /\ attempt[request[r].attempt].link = request[r].user
      /\ methods[request[r].user] # {}
  BY <1>1, HeldAttempt DEF RequestOK, Holding
<1>3. PICK u \in Users, s \in Subjects : u = request[r].user /\ s = SubjectOf(r)
  BY <1>2
<1>4. /\ methods' = [methods EXCEPT ![u] = @ \cup {s}]
      /\ verified' = [verified EXCEPT ![u] = @ \/ AddressOf(r) = email[u]]
      /\ Uses(r, "link", u)
  BY <1>3 DEF InsertIdentity
<1>5. /\ methods' \in [Users -> SUBSET Methods] /\ verified' \in [Users -> BOOLEAN]
  BY <1>4 DEF IInv, TypeOK, Methods
<1>6. /\ methods'[u] = methods[u] \cup {s}
      /\ \A v \in Users \ {u} : methods'[v] = methods[v]
  BY <1>4 DEF IInv, TypeOK
<1>7. /\ uses' \in [Attempts -> Seq(UseType)]
      /\ uses'[request[r].attempt] = <<[purpose |-> "link", user |-> u]>>
      /\ Lasting
      /\ \A a \in Attempts : AttemptOK(a)'
      /\ \A q \in Requests \ {r} : request[q].step \in Holding =>
           uses'[request[q].attempt] = uses[request[q].attempt]
  BY <1>1, <1>2, <1>3, <1>4, UsedOnce DEF Holding
<1>8. Known(u, s)'
  <2>1. request[r].attempt \in Attempts /\ attempt'[request[r].attempt].subject = s
    BY <1>1, <1>3, HeldAttempt DEF SubjectOf, Holding
  <2> QED BY <1>7, <2>1 DEF Known
<1>9. ASSUME NEW v \in Users
      PROVE  UserOK(v)'
  <2>1. CASE v = u
    <3>1. UserOK(u)
      BY DEF IInv
    <3>2. \A t \in Subjects : Known(u, t) => Known(u, t)'
      BY <1>7, KnownLasts
    <3> QED BY <1>1, <1>2, <1>3, <1>6, <1>8, <2>1, <3>1, <3>2 DEF UserOK
  <2>2. CASE v # u
    BY <1>1, <1>6, <1>7, <2>2, UsersKept
  <2> QED BY <2>1, <2>2
<1>10. \A x \in sessions' : Known(x[1], x[2])'
  BY <1>1, <1>7, SessionsKept
<1>11. ASSUME NEW q \in Requests \ {r}, request[q].step \in Locking
       PROVE  methods'[request[q].user] = methods[request[q].user]
  <2>1. request[q].user # u /\ request[q].user \in Users
    BY <1>1, <1>3, <1>11 DEF IInv, Apart, RequestOK, Locking
  <2> QED BY <1>6, <2>1
<1> QED BY <1>1, <1>5, <1>7, <1>9, <1>10, <1>11, WritingIInv DEF IInv, TypeOK

LEMMA DeleteIdentityIInv ==
    ASSUME IInv, NEW r \in Requests, DeleteIdentity(r)
    PROVE  IInv'
<1>1. /\ request[r].step = "delete" /\ RequestOK(r)
      /\ Finish(r) /\ UNCHANGED <<email, verified, attempt, history>>
  BY DEF DeleteIdentity, AtStep, IInv
<1>2. /\ request[r].user \in Users
      /\ request[r].method \in methods[request[r].user]
      /\ methods[request[r].user] # {request[r].method}
  BY <1>1 DEF RequestOK
<1>3. PICK u \in Users, m \in methods[request[r].user] : u = request[r].user /\ m = request[r].method
  BY <1>2
<1>4. methods' = [methods EXCEPT ![u] = @ \ {m}]
  BY <1>3 DEF DeleteIdentity
<1>5. /\ methods' \in [Users -> SUBSET Methods]
      /\ methods'[u] = methods[u] \ {m} /\ methods'[u] # {}
      /\ \A v \in Users \ {u} : methods'[v] = methods[v]
  BY <1>2, <1>3, <1>4 DEF IInv, TypeOK
<1>6. Lasting
  BY <1>1 DEF Lasting, history
<1>7. ASSUME NEW a \in Attempts
      PROVE  AttemptOK(a)'
  <2>1. AttemptOK(a)
    BY DEF IInv
  <2> QED BY <1>1, <2>1 DEF AttemptOK, UsesOK, history
<1>8. ASSUME NEW v \in Users
      PROVE  UserOK(v)'
  <2>1. CASE v = u
    <3>1. UserOK(u) /\ methods[u] # {}
      BY <1>2, <1>3 DEF IInv
    <3>2. \A s \in Subjects : Known(u, s) => Known(u, s)'
      BY <1>6, KnownLasts
    <3> QED BY <1>1, <1>5, <2>1, <3>1, <3>2 DEF UserOK, history
  <2>2. CASE v # u
    BY <1>1, <1>5, <1>6, <2>2, UsersKept DEF history
  <2> QED BY <2>1, <2>2
<1>9. \A x \in sessions' : Known(x[1], x[2])'
  BY <1>1, <1>6, SessionsKept DEF history
<1>10. ASSUME NEW q \in Requests \ {r}, request[q].step \in Locking
       PROVE  methods'[request[q].user] = methods[request[q].user]
  <2>1. request[q].user # u /\ request[q].user \in Users
    BY <1>1, <1>3, <1>10 DEF IInv, Apart, RequestOK, Locking
  <2> QED BY <1>5, <2>1
<1> QED BY <1>1, <1>5, <1>6, <1>7, <1>8, <1>9, <1>10, WritingIInv
        DEF IInv, TypeOK, UseType, history

LEMMA NextIInv == IInv /\ [Next]_vars => IInv'
<1> SUFFICES ASSUME IInv, [Next]_vars PROVE IInv'
  OBVIOUS
<1>1. ASSUME NEW u \in Users, NEW e \in Addresses, Register(u, e) PROVE IInv'
  BY <1>1, RegisterIInv
<1>2. ASSUME NEW a \in Attempts, NEW link \in Users \cup {None},
             NEW old \in SUBSET {b \in Attempts : OldEnough(b)}, Begin(a, link, old)
      PROVE  IInv'
  BY <1>2, BeginIInv
<1>3. ASSUME NEW a \in Attempts,
             \/ AttemptExpires(a) \/ ClaimOAuthState(a) \/ AttemptFails(a)
             \/ \E s \in Subjects, e \in Addresses : StoreExchangeGrant(a, s, e)
             \/ RedeemInVain(a)
      PROVE  IInv'
  BY <1>3, OneAttemptIInv
<1>4. ASSUME NEW r \in Requests, NEW a \in Attempts,
             RedeemToSignIn(r, a) \/ \E u \in Users : RedeemToLink(r, a, u)
      PROVE  IInv'
  BY <1>4, RedeemIInv
<1>5. ASSUME NEW r \in Requests, SignInRefused(r) \/ InsertFails(r) \/ Rollback(r)
      PROVE  IInv'
  BY <1>5, FinishIInv DEF SignInRefused, InsertFails, Rollback
<1>6. ASSUME NEW r \in Requests, FindIdentity(r) PROVE IInv'
  BY <1>6, FindIdentityIInv
<1>7. ASSUME NEW r \in Requests, SignInExisting(r) PROVE IInv'
  BY <1>7, SignInExistingIInv
<1>8. ASSUME NEW r \in Requests, NEW u \in Users, SignInNew(r, u) PROVE IInv'
  BY <1>8, SignInNewIInv
<1>9. ASSUME NEW r \in Requests, CheckLink(r) PROVE IInv'
  BY <1>9, CheckLinkIInv
<1>10. ASSUME NEW r \in Requests, InsertIdentity(r) PROVE IInv'
  BY <1>10, InsertIdentityIInv
<1>11. ASSUME NEW r \in Requests, NEW u \in Users, NEW m \in Methods, CheckUnlink(r, u, m)
       PROVE  IInv'
  BY <1>11, CheckUnlinkIInv
<1>12. ASSUME NEW r \in Requests, DeleteIdentity(r) PROVE IInv'
  BY <1>12, DeleteIdentityIInv
<1>13. CASE UNCHANGED vars
  <2> USE <1>13 DEF vars
  <2>1. TypeOK'
    BY DEF IInv, TypeOK
  <2>2. \A a \in Attempts : AttemptOK(a)'
    BY DEF IInv, AttemptOK, UsesOK
  <2>3. \A r \in Requests : RequestOK(r)'
    BY DEF IInv, RequestOK, Known
  <2>4. \A r, q \in Requests : r # q => Apart(r, q)'
    BY DEF IInv, Apart
  <2>5. \A u \in Users : UserOK(u)'
    BY UsersKept DEF Lasting
  <2>6. \A x \in sessions' : Known(x[1], x[2])'
    BY DEF IInv, Known
  <2> QED BY <2>1, <2>2, <2>3, <2>4, <2>5, <2>6 DEF IInv
<1> QED
  BY <1>1, <1>2, <1>3, <1>4, <1>5, <1>6, <1>7, <1>8, <1>9, <1>10, <1>11, <1>12, <1>13 DEF Next

LEMMA AlwaysIInv == Spec => []IInv
BY InitIInv, NextIInv, PTL DEF Spec

-----------------------------------------------------------------------------
(* The theorems                                                            *)

\* Every variable keeps its type.
THEOREM TypeCorrect == Spec => []TypeOK
<1>1. IInv => TypeOK
  BY DEF IInv
<1> QED BY <1>1, AlwaysIInv, PTL

\* An attempt is good for one sign-in, or one link to the User who began it
\* (google_service.go:164): its code is spent by whoever presents it first, and only one
\* handler ever holds it.
THEOREM CodeServes == Spec => []CodeServesItsPurpose
<1>1. IInv => CodeServesItsPurpose
  <2> SUFFICES ASSUME IInv, NEW a \in Attempts
               PROVE  /\ Len(uses[a]) <= 1
                      /\ \A i \in 1 .. Len(uses[a]) :
                           IF attempt[a].link = None
                           THEN uses[a][i].purpose = "sign_in"
                           ELSE uses[a][i] = [purpose |-> "link", user |-> attempt[a].link]
    BY DEF CodeServesItsPurpose
  <2>1. UsesOK(a)
    BY DEF IInv, AttemptOK
  <2>2. CASE uses[a] = <<>>
    BY <2>2
  <2>3. CASE attempt[a].link = None
             /\ \E u \in Users : uses[a] = <<[purpose |-> "sign_in", user |-> u]>>
    BY <2>3
  <2>4. CASE attempt[a].link \in Users
             /\ uses[a] = <<[purpose |-> "link", user |-> attempt[a].link]>>
    BY <2>4, IdentitiesAssumption
  <2> QED BY <2>1, <2>2, <2>3, <2>4 DEF UsesOK
<1> QED BY <1>1, AlwaysIInv, PTL

\* Google opens a session only for the User it created, or for one who asked to link the
\* account (google_postgres.go:88).
THEOREM SignInByIdentity == Spec => []NoSignInByAddress
<1>1. IInv => NoSignInByAddress
  BY DEF IInv, NoSignInByAddress, Known
<1> QED BY <1>1, AlwaysIInv, PTL

LEMMA AbstractStep == IInv /\ [Next]_vars => [Abstract!AccountsNext]_methods
<1> SUFFICES ASSUME IInv, Next, methods' # methods PROVE Abstract!AccountsNext
  BY DEF vars
<1>1. ASSUME NEW u \in Users, NEW e \in Addresses, Register(u, e)
      PROVE  Abstract!AccountsNext
  <2>1. methods[u] = {}
    BY <1>1 DEF Register, Exists, IInv, UserOK
  <2>2. Abstract!Open(u, e)
    BY <1>1, <2>1 DEF Register, Claimed, Abstract!Open, Abstract!Unclaimed
  <2> QED BY <2>2 DEF Abstract!AccountsNext
<1>2. ASSUME NEW r \in Requests, NEW u \in Users, SignInNew(r, u)
      PROVE  Abstract!AccountsNext
  <2>1. methods[u] = {}
    BY <1>2 DEF SignInNew, Exists, IInv, UserOK
  <2>2. SubjectOf(r) \in Subjects
    BY <1>2, HeldAttempt DEF SignInNew, AtStep, Holding
  <2>3. Abstract!Open(u, SubjectOf(r))
    BY <1>2, <2>1 DEF SignInNew, Claimed, Abstract!Open, Abstract!Unclaimed
  <2> QED BY <2>2, <2>3 DEF Abstract!AccountsNext
<1>3. ASSUME NEW r \in Requests, InsertIdentity(r)
      PROVE  Abstract!AccountsNext
  <2>1. /\ request[r].user \in Users /\ methods[request[r].user] # {}
        /\ methods[request[r].user] \cap Subjects = {}
    BY <1>3 DEF InsertIdentity, AtStep, IInv, RequestOK
  <2>2. SubjectOf(r) \in Subjects
    BY <1>3, HeldAttempt DEF InsertIdentity, AtStep, Holding
  <2>3. Abstract!Add(request[r].user, SubjectOf(r))
    BY <1>3, <2>1 DEF InsertIdentity, Claimed, Abstract!Add, Abstract!Unclaimed
  <2> QED BY <2>1, <2>2, <2>3 DEF Abstract!AccountsNext
<1>4. ASSUME NEW r \in Requests, DeleteIdentity(r)
      PROVE  Abstract!AccountsNext
  <2>1. /\ request[r].user \in Users /\ request[r].method \in methods[request[r].user]
        /\ methods[request[r].user] # {request[r].method}
    BY <1>4 DEF DeleteIdentity, AtStep, IInv, RequestOK
  <2>2. request[r].method \in Addresses \cup Subjects
    BY <2>1 DEF IInv, TypeOK, Methods
  <2>3. Abstract!Remove(request[r].user, request[r].method)
    BY <1>4, <2>1 DEF DeleteIdentity, Abstract!Remove
  <2> QED BY <2>1, <2>2, <2>3 DEF Abstract!AccountsNext
<1>5. ASSUME NEW a \in Attempts,
             \/ \E link \in Users \cup {None}, old \in SUBSET {b \in Attempts : OldEnough(b)} :
                    Begin(a, link, old)
             \/ AttemptExpires(a) \/ ClaimOAuthState(a) \/ AttemptFails(a) \/ RedeemInVain(a)
             \/ \E s \in Subjects, e \in Addresses : StoreExchangeGrant(a, s, e)
             \/ \E r \in Requests : RedeemToSignIn(r, a) \/ \E u \in Users : RedeemToLink(r, a, u)
      PROVE  methods' = methods
  BY <1>5 DEF Begin, AttemptExpires, ClaimOAuthState, AttemptFails, RedeemInVain,
     StoreExchangeGrant, RedeemToSignIn, RedeemToLink
<1>6. ASSUME NEW r \in Requests,
             \/ FindIdentity(r) \/ SignInExisting(r) \/ SignInRefused(r)
             \/ CheckLink(r) \/ InsertFails(r) \/ Rollback(r)
             \/ \E u \in Users, m \in Methods : CheckUnlink(r, u, m)
      PROVE  methods' = methods
  BY <1>6 DEF FindIdentity, SignInExisting, SignInRefused, CheckLink, InsertFails, Rollback,
     CheckUnlink
<1> QED BY <1>1, <1>2, <1>3, <1>4, <1>5, <1>6 DEF Next

\* Handlers that check and then write, under their locks and the unique indexes, do no more
\* than the atomic operations of Accounts: no User loses the last method, holds two Google
\* accounts, or shares a method with another.
THEOREM Refines == Spec => ImplementsAccounts
<1>1. Init => Abstract!AccountsInit
  BY DEF Init, Abstract!AccountsInit
<1> QED BY <1>1, AlwaysIInv, AbstractStep, PTL
        DEF Spec, ImplementsAccounts, Abstract!AccountsSpec
=============================================================================
