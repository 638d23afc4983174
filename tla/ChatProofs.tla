----------------------------- MODULE ChatProofs -----------------------------
(***************************************************************************)
(* Proofs about what internal/chat and its handlers keep: Invites, for any *)
(* Users, invites, requests and max_uses; GuildEvents, for any Users and   *)
(* calls; the request limiter and Listing, for any keys, limits, windows,  *)
(* table sizes, rows and page sizes.                                       *)
(***************************************************************************)
EXTENDS Invites, GuildEvents, Listing, FiniteSetTheorems, TLAPS

\* What a request that holds its invite's row has established, and goes on holding.
AcceptOK(r) ==
    /\ accept[r] \in {"insert", "commit"} => status[code[r]] = "open" /\ ~ Exhausted(code[r])
    /\ accept[r] = "commit" => user[r] \notin member
    /\ accept[r] # "check violated"

\* Who has become a Member since a request looked has accepted another invite.
Collision(r) ==
    \E s \in Requests \ {r} :
        user[s] = user[r] /\ code[s] # code[r] /\ accept[s] \in {"joined", "unheard"}
CollisionOK(r) ==
    /\ accept[r] = "duplicate" => Collision(r)
    /\ accept[r] = "insert" /\ user[r] \in member => Collision(r)

\* The row lock, and the lock of an uncommitted Member, have one holder each.
AcceptsApart(r, q) ==
    /\ accept[r] \in {"insert", "commit"} /\ accept[q] \in {"insert", "commit"} =>
         code[r] # code[q]
    /\ accept[r] = "commit" /\ accept[q] = "commit" => user[r] # user[q]

InvitesIInv ==
    /\ InvitesTypeOK
    /\ \A r \in Requests : AcceptOK(r)
    /\ \A r \in Requests : CollisionOK(r)
    /\ \A r, q \in Requests : r # q => AcceptsApart(r, q)

Ends == {"joined", "already", "not found", "unavailable", "duplicate", "check violated",
         "unheard", "error"}
Stages == {"idle", "lock", "insert", "commit"} \cup Ends

LEMMA InvitesInitIInv == InvitesInit => InvitesIInv
<1> SUFFICES ASSUME InvitesInit PROVE InvitesIInv
  OBVIOUS
<1>1. InvitesTypeOK
  BY OwnerAssumption, InvitesAssumption DEF InvitesInit, SomeMembers, InvitesTypeOK
<1>2. \A r \in Requests : accept[r] = "idle"
  BY DEF InvitesInit
<1> QED BY <1>1, <1>2 DEF InvitesIInv, AcceptOK, CollisionOK, AcceptsApart

\* Steps that no request takes: nobody becomes a Member, and invites in use stay as they are.
LEMMA InvitesAloneIInv ==
    ASSUME InvitesIInv, UNCHANGED requestVars, InvitesTypeOK', member' \subseteq member,
           \A r \in Requests : accept[r] \in {"insert", "commit"} =>
             /\ status'[code[r]] = status[code[r]]
             /\ maxUses'[code[r]] = maxUses[code[r]]
             /\ uses'[code[r]] = uses[code[r]]
    PROVE  InvitesIInv'
<1>1. ASSUME NEW r \in Requests
      PROVE  AcceptOK(r)' /\ CollisionOK(r)'
  <2>1. AcceptOK(r) /\ CollisionOK(r)
    BY DEF InvitesIInv
  <2>2. AcceptOK(r)'
    BY <2>1 DEF AcceptOK, Exhausted, requestVars
  <2>3. CollisionOK(r)'
    BY <2>1 DEF CollisionOK, Collision, requestVars
  <2> QED BY <2>2, <2>3
<1>2. \A r, q \in Requests : r # q => AcceptsApart(r, q)'
  BY DEF InvitesIInv, AcceptsApart, requestVars
<1> QED BY <1>1, <1>2 DEF InvitesIInv

LEMMA InviteStepIInv ==
    ASSUME InvitesIInv,
           \/ \E i \in InviteIds :
                (\E most \in 0..MaxUses : CreateInvite(i, most)) \/ RevokeInvite(i) \/ Expire(i)
           \/ \E u \in Users : RemoveMember(u)
           \/ LockGuild \/ DeleteGuild \/ DeleteGuildFails
    PROVE  InvitesIInv'
<1>1. ASSUME NEW i \in InviteIds, NEW most \in 0..MaxUses, CreateInvite(i, most)
      PROVE  InvitesIInv'
  <2>1. InvitesTypeOK'
    <3>1. most \in Nat
      BY InvitesAssumption
    <3>2. /\ status' \in [InviteIds -> {"none", "open", "revoked"}]
          /\ maxUses' \in [InviteIds -> Nat]
      BY <1>1, <3>1 DEF InvitesIInv, InvitesTypeOK, CreateInvite
    <3> QED BY <1>1, <3>2 DEF InvitesIInv, InvitesTypeOK, CreateInvite, requestVars
  <2>2. ASSUME NEW r \in Requests, accept[r] \in {"insert", "commit"}
        PROVE  code[r] # i
    BY <1>1, <2>2 DEF InvitesIInv, AcceptOK, CreateInvite
  <2>3. /\ \A j \in InviteIds \ {i} : status'[j] = status[j] /\ maxUses'[j] = maxUses[j]
        /\ UNCHANGED <<uses, member, requestVars>>
    BY <1>1 DEF InvitesIInv, InvitesTypeOK, CreateInvite
  <2>4. \A r \in Requests : accept[r] # "idle" => code[r] \in InviteIds
    BY DEF InvitesIInv, InvitesTypeOK
  <2> QED BY <2>1, <2>2, <2>3, <2>4, InvitesAloneIInv
<1>2. ASSUME NEW i \in InviteIds, RevokeInvite(i)
      PROVE  InvitesIInv'
  <2>1. InvitesTypeOK'
    BY <1>2 DEF InvitesIInv, InvitesTypeOK, RevokeInvite, requestVars
  <2>2. ASSUME NEW r \in Requests, accept[r] \in {"insert", "commit"}
        PROVE  code[r] # i
    BY <1>2, <2>2 DEF RevokeInvite, Locked, Holds
  <2>3. /\ \A j \in InviteIds \ {i} : status'[j] = status[j]
        /\ UNCHANGED <<maxUses, uses, member, requestVars>>
    BY <1>2 DEF InvitesIInv, InvitesTypeOK, RevokeInvite
  <2>4. \A r \in Requests : accept[r] # "idle" => code[r] \in InviteIds
    BY DEF InvitesIInv, InvitesTypeOK
  <2> QED BY <2>1, <2>2, <2>3, <2>4, InvitesAloneIInv
<1>3. ASSUME NEW i \in InviteIds, Expire(i)
      PROVE  InvitesIInv'
  <2>1. InvitesTypeOK'
    BY <1>3 DEF InvitesIInv, InvitesTypeOK, Expire, requestVars
  <2> QED BY <1>3, <2>1, InvitesAloneIInv DEF Expire
<1>4. ASSUME NEW u \in Users, RemoveMember(u)
      PROVE  InvitesIInv'
  <2>1. InvitesTypeOK'
    BY <1>4 DEF InvitesIInv, InvitesTypeOK, RemoveMember, DropMember, requestVars
  <2> QED BY <1>4, <2>1, InvitesAloneIInv DEF RemoveMember, DropMember
<1>5. CASE LockGuild \/ DeleteGuildFails
  <2>1. InvitesTypeOK'
    BY <1>5 DEF InvitesIInv, InvitesTypeOK, LockGuild, DeleteGuildFails, requestVars
  <2> QED BY <1>5, <2>1, InvitesAloneIInv DEF LockGuild, DeleteGuildFails
<1>6. CASE DeleteGuild
  <2>1. InvitesTypeOK'
    BY <1>6 DEF InvitesIInv, InvitesTypeOK, DeleteGuild, requestVars
  <2>2. \A r \in Requests : accept[r] \notin {"insert", "commit"}
    BY <1>6 DEF DeleteGuild, Locked, Holds, InvitesIInv, InvitesTypeOK
  <2>3. member' \subseteq member /\ UNCHANGED requestVars
    BY <1>6 DEF DeleteGuild
  <2> QED BY <2>1, <2>2, <2>3, InvitesAloneIInv
<1> QED BY <1>1, <1>2, <1>3, <1>4, <1>5, <1>6

\* A request moves on: those that have joined remain, so that what explains a collision does.
LEMMA RequestStep ==
    ASSUME InvitesIInv, NEW r \in Requests, NEW stage \in Stages,
           accept' = [accept EXCEPT ![r] = stage],
           accept[r] \notin Ends, UNCHANGED <<user, code>>, InvitesTypeOK',
           \A q \in Requests \ {r} : AcceptOK(q)' /\ AcceptsApart(r, q)',
           AcceptOK(r)', CollisionOK(r)',
           \A q \in Requests \ {r} :
             accept[q] = "insert" /\ user[q] \in member' => user[q] \in member \/ Collision(q)'
    PROVE  InvitesIInv'
<1>1. accept'[r] = stage /\ \A q \in Requests \ {r} : accept'[q] = accept[q]
  BY DEF InvitesIInv, InvitesTypeOK
<1>2. ASSUME NEW q \in Requests \ {r}
      PROVE  CollisionOK(q)'
  <2>1. CollisionOK(q)
    BY DEF InvitesIInv
  <2>2. Collision(q) => Collision(q)'
    BY <1>1 DEF Collision, Ends
  <2>3. accept'[q] = accept[q] /\ user' = user
    BY <1>1
  <2>4. accept[q] = "insert" /\ user[q] \in member' => user[q] \in member \/ Collision(q)'
    OBVIOUS
  <2> HIDE DEF Collision
  <2> QED BY <2>1, <2>2, <2>3, <2>4 DEF CollisionOK
<1>3. ASSUME NEW q \in Requests, NEW t \in Requests, q # t
      PROVE  AcceptsApart(q, t)'
  <2>1. CASE q = r
    BY <1>3, <2>1
  <2>2. CASE t = r
    <3>1. AcceptsApart(r, q)'
      BY <1>3, <2>2
    <3> QED BY <2>2, <3>1 DEF AcceptsApart
  <2>3. CASE q # r /\ t # r
    BY <1>1, <1>3, <2>3 DEF InvitesIInv, AcceptsApart
  <2> QED BY <2>1, <2>2, <2>3
<1> QED BY <1>2, <1>3 DEF InvitesIInv

\* Requests that change nothing but the place they stand at.
LEMMA PlaceIInv ==
    ASSUME InvitesIInv, NEW r \in Requests, NEW stage \in Stages,
           accept' = [accept EXCEPT ![r] = stage], accept[r] \notin Ends,
           UNCHANGED <<guild, member, status, maxUses, uses, expired, user, code, late>>,
           accept[r] # "idle", stage \notin {"idle", "check violated"},
           stage = "insert" =>
             /\ status[code[r]] = "open" /\ ~ Exhausted(code[r]) /\ ~ Locked(code[r])
             /\ user[r] \notin member,
           stage = "commit" =>
             /\ accept[r] = "insert" /\ user[r] \notin member
             /\ \A s \in Requests : ~ (accept[s] = "commit" /\ user[s] = user[r]),
           stage = "duplicate" => accept[r] = "insert" /\ user[r] \in member
    PROVE  InvitesIInv'
<1>1. accept'[r] = stage /\ \A q \in Requests \ {r} : accept'[q] = accept[q]
  BY DEF InvitesIInv, InvitesTypeOK
<1>2. InvitesTypeOK'
  BY <1>1 DEF InvitesIInv, InvitesTypeOK, Stages, Ends
<1>3. ASSUME NEW q \in Requests \ {r}
      PROVE  AcceptOK(q)' /\ AcceptsApart(r, q)'
  <2>1. AcceptOK(q) /\ AcceptsApart(r, q)
    BY DEF InvitesIInv
  <2>2. AcceptOK(q)'
    BY <1>1, <2>1 DEF AcceptOK, Exhausted
  <2>3. AcceptsApart(r, q)'
    BY <1>1, <2>1 DEF AcceptsApart, Locked, Holds
  <2> QED BY <2>2, <2>3
<1>4. AcceptOK(r)'
  <2>1. AcceptOK(r)
    BY DEF InvitesIInv
  <2> QED BY <1>1, <2>1 DEF AcceptOK, Exhausted
<1>5. CollisionOK(r)'
  <2>1. CollisionOK(r)
    BY DEF InvitesIInv
  <2>2. Collision(r) => Collision(r)'
    BY <1>1 DEF Collision
  <2> QED BY <1>1, <2>1, <2>2 DEF CollisionOK
<1> QED BY <1>2, <1>3, <1>4, <1>5, RequestStep

LEMMA ArriveIInv ==
    ASSUME InvitesIInv, NEW r \in Requests, NEW u \in Users, NEW i \in InviteIds,
           Arrive(r, u, i)
    PROVE  InvitesIInv'
<1>1. /\ accept[r] = "idle" /\ accept'[r] = "lock"
      /\ \A q \in Requests \ {r} :
           accept'[q] = accept[q] /\ user'[q] = user[q] /\ code'[q] = code[q]
      /\ UNCHANGED <<guild, member, status, maxUses, uses, expired>>
  BY DEF Arrive, InvitesIInv, InvitesTypeOK
<1>2. InvitesTypeOK'
  BY <1>1 DEF Arrive, InvitesIInv, InvitesTypeOK
<1>3. ASSUME NEW q \in Requests
      PROVE  AcceptOK(q)' /\ CollisionOK(q)'
  <2>1. AcceptOK(q) /\ CollisionOK(q)
    BY DEF InvitesIInv
  <2>2. AcceptOK(q)'
    BY <1>1, <2>1 DEF AcceptOK, Exhausted
  <2>3. CASE q = r
    BY <1>1, <2>2, <2>3 DEF CollisionOK
  <2>4. CASE q # r
    <3>1. Collision(q) => Collision(q)'
      BY <1>1, <2>4 DEF Collision
    <3> QED BY <1>1, <2>1, <2>2, <2>4, <3>1 DEF CollisionOK
  <2> QED BY <2>3, <2>4
<1>4. \A q, t \in Requests : q # t => AcceptsApart(q, t)'
  BY <1>1 DEF InvitesIInv, AcceptsApart
<1> QED BY <1>2, <1>3, <1>4 DEF InvitesIInv

LEMMA LockInviteIInv ==
    ASSUME InvitesIInv, NEW r \in Requests, LockInvite(r)
    PROVE  InvitesIInv'
<1> DEFINE stage == LockInviteAnswer(r)
<1>1. stage \in Stages \ {"idle", "commit", "duplicate", "check violated"}
  BY DEF LockInviteAnswer, Stages, Ends
<1>2. stage = "insert" =>
        status[code[r]] = "open" /\ ~ Exhausted(code[r]) /\ user[r] \notin member
  BY DEF LockInviteAnswer
<1>3. /\ accept[r] = "lock" /\ ~ Locked(code[r])
      /\ accept' = [accept EXCEPT ![r] = stage]
      /\ UNCHANGED <<guild, member, status, maxUses, uses, expired, user, code, late>>
  BY DEF LockInvite
<1> HIDE DEF stage
<1> QED BY <1>1, <1>2, <1>3, PlaceIInv DEF Ends

LEMMA InsertMemberIInv ==
    ASSUME InvitesIInv, NEW r \in Requests, InsertMember(r)
    PROVE  InvitesIInv'
<1>1. accept[r] = "insert" /\ ~ Exhausted(code[r])
  BY DEF InsertMember, InvitesIInv, AcceptOK
<1>2. PICK stage \in {"duplicate", "commit"} :
        /\ accept' = [accept EXCEPT ![r] = stage]
        /\ stage = "duplicate" => user[r] \in member
        /\ stage = "commit" => user[r] \notin member
  <2>1. CASE user[r] \in member
    BY <2>1 DEF InsertMember
  <2>2. CASE user[r] \notin member
    BY <1>1, <2>2 DEF InsertMember
  <2> QED BY <2>1, <2>2
<1>3. /\ \A s \in Requests : ~ (accept[s] = "commit" /\ user[s] = user[r])
      /\ UNCHANGED <<guild, member, status, maxUses, uses, expired, user, code, late>>
  BY DEF InsertMember
<1> QED BY <1>1, <1>2, <1>3, PlaceIInv DEF Stages, Ends

LEMMA RollbackIInv ==
    ASSUME InvitesIInv, NEW r \in Requests, Rollback(r)
    PROVE  InvitesIInv'
<1>1. /\ accept[r] \in {"lock", "insert", "commit"}
      /\ accept' = [accept EXCEPT ![r] = "error"]
      /\ UNCHANGED <<guild, member, status, maxUses, uses, expired, user, code, late>>
  BY DEF Rollback
<1>2. accept[r] \notin Ends /\ accept[r] # "idle" /\ "error" \in Stages
  BY <1>1 DEF Stages, Ends
<1> QED BY <1>1, <1>2, PlaceIInv

LEMMA CommitAcceptIInv ==
    ASSUME InvitesIInv, NEW r \in Requests, CommitAccept(r)
    PROVE  InvitesIInv'
<1>1. PICK end \in {"joined", "unheard"} : accept' = [accept EXCEPT ![r] = end]
  BY DEF CommitAccept
<1>2. /\ accept[r] = "commit"
      /\ member' = member \cup {user[r]}
      /\ uses' = [uses EXCEPT ![code[r]] = @ + 1]
      /\ UNCHANGED <<guild, status, maxUses, expired, user, code, late>>
  BY DEF CommitAccept
<1>3. code[r] \in InviteIds /\ user[r] \in Users
  BY <1>2 DEF InvitesIInv, InvitesTypeOK
<1>4. /\ accept'[r] = end /\ \A q \in Requests \ {r} : accept'[q] = accept[q]
      /\ \A i \in InviteIds \ {code[r]} : uses'[i] = uses[i]
  BY <1>1, <1>2 DEF InvitesIInv, InvitesTypeOK
<1>5. InvitesTypeOK'
  <2>1. uses' \in [InviteIds -> Nat]
    <3>1. PICK c \in InviteIds : c = code[r]
      BY <1>3
    <3>2. uses \in [InviteIds -> Nat] /\ uses' = [uses EXCEPT ![c] = uses[c] + 1]
      BY <1>2, <3>1 DEF InvitesIInv, InvitesTypeOK
    <3>3. uses[c] + 1 \in Nat
      BY <3>2
    <3> QED BY ONLY <3>2, <3>3
  <2>2. accept' \in [Requests -> {"idle", "lock", "insert", "commit", "joined", "already",
                                  "not found", "unavailable", "duplicate",
                                  "check violated", "unheard", "error"}]
    BY <1>1 DEF InvitesIInv, InvitesTypeOK
  <2>3. \A q \in Requests : accept'[q] # "idle" => code[q] \in InviteIds
    BY <1>3, <1>4 DEF InvitesIInv, InvitesTypeOK
  <2> QED BY <1>2, <1>3, <2>1, <2>2, <2>3 DEF InvitesIInv, InvitesTypeOK
<1>6. ASSUME NEW q \in Requests \ {r}
      PROVE  AcceptOK(q)' /\ AcceptsApart(r, q)'
  <2>1. AcceptOK(q) /\ AcceptsApart(r, q)
    BY DEF InvitesIInv
  <2>2. accept[q] \in {"insert", "commit"} => code[q] \in InviteIds \ {code[r]}
    BY <1>2, <2>1 DEF AcceptsApart, InvitesIInv, InvitesTypeOK
  <2>3. AcceptOK(q)'
    BY <1>2, <1>4, <2>1, <2>2 DEF AcceptOK, Exhausted, AcceptsApart
  <2>4. AcceptsApart(r, q)'
    BY <1>4 DEF AcceptsApart
  <2> QED BY <2>3, <2>4
<1>7. AcceptOK(r)' /\ CollisionOK(r)'
  BY <1>4 DEF AcceptOK, CollisionOK
<1>8. ASSUME NEW q \in Requests \ {r}, accept[q] = "insert", user[q] \in member',
             user[q] \notin member
      PROVE  Collision(q)'
  <2>1. user[q] = user[r] /\ code[q] # code[r]
    BY <1>2, <1>8 DEF InvitesIInv, AcceptsApart
  <2> QED BY <1>2, <1>4, <2>1 DEF Collision
<1> QED BY <1>1, <1>2, <1>5, <1>6, <1>7, <1>8, RequestStep DEF Stages, Ends

LEMMA InvitesNextIInv == InvitesIInv /\ [InvitesNext]_inviteVars => InvitesIInv'
<1> SUFFICES ASSUME InvitesIInv, [InvitesNext]_inviteVars PROVE InvitesIInv'
  OBVIOUS
<1>1. CASE \/ \E i \in InviteIds :
                (\E most \in 0..MaxUses : CreateInvite(i, most)) \/ RevokeInvite(i) \/ Expire(i)
           \/ \E u \in Users : RemoveMember(u)
           \/ LockGuild \/ DeleteGuild \/ DeleteGuildFails
  BY <1>1, InviteStepIInv
<1>2. ASSUME NEW r \in Requests, NEW u \in Users, NEW i \in InviteIds, Arrive(r, u, i)
      PROVE  InvitesIInv'
  BY <1>2, ArriveIInv
<1>3. ASSUME NEW r \in Requests, LockInvite(r) \/ InsertMember(r) \/ Rollback(r)
      PROVE  InvitesIInv'
  BY <1>3, LockInviteIInv, InsertMemberIInv, RollbackIInv
<1>4. ASSUME NEW r \in Requests, CommitAccept(r)
      PROVE  InvitesIInv'
  BY <1>4, CommitAcceptIInv
<1>5. CASE UNCHANGED inviteVars
  <2> USE <1>5 DEF inviteVars, requestVars
  <2>1. InvitesTypeOK'
    BY DEF InvitesIInv, InvitesTypeOK
  <2> QED BY <2>1, InvitesAloneIInv
<1> QED BY <1>1, <1>2, <1>3, <1>4, <1>5 DEF InvitesNext, Preparation

LEMMA InvitesAlways == InvitesSpec => []InvitesIInv
BY InvitesInitIInv, InvitesNextIInv, PTL DEF InvitesSpec

-----------------------------------------------------------------------------
(* The theorems.                                                           *)

\* Every variable keeps its type.
THEOREM InvitesTypeCorrect == InvitesSpec => []InvitesTypeOK
<1>1. InvitesIInv => InvitesTypeOK
  BY DEF InvitesIInv
<1> QED BY <1>1, InvitesAlways, PTL

\* With the row lock no accept runs into the CHECK of max_uses, and one runs into the
\* primary key only where its User has accepted another invite (AcceptInvite).
THEOREM CollisionsExplained == InvitesSpec => []OnlyOneselfCollides
<1>1. InvitesIInv => OnlyOneselfCollides
  BY DEF InvitesIInv, AcceptOK, CollisionOK, Collision, OnlyOneselfCollides
<1> QED BY <1>1, InvitesAlways, PTL

LEMMA JoinStep ==
    InvitesIInv /\ [InvitesNext]_inviteVars =>
      [/\ member' \subseteq member \/ \E i \in InviteIds : uses'[i] # uses[i]
       /\ \A i \in InviteIds : uses'[i] # uses[i] =>
            /\ uses'[i] = uses[i] + 1
            /\ maxUses[i] # 0 => uses'[i] <= maxUses[i]
            /\ status[i] = "open"
            /\ \A j \in InviteIds \ {i} : uses'[j] = uses[j]
            /\ \E u \in Users \ member : member' = member \cup {u}]_inviteVars
<1> SUFFICES ASSUME InvitesIInv, InvitesNext
             PROVE  /\ member' \subseteq member \/ \E i \in InviteIds : uses'[i] # uses[i]
                    /\ \A i \in InviteIds : uses'[i] # uses[i] =>
                         /\ uses'[i] = uses[i] + 1
                         /\ maxUses[i] # 0 => uses'[i] <= maxUses[i]
                         /\ status[i] = "open"
                         /\ \A j \in InviteIds \ {i} : uses'[j] = uses[j]
                         /\ \E u \in Users \ member : member' = member \cup {u}
  OBVIOUS
<1>1. CASE Preparation \/ \E u \in Users : RemoveMember(u)
  <2>1. uses' = uses /\ member' \subseteq member
    BY <1>1 DEF Preparation, CreateInvite, RevokeInvite, Expire, LockGuild, DeleteGuild,
       DeleteGuildFails, Arrive, LockInvite, InsertMember, Rollback, RemoveMember, DropMember
  <2> QED BY <2>1
<1>2. ASSUME NEW r \in Requests, CommitAccept(r)
      PROVE  /\ \E i \in InviteIds : uses'[i] # uses[i]
             /\ \A i \in InviteIds : uses'[i] # uses[i] =>
                  /\ uses'[i] = uses[i] + 1
                  /\ maxUses[i] # 0 => uses'[i] <= maxUses[i]
                  /\ status[i] = "open"
                  /\ \A j \in InviteIds \ {i} : uses'[j] = uses[j]
                  /\ \E u \in Users \ member : member' = member \cup {u}
  <2>1. /\ code[r] \in InviteIds /\ user[r] \in Users \ member
        /\ status[code[r]] = "open" /\ ~ Exhausted(code[r])
    BY <1>2 DEF CommitAccept, InvitesIInv, InvitesTypeOK, AcceptOK
  <2>2. PICK c \in InviteIds, n \in Nat, most \in Nat :
          c = code[r] /\ n = uses[c] /\ most = maxUses[c]
    BY <2>1 DEF InvitesIInv, InvitesTypeOK
  <2>3. /\ uses'[c] = n + 1
        /\ \A j \in InviteIds \ {c} : uses'[j] = uses[j]
        /\ member' = member \cup {user[r]}
    BY <1>2, <2>2 DEF CommitAccept, InvitesIInv, InvitesTypeOK
  <2>4. n + 1 # n /\ (most # 0 => n + 1 <= most)
    <3>1. most = 0 \/ ~ (n >= most)
      BY <2>1, <2>2 DEF Exhausted
    <3> QED BY <3>1
  <2> QED BY <2>1, <2>2, <2>3, <2>4
<1> QED BY <1>1, <1>2 DEF InvitesNext

\* An invite's uses are the Members it has admitted, one at a time, within max_uses and
\* while it is open: two accepts cannot both take the last use (AcceptInvite).
THEOREM JoinsCounted == InvitesSpec => JoinsAreCounted
BY JoinStep, InvitesAlways, PTL DEF InvitesSpec, JoinsAreCounted
-----------------------------------------------------------------------------
(* GuildEvents.  An overlap is what tears a subject, so the call about one *)
(* that is not torn is alone with it: what is stored, what the clients     *)
(* show and what the call has still to tell differ by that call's change.  *)

Changes == {"create", "update", "delete", "add", "remove", "join", "leave"}
Places == {"idle", "update", "count", "commit", "due", "publish", "done"}

\* A call's place, its operation and its reaction change go together.
CallOK(c) ==
    /\ call[c] \in {"idle", "done"} <=> op[c] = "none"
    /\ call[c] = "update" => op[c] = "update"
    /\ call[c] \in {"count", "commit"} => op[c] \in {"add", "remove"}
    /\ call[c] = "publish" => Announces(c)
    /\ c \in changed => op[c] \in {"add", "remove"}
    /\ op[c] = "leave" => by[c] # Owner

CallsInv ==
    /\ call \in [Calls -> Places]
    /\ op \in [Calls -> Changes \cup {"none"}]
    /\ by \in [Calls -> Users]
    /\ changed \subseteq Calls
    /\ tally = [c \in Calls |-> tally[c]]
    /\ audience \in [Calls -> SUBSET Users]
    /\ view = [text |-> view.text, who |-> view.who, count |-> view.count,
               members |-> view.members]
    /\ \A c \in Calls : CallOK(c)

\* What is stored is consistent: no reaction without a message, and none under
\* way when one is deleted.
StoredInv ==
    /\ ~ posted => text = None
    /\ text = None => reacted = {}
    /\ \A c \in changed : InTransaction(c) => text # None
    /\ exists => Owner \in member
    /\ member \subseteq Users
    /\ exists => \A c \in Calls : call[c] = "publish" => Owner \in audience[c]

\* Whether a call is about the message, the count, u's reaction, u's membership.
OnMessage(c) == op[c] \in {"create", "update", "delete"}
OnCount(c) == op[c] \in {"create", "delete", "add", "remove"}
OnReaction(c, u) ==
    op[c] \in {"create", "delete"} \/ (op[c] \in {"add", "remove"} /\ by[c] = u)
OnMembership(c, u) == op[c] \in {"join", "leave"} /\ by[c] = u

ApartInv ==
    \A c, d \in Calls : c # d =>
        /\ Message \notin torn => ~ (OnMessage(c) /\ OnMessage(d))
        /\ Count \notin torn => ~ (OnCount(c) /\ OnCount(d))
        /\ \A u \in Users :
             /\ Reaction(u) \notin torn => ~ (OnReaction(c, u) /\ OnReaction(d, u))
             /\ Membership(u) \notin torn => ~ (OnMembership(c, u) /\ OnMembership(d, u))

Committed(c) == call[c] \in {"due", "publish"}

MessageAgrees ==
    exists /\ Message \notin torn =>
        /\ (\A c \in Calls : ~ OnMessage(c)) => view.text = text
        /\ \A c \in Calls :
             /\ call[c] = "update" => view.text = text
             /\ Committed(c) /\ op[c] \in {"create", "update"} => text = c
             /\ Committed(c) /\ op[c] = "update" => view.text # None
             /\ op[c] = "delete" => text = None

\* The Owner's client knows of a message if there is one, where s is not torn.
Aware ==
    /\ (\A c \in Calls : op[c] \notin {"create", "delete"}) =>
         (view.text = None <=> text = None)
    /\ \A c \in Calls : (op[c] = "create" => text # None) /\ (op[c] = "delete" => text = None)

CountFor(c) ==
    /\ op[c] \in {"create", "delete"} => reacted = {}
    /\ op[c] \in {"add", "remove"} => text # None
    /\ InTransaction(c) => view.count = Cardinality(reacted)
    /\ call[c] = "commit" => tally[c] = Cardinality(WithOwnChange(c))
    /\ Committed(c) /\ op[c] \in {"add", "remove"} =>
         IF c \in changed THEN tally[c] = Cardinality(reacted)
                          ELSE view.count = Cardinality(reacted)
CountAgrees ==
    exists /\ Count \notin torn =>
        /\ Aware
        /\ (\A c \in Calls : ~ OnCount(c)) => view.count = Cardinality(reacted)
        /\ \A c \in Calls : CountFor(c)

ReactionFor(c, u) ==
    /\ op[c] \in {"create", "delete"} => u \notin reacted
    /\ op[c] \in {"add", "remove"} => text # None
    /\ InTransaction(c) => (u \in view.who <=> u \in reacted)
    /\ Committed(c) /\ op[c] \in {"add", "remove"} =>
         IF c \in changed THEN op[c] = "add" <=> u \in reacted
                          ELSE u \in view.who <=> u \in reacted
ReactionAgrees(u) ==
    exists /\ Reaction(u) \notin torn =>
        /\ Aware
        /\ (\A c \in Calls : ~ OnReaction(c, u)) => (u \in view.who <=> u \in reacted)
        /\ \A c \in Calls : OnReaction(c, u) => ReactionFor(c, u)

MembershipAgrees(u) ==
    exists /\ Membership(u) \notin torn =>
        /\ (\A c \in Calls : ~ OnMembership(c, u)) =>
             (u \in view.members <=> u \in member) /\ (u \in own <=> u \in member)
        /\ \A c \in Calls : OnMembership(c, u) =>
             /\ op[c] = "join" <=> u \in member
             /\ call[c] = "publish" => u \in audience[c]

AgreeInv ==
    /\ MessageAgrees
    /\ CountAgrees
    /\ \A u \in Users : ReactionAgrees(u)
    /\ \A u \in Users : MembershipAgrees(u)

EventsIInv == CallsInv /\ StoredInv /\ ApartInv /\ AgreeInv

LEMMA SubjectsDiffer ==
    /\ Message # Count
    /\ \A u : Message # Reaction(u) /\ Message # Membership(u)
    /\ \A u : Count # Reaction(u) /\ Count # Membership(u)
    /\ \A u, w : /\ Reaction(u) # Membership(w)
                 /\ Reaction(u) = Reaction(w) => u = w
                 /\ Membership(u) = Membership(w) => u = w
BY DEF Message, Count, Reaction, Membership

LEMMA AboutSubjects ==
    ASSUME NEW o \in Changes \cup {"none"}, NEW u
    PROVE  /\ Message \in About(o, u) <=> o \in {"create", "update", "delete"}
           /\ Count \in About(o, u) <=> o \in {"create", "delete", "add", "remove"}
           /\ \A w \in Users :
                /\ Reaction(w) \in About(o, u) <=>
                     o \in {"create", "delete"} \/ (o \in {"add", "remove"} /\ u = w)
                /\ Membership(w) \in About(o, u) <=> o \in {"join", "leave"} /\ u = w
<1>1. CASE o \in {"create", "delete"}
  <2>1. About(o, u) = {Message, Count} \cup {Reaction(w) : w \in Users}
    BY <1>1 DEF About
  <2> QED
    BY <1>1, <2>1, SubjectsDiffer
<1>2. CASE o = "update"
  BY <1>2, SubjectsDiffer DEF About
<1>3. CASE o \in {"add", "remove"}
  <2>1. About(o, u) = {Reaction(u), Count}
    BY <1>3 DEF About
  <2> QED
    BY <1>3, <2>1, SubjectsDiffer
<1>4. CASE o \in {"join", "leave"}
  <2>1. About(o, u) = {Membership(u)}
    BY <1>4 DEF About
  <2> QED
    BY <1>4, <2>1, SubjectsDiffer
<1>5. CASE o = "none"
  <2>1. About(o, u) = {}
    BY <1>5 DEF About
  <2> QED
    BY <1>5, <2>1
<1> QED
  BY <1>1, <1>2, <1>3, <1>4, <1>5 DEF Changes

\* Which calls are under way about what.
LEMMA UnderwaySubjects ==
    ASSUME CallsInv
    PROVE  /\ Message \in Underway <=> \E c \in Calls : OnMessage(c)
           /\ Count \in Underway <=> \E c \in Calls : OnCount(c)
           /\ \A u \in Users :
                /\ Reaction(u) \in Underway <=> \E c \in Calls : OnReaction(c, u)
                /\ Membership(u) \in Underway <=> \E c \in Calls : OnMembership(c, u)
<1>1. \A s : s \in Underway <=> \E c \in Calls : Busy(c) /\ s \in About(op[c], by[c])
  BY DEF Underway
<1>2. \A c \in Calls : op[c] \in Changes \cup {"none"} /\ (Busy(c) <=> op[c] # "none")
  BY DEF CallsInv, CallOK, Busy
<1>3. \A c \in Calls :
        /\ Message \in About(op[c], by[c]) <=> OnMessage(c)
        /\ Count \in About(op[c], by[c]) <=> OnCount(c)
        /\ \A u \in Users :
             /\ Reaction(u) \in About(op[c], by[c]) <=> OnReaction(c, u)
             /\ Membership(u) \in About(op[c], by[c]) <=> OnMembership(c, u)
  BY <1>2, AboutSubjects DEF OnMessage, OnCount, OnReaction, OnMembership
<1>4. \A c \in Calls : op[c] = "none" =>
        ~ OnMessage(c) /\ ~ OnCount(c) /\ \A u : ~ OnReaction(c, u) /\ ~ OnMembership(c, u)
  BY DEF OnMessage, OnCount, OnReaction, OnMembership
<1> QED
  BY <1>1, <1>2, <1>3, <1>4

\* What a call that begins tears: what another call is about.
Tears(o, w) ==
    /\ Message \in torn' <=>
         Message \in torn \/ (/\ o \in {"create", "update", "delete"}
                              /\ \E d \in Calls : OnMessage(d))
    /\ Count \in torn' <=>
         Count \in torn \/ (/\ o \in {"create", "delete", "add", "remove"}
                            /\ \E d \in Calls : OnCount(d))
    /\ \A u \in Users :
         /\ Reaction(u) \in torn' <=>
              Reaction(u) \in torn \/
                (/\ o \in {"create", "delete"} \/ (o \in {"add", "remove"} /\ w = u)
                 /\ \E d \in Calls : OnReaction(d, u))
         /\ Membership(u) \in torn' <=>
              Membership(u) \in torn \/ (/\ o \in {"join", "leave"} /\ w = u
                                         /\ \E d \in Calls : OnMembership(d, u))

LEMMA BeginTears ==
    ASSUME CallsInv, NEW c, NEW o \in Changes, NEW w \in Users, NEW place,
           Begin(c, o, w, place)
    PROVE  Tears(o, w)
<1>1. torn' = torn \cup (About(o, w) \cap Underway)
  BY DEF Begin
<1> QED
  BY <1>1, AboutSubjects, UnderwaySubjects DEF Tears

\* What an announcement that fails tears: what its call is about.
LEMMA FailureTears ==
    ASSUME CallsInv, NEW c \in Calls, AnnouncementFails(c)
    PROVE  /\ Message \in torn' <=> Message \in torn \/ OnMessage(c)
           /\ Count \in torn' <=> Count \in torn \/ OnCount(c)
           /\ \A u \in Users :
                /\ Reaction(u) \in torn' <=> Reaction(u) \in torn \/ OnReaction(c, u)
                /\ Membership(u) \in torn' <=> Membership(u) \in torn \/ OnMembership(c, u)
<1>1. torn' = torn \cup About(op[c], by[c]) /\ op[c] \in Changes \cup {"none"}
  BY DEF AnnouncementFails, CallsInv
<1> QED
  BY <1>1, AboutSubjects DEF OnMessage, OnCount, OnReaction, OnMembership

\* What the client shows once it has applied the event of a call.
LEMMA ShownFields ==
    ASSUME CallsInv, NEW c \in Calls
    PROVE  /\ Shown(c) = [text |-> Shown(c).text, who |-> Shown(c).who,
                          count |-> Shown(c).count, members |-> Shown(c).members]
           /\ Shown(c).text =
                IF op[c] = "create" \/ (op[c] = "update" /\ view.text # None) THEN c
                ELSE IF op[c] = "delete" THEN None ELSE view.text
           /\ Shown(c).who =
                IF op[c] \in {"create", "delete"} THEN {}
                ELSE IF op[c] = "add" /\ view.text # None THEN view.who \cup {by[c]}
                ELSE IF op[c] = "remove" /\ view.text # None THEN view.who \ {by[c]}
                ELSE view.who
           /\ Shown(c).count =
                IF op[c] \in {"create", "delete"} THEN 0
                ELSE IF op[c] \in {"add", "remove"} /\ view.text # None THEN tally[c]
                ELSE view.count
           /\ Shown(c).members =
                IF op[c] = "join" THEN view.members \cup {by[c]}
                ELSE IF op[c] = "leave" THEN view.members \ {by[c]} ELSE view.members
<1>1. /\ op[c] \in Changes \cup {"none"}
      /\ view = [text |-> view.text, who |-> view.who, count |-> view.count,
                 members |-> view.members]
  BY DEF CallsInv
<1>2. CASE op[c] = "create"
  BY <1>1, <1>2 DEF Shown
<1>3. CASE op[c] = "update"
  BY <1>1, <1>3 DEF Shown
<1>4. CASE op[c] = "delete"
  BY <1>1, <1>4 DEF Shown
<1>5. CASE op[c] = "add"
  BY <1>1, <1>5 DEF Shown
<1>6. CASE op[c] = "remove"
  BY <1>1, <1>6 DEF Shown
<1>7. CASE op[c] \in {"join", "leave", "none"}
  BY <1>1, <1>7 DEF Shown
<1> QED
  BY <1>1, <1>2, <1>3, <1>4, <1>5, <1>6, <1>7 DEF Changes

\* A call that returns keeps nothing; the others keep what they have.
LEMMA ReturnKeeps ==
    ASSUME CallsInv, NEW c \in Calls, Return(c)
    PROVE  /\ call' = [call EXCEPT ![c] = "done"]
           /\ op[c]' = "none" /\ call[c]' = "done" /\ c \notin changed'
           /\ \A d \in Calls \ {c} :
                /\ call[d]' = call[d] /\ op[d]' = op[d] /\ by[d]' = by[d]
                /\ tally[d]' = tally[d] /\ audience[d]' = audience[d]
                /\ d \in changed' <=> d \in changed
           /\ op' \in [Calls -> Changes \cup {"none"}] /\ by' \in [Calls -> Users]
           /\ call' \in [Calls -> Places] /\ audience' \in [Calls -> SUBSET Users]
           /\ tally' = [d \in Calls |-> tally'[d]] /\ changed' \subseteq Calls
BY OwnerAssumption DEF CallsInv, Return, Places, Changes

LEMMA ReturnCalls ==
    ASSUME CallsInv, NEW c \in Calls, Return(c),
           view' = [text |-> view.text, who |-> view.who, count |-> view.count,
                    members |-> view.members]'
    PROVE  CallsInv'
<1>1. ASSUME NEW d \in Calls PROVE CallOK(d)'
  <2>1. CASE d = c
    BY <2>1, ReturnKeeps DEF CallOK, Announces
  <2>2. CASE d # c
    <3>1. CallOK(d)
      BY DEF CallsInv
    <3> QED
      BY <2>2, <3>1, ReturnKeeps DEF CallOK, Announces
  <2> QED
    BY <2>1, <2>2
<1> QED
  BY <1>1, ReturnKeeps DEF CallsInv

\* One step keeps the calls consistent.
LEMMA CallsStep == EventsIInv /\ EventsNext => CallsInv'
<1> SUFFICES ASSUME EventsIInv, EventsNext PROVE CallsInv'
  OBVIOUS
<1>1. CASE EraseGuild
  BY <1>1
     DEF EraseGuild, EventsIInv, CallsInv, CallOK, Announces, Changes, Places,
            guildVars, messageVars, callVars, noticeVars
<1>2. ASSUME NEW c \in Calls, NEW u \in Users, CreateMessage(c, u)
      PROVE  CallsInv'
  BY <1>2
     DEF CreateMessage, Begin, EventsIInv, CallsInv, CallOK, Announces, Changes,
            Places, guildVars, messageVars, callVars, noticeVars
<1>3. ASSUME NEW c \in Calls, NEW u \in Users, ReadMessage(c, u)
      PROVE  CallsInv'
  BY <1>3
     DEF ReadMessage, Begin, EventsIInv, CallsInv, CallOK, Announces, Changes,
            Places, guildVars, messageVars, callVars, noticeVars
<1>4. ASSUME NEW c \in Calls, NEW u \in Users, DeleteMessage(c, u)
      PROVE  CallsInv'
  BY <1>4
     DEF DeleteMessage, Begin, EventsIInv, CallsInv, CallOK, Announces, Changes,
            Places, guildVars, messageVars, callVars, noticeVars
<1>5. ASSUME NEW c \in Calls, NEW u \in Users, AddReaction(c, u)
      PROVE  CallsInv'
  BY <1>5
     DEF AddReaction, Begin, EventsIInv, CallsInv, CallOK, Announces, Changes,
            Places, guildVars, messageVars, callVars, noticeVars
<1>6. ASSUME NEW c \in Calls, NEW u \in Users, RemoveReaction(c, u)
      PROVE  CallsInv'
  BY <1>6
     DEF RemoveReaction, Begin, EventsIInv, CallsInv, CallOK, Announces, Changes,
            Places, guildVars, messageVars, callVars, noticeVars
<1>7. ASSUME NEW c \in Calls, NEW u \in Users, Join(c, u)
      PROVE  CallsInv'
  BY <1>7
     DEF Join, Begin, EventsIInv, CallsInv, CallOK, Announces, Changes, Places,
            guildVars, messageVars, callVars, noticeVars
<1>8. ASSUME NEW c \in Calls, NEW u \in Users, Leave(c, u)
      PROVE  CallsInv'
  BY <1>8
     DEF Leave, Begin, DropMember, EventsIInv, CallsInv, CallOK, Announces, Changes,
            Places, guildVars, messageVars, callVars, noticeVars
<1>9. ASSUME NEW c \in Calls, UpdateMessage(c)
      PROVE  CallsInv'
  BY <1>9
     DEF UpdateMessage, EventsIInv, CallsInv, CallOK, Announces, Changes, Places,
            guildVars, messageVars, callVars, noticeVars
<1>10. ASSUME NEW c \in Calls, UpdateFindsNone(c)
      PROVE  CallsInv'
  <2>1. Return(c) /\ view' = view
    BY <1>10 DEF UpdateFindsNone, noticeVars
  <2> QED
    BY <2>1, ReturnCalls DEF EventsIInv, CallsInv
<1>11. ASSUME NEW c \in Calls, CountReactions(c)
      PROVE  CallsInv'
  BY <1>11
     DEF CountReactions, EventsIInv, CallsInv, CallOK, Announces, Changes, Places,
            guildVars, messageVars, callVars, noticeVars
<1>12. ASSUME NEW c \in Calls, CommitReaction(c)
      PROVE  CallsInv'
  BY <1>12
     DEF CommitReaction, EventsIInv, CallsInv, CallOK, Announces, Changes, Places,
            guildVars, messageVars, callVars, noticeVars
<1>13. ASSUME NEW c \in Calls, RollbackReaction(c)
      PROVE  CallsInv'
  <2>1. Return(c) /\ view' = view
    BY <1>13 DEF RollbackReaction, noticeVars
  <2> QED
    BY <2>1, ReturnCalls DEF EventsIInv, CallsInv
<1>14. ASSUME NEW c \in Calls, AskAudience(c)
      PROVE  CallsInv'
  BY <1>14
     DEF AskAudience, Told, StoredInv, EventsIInv, CallsInv, CallOK, Announces,
            Changes, Places, guildVars, messageVars, callVars, noticeVars
<1>15. ASSUME NEW c \in Calls, NothingToAnnounce(c)
      PROVE  CallsInv'
  <2>1. Return(c) /\ view' = view
    BY <1>15 DEF NothingToAnnounce, noticeVars
  <2> QED
    BY <2>1, ReturnCalls DEF EventsIInv, CallsInv
<1>16. ASSUME NEW c \in Calls, AnnouncementFails(c)
      PROVE  CallsInv'
  <2>1. Return(c) /\ view' = view
    BY <1>16 DEF AnnouncementFails, noticeVars
  <2> QED
    BY <2>1, ReturnCalls DEF EventsIInv, CallsInv
<1>17. ASSUME NEW c \in Calls, Publish(c)
      PROVE  CallsInv'
  <2>1. Return(c) /\ view' = IF Owner \in audience[c] THEN Shown(c) ELSE view
    BY <1>17 DEF Publish
  <2> QED
    BY <2>1, ReturnCalls, ShownFields DEF EventsIInv, CallsInv
<1> QED
  BY <1>1, <1>2, <1>3, <1>4, <1>5, <1>6, <1>7, <1>8, <1>9, <1>10, <1>11, <1>12, <1>13,
         <1>14, <1>15, <1>16, <1>17 DEF EventsNext

\* A call that begins keeps what the others have.
LEMMA BeginKeeps ==
    ASSUME CallsInv, NEW c \in Calls, NEW o, NEW w, NEW place, Begin(c, o, w, place)
    PROVE  /\ call[c] = "idle" /\ op[c] = "none" /\ c \notin changed
           /\ call[c]' = place /\ op[c]' = o /\ by[c]' = w
           /\ \A d \in Calls \ {c} :
                call[d]' = call[d] /\ op[d]' = op[d] /\ by[d]' = by[d]
           /\ tally' = tally /\ audience' = audience /\ view' = view /\ own' = own
           /\ torn \subseteq torn'
BY DEF CallsInv, CallOK, Begin

\* One step keeps what is stored consistent.
LEMMA StoredStep == EventsIInv /\ EventsNext => StoredInv'
<1> SUFFICES ASSUME EventsIInv, EventsNext PROVE StoredInv'
  OBVIOUS
<1>1. CASE EraseGuild
  BY <1>1, GuildEventsAssumption
     DEF EraseGuild, EventsIInv, StoredInv, CallsInv, CallOK, InTransaction,
            WithOwnChange, RowHeld, guildVars, messageVars, callVars, noticeVars
<1>2. ASSUME NEW c \in Calls, NEW u \in Users, CreateMessage(c, u)
      PROVE  StoredInv'
  BY <1>2, BeginKeeps, GuildEventsAssumption
     DEF CreateMessage, EventsIInv, StoredInv, CallsInv, CallOK, InTransaction,
            WithOwnChange, RowHeld, guildVars, messageVars, callVars, noticeVars
<1>3. ASSUME NEW c \in Calls, NEW u \in Users, ReadMessage(c, u)
      PROVE  StoredInv'
  BY <1>3, BeginKeeps, GuildEventsAssumption
     DEF ReadMessage, EventsIInv, StoredInv, CallsInv, CallOK, InTransaction,
            WithOwnChange, RowHeld, guildVars, messageVars, callVars, noticeVars
<1>4. ASSUME NEW c \in Calls, NEW u \in Users, DeleteMessage(c, u)
      PROVE  StoredInv'
  BY <1>4, BeginKeeps, GuildEventsAssumption
     DEF DeleteMessage, EventsIInv, StoredInv, CallsInv, CallOK, InTransaction,
            WithOwnChange, RowHeld, guildVars, messageVars, callVars, noticeVars
<1>5. ASSUME NEW c \in Calls, NEW u \in Users, AddReaction(c, u)
      PROVE  StoredInv'
  BY <1>5, BeginKeeps, GuildEventsAssumption
     DEF AddReaction, EventsIInv, StoredInv, CallsInv, CallOK, InTransaction,
            WithOwnChange, RowHeld, guildVars, messageVars, callVars, noticeVars
<1>6. ASSUME NEW c \in Calls, NEW u \in Users, RemoveReaction(c, u)
      PROVE  StoredInv'
  BY <1>6, BeginKeeps, GuildEventsAssumption
     DEF RemoveReaction, EventsIInv, StoredInv, CallsInv, CallOK, InTransaction,
            WithOwnChange, RowHeld, guildVars, messageVars, callVars, noticeVars
<1>7. ASSUME NEW c \in Calls, NEW u \in Users, Join(c, u)
      PROVE  StoredInv'
  BY <1>7, BeginKeeps, GuildEventsAssumption
     DEF Join, EventsIInv, StoredInv, CallsInv, CallOK, InTransaction, WithOwnChange,
            RowHeld, guildVars, messageVars, callVars, noticeVars
<1>8. ASSUME NEW c \in Calls, NEW u \in Users, Leave(c, u)
      PROVE  StoredInv'
  BY <1>8, BeginKeeps, GuildEventsAssumption
     DEF Leave, DropMember, EventsIInv, StoredInv, CallsInv, CallOK, InTransaction,
            WithOwnChange, RowHeld, guildVars, messageVars, callVars, noticeVars
<1>9. ASSUME NEW c \in Calls, UpdateMessage(c)
      PROVE  StoredInv'
  BY <1>9, GuildEventsAssumption
     DEF UpdateMessage, EventsIInv, StoredInv, CallsInv, CallOK, InTransaction,
            WithOwnChange, RowHeld, guildVars, messageVars, callVars, noticeVars
<1>10. ASSUME NEW c \in Calls, UpdateFindsNone(c)
      PROVE  StoredInv'
  BY <1>10, ReturnKeeps
     DEF UpdateFindsNone, Return, EventsIInv, StoredInv, CallsInv, CallOK,
            InTransaction, WithOwnChange, RowHeld, guildVars, messageVars, callVars,
            noticeVars
<1>11. ASSUME NEW c \in Calls, CountReactions(c)
      PROVE  StoredInv'
  BY <1>11, GuildEventsAssumption
     DEF CountReactions, EventsIInv, StoredInv, CallsInv, CallOK, InTransaction,
            WithOwnChange, RowHeld, guildVars, messageVars, callVars, noticeVars
<1>12. ASSUME NEW c \in Calls, CommitReaction(c)
      PROVE  StoredInv'
  BY <1>12, GuildEventsAssumption
     DEF CommitReaction, EventsIInv, StoredInv, CallsInv, CallOK, InTransaction,
            WithOwnChange, RowHeld, guildVars, messageVars, callVars, noticeVars
<1>13. ASSUME NEW c \in Calls, RollbackReaction(c)
      PROVE  StoredInv'
  BY <1>13, ReturnKeeps
     DEF RollbackReaction, Return, EventsIInv, StoredInv, CallsInv, CallOK,
            InTransaction, WithOwnChange, RowHeld, guildVars, messageVars, callVars,
            noticeVars
<1>14. ASSUME NEW c \in Calls, AskAudience(c)
      PROVE  StoredInv'
  BY <1>14, GuildEventsAssumption
     DEF AskAudience, Told, EventsIInv, StoredInv, CallsInv, CallOK, InTransaction,
            WithOwnChange, RowHeld, guildVars, messageVars, callVars, noticeVars
<1>15. ASSUME NEW c \in Calls, NothingToAnnounce(c)
      PROVE  StoredInv'
  BY <1>15, ReturnKeeps
     DEF NothingToAnnounce, Return, EventsIInv, StoredInv, CallsInv, CallOK,
            InTransaction, WithOwnChange, RowHeld, guildVars, messageVars, callVars,
            noticeVars
<1>16. ASSUME NEW c \in Calls, AnnouncementFails(c)
      PROVE  StoredInv'
  BY <1>16, ReturnKeeps
     DEF AnnouncementFails, Return, EventsIInv, StoredInv, CallsInv, CallOK,
            InTransaction, WithOwnChange, RowHeld, guildVars, messageVars, callVars,
            noticeVars
<1>17. ASSUME NEW c \in Calls, Publish(c)
      PROVE  StoredInv'
  BY <1>17, ReturnKeeps
     DEF Publish, Return, EventsIInv, StoredInv, CallsInv, CallOK, InTransaction,
            WithOwnChange, RowHeld, guildVars, messageVars, callVars, noticeVars
<1> QED
  BY <1>1, <1>2, <1>3, <1>4, <1>5, <1>6, <1>7, <1>8, <1>9, <1>10, <1>11, <1>12, <1>13,
         <1>14, <1>15, <1>16, <1>17 DEF EventsNext

\* Who is about a subject that is not torn stays alone with it: only a call that
\* begins could join it, and it tears what it joins.
LEMMA ApartStep == EventsIInv /\ EventsNext => ApartInv'
<1> SUFFICES ASSUME EventsIInv, EventsNext PROVE ApartInv'
  OBVIOUS
<1> CallsInv /\ ApartInv
  BY DEF EventsIInv
<1>1. ASSUME NEW x \in Calls, NEW o \in Changes, NEW w \in Users, NEW place,
             Begin(x, o, w, place)
      PROVE  ApartInv'
  <2>1. /\ op[x] = "none" /\ op[x]' = o /\ by[x]' = w
        /\ \A d \in Calls \ {x} : op[d]' = op[d] /\ by[d]' = by[d]
        /\ torn \subseteq torn'
    BY <1>1, BeginKeeps
  <2> SUFFICES ASSUME NEW c \in Calls, NEW d \in Calls, c # d, d # x
               PROVE  /\ Message \notin torn' => ~ (OnMessage(c)' /\ OnMessage(d)')
                      /\ Count \notin torn' => ~ (OnCount(c)' /\ OnCount(d)')
                      /\ \A u \in Users :
                           /\ Reaction(u) \notin torn' =>
                                ~ (OnReaction(c, u)' /\ OnReaction(d, u)')
                           /\ Membership(u) \notin torn' =>
                                ~ (OnMembership(c, u)' /\ OnMembership(d, u)')
    BY DEF ApartInv, Message, Count, Reaction, Membership, OnMessage, OnCount, OnReaction,
           OnMembership
  <2>2. CASE c = x
    <3>1. /\ OnMessage(d)' <=> OnMessage(d)
          /\ OnCount(d)' <=> OnCount(d)
          /\ \A u : OnReaction(d, u)' <=> OnReaction(d, u)
          /\ \A u : OnMembership(d, u)' <=> OnMembership(d, u)
      BY <2>1 DEF OnMessage, OnCount, OnReaction, OnMembership
    <3>2. /\ OnMessage(c)' <=> o \in {"create", "update", "delete"}
          /\ OnCount(c)' <=> o \in {"create", "delete", "add", "remove"}
          /\ \A u : OnReaction(c, u)' <=>
               o \in {"create", "delete"} \/ (o \in {"add", "remove"} /\ w = u)
          /\ \A u : OnMembership(c, u)' <=> o \in {"join", "leave"} /\ w = u
      BY <2>1, <2>2 DEF OnMessage, OnCount, OnReaction, OnMembership
    <3>3. Tears(o, w)
      BY <1>1, BeginTears
    <3> QED
      BY <3>1, <3>2, <3>3 DEF Tears
  <2>3. CASE c # x
    <3>1. \A e \in {c, d} :
            /\ OnMessage(e)' <=> OnMessage(e)
            /\ OnCount(e)' <=> OnCount(e)
            /\ \A u : OnReaction(e, u)' <=> OnReaction(e, u)
            /\ \A u : OnMembership(e, u)' <=> OnMembership(e, u)
      BY <2>1, <2>3 DEF OnMessage, OnCount, OnReaction, OnMembership
    <3> QED
      BY <2>1, <3>1 DEF ApartInv
  <2> QED
    BY <2>2, <2>3
<1>2. ASSUME torn \subseteq torn',
             \A c \in Calls : op[c]' = "none" \/ (op[c]' = op[c] /\ by[c]' = by[c])
      PROVE  ApartInv'
  <2>1. \A c \in Calls :
          /\ OnMessage(c)' => OnMessage(c)
          /\ OnCount(c)' => OnCount(c)
          /\ \A u : OnReaction(c, u)' => OnReaction(c, u)
          /\ \A u : OnMembership(c, u)' => OnMembership(c, u)
    BY <1>2 DEF OnMessage, OnCount, OnReaction, OnMembership
  <2> QED
    BY <1>2, <2>1 DEF ApartInv, Message, Count, Reaction, Membership
<1>3. ASSUME NEW c \in Calls, Return(c), torn \subseteq torn' PROVE ApartInv'
  BY <1>2, <1>3, ReturnKeeps
<1>4. CASE EraseGuild
  BY <1>2, <1>4 DEF EraseGuild, callVars, noticeVars
<1>5. ASSUME NEW c \in Calls, NEW u \in Users,
             \/ CreateMessage(c, u) \/ ReadMessage(c, u) \/ DeleteMessage(c, u)
             \/ AddReaction(c, u) \/ RemoveReaction(c, u) \/ Join(c, u) \/ Leave(c, u)
      PROVE  ApartInv'
  BY <1>1, <1>5 DEF Changes, CreateMessage, ReadMessage, DeleteMessage, AddReaction,
                    RemoveReaction, Join, Leave
<1>6. ASSUME NEW c \in Calls,
             UpdateMessage(c) \/ CountReactions(c) \/ CommitReaction(c) \/ AskAudience(c)
      PROVE  ApartInv'
  BY <1>2, <1>6 DEF UpdateMessage, CountReactions, CommitReaction, AskAudience, noticeVars
<1>7. ASSUME NEW c \in Calls,
             \/ UpdateFindsNone(c) \/ RollbackReaction(c) \/ NothingToAnnounce(c)
             \/ AnnouncementFails(c) \/ Publish(c)
      PROVE  ApartInv'
  BY <1>3, <1>7 DEF UpdateFindsNone, RollbackReaction, NothingToAnnounce, AnnouncementFails,
                    Publish
<1> QED
  BY <1>4, <1>5, <1>6, <1>7 DEF EventsNext

\* The message, where a step leaves it and the calls about it alone.
LEMMA MessageFrame ==
    ASSUME CallsInv, CallsInv', MessageAgrees, exists' => exists, torn \subseteq torn',
           text' = text, view.text' = view.text,
           \A d \in Calls : \/ ~ OnMessage(d) /\ ~ OnMessage(d)'
                            \/ /\ op[d]' = op[d]
                               /\ call[d]' = "update" <=> call[d] = "update"
                               /\ Committed(d)' <=> Committed(d)
    PROVE  MessageAgrees'
<1>1. \A d \in Calls : OnMessage(d)' <=> OnMessage(d)
  BY DEF OnMessage
<1>2. \A d \in Calls : /\ call[d] = "update" => OnMessage(d)
                       /\ call[d]' = "update" => OnMessage(d)'
  BY DEF CallsInv, CallOK, OnMessage
<1> QED
  BY <1>1, <1>2 DEF MessageAgrees, OnMessage, Message

LEMMA MessageStep == EventsIInv /\ EventsNext => MessageAgrees'
<1> SUFFICES ASSUME EventsIInv, EventsNext PROVE MessageAgrees'
  OBVIOUS
<1>a. CallsInv /\ CallsInv' /\ StoredInv /\ ApartInv /\ MessageAgrees
  BY CallsStep DEF EventsIInv, AgreeInv
<1>b. \A d \in Calls : CallOK(d)
  BY <1>a DEF CallsInv
<1>1. CASE EraseGuild
  BY <1>1 DEF EraseGuild, MessageAgrees
<1>2. ASSUME NEW c \in Calls, NEW u \in Users, CreateMessage(c, u) PROVE MessageAgrees'
  <2>1. Begin(c, "create", u, "due") /\ text' = c /\ exists' = exists
    BY <1>2 DEF CreateMessage, guildVars
  <2>2. Tears("create", u)
    BY <1>a, <2>1, BeginTears DEF Changes
  <2>3. Message \notin torn' => \A d \in Calls : OnMessage(d)' => d = c
    BY <1>a, <2>1, <2>2, BeginKeeps DEF Tears, OnMessage
  <2>4. op[c]' = "create" /\ call[c]' = "due"
    BY <1>a, <2>1, BeginKeeps
  <2>5. \A d \in Calls : call[d]' = "update" => OnMessage(d)'
    BY <1>a DEF CallsInv, CallOK, OnMessage
  <2> QED
    BY <2>1, <2>3, <2>4, <2>5 DEF MessageAgrees, OnMessage, Message
<1>3. ASSUME NEW c \in Calls, NEW u \in Users, ReadMessage(c, u) PROVE MessageAgrees'
  <2>1. Begin(c, "update", u, "update") /\ text' = text /\ exists' = exists
    BY <1>3 DEF ReadMessage, guildVars, messageVars
  <2>2. Tears("update", u)
    BY <1>a, <2>1, BeginTears DEF Changes
  <2>3. Message \notin torn' => (\A d \in Calls : ~ OnMessage(d)) /\ Message \notin torn
    BY <2>2 DEF Tears
  <2>4. op[c]' = "update" /\ call[c]' = "update" /\ view' = view
    BY <1>a, <2>1, BeginKeeps
  <2>5. Message \notin torn' => \A d \in Calls : OnMessage(d)' => d = c
    BY <1>a, <2>1, <2>3, BeginKeeps DEF OnMessage
  <2>6. \A d \in Calls : call[d]' = "update" => OnMessage(d)'
    BY <1>a DEF CallsInv, CallOK, OnMessage
  <2> QED
    BY <1>a, <2>1, <2>3, <2>4, <2>5, <2>6 DEF MessageAgrees, OnMessage, Message, Committed
<1>4. ASSUME NEW c \in Calls, NEW u \in Users, DeleteMessage(c, u) PROVE MessageAgrees'
  <2>1. Begin(c, "delete", u, "due") /\ text' = None /\ exists' = exists
    BY <1>4 DEF DeleteMessage, guildVars
  <2>2. Tears("delete", u)
    BY <1>a, <2>1, BeginTears DEF Changes
  <2>3. Message \notin torn' => \A d \in Calls : OnMessage(d)' => d = c
    BY <1>a, <2>1, <2>2, BeginKeeps DEF Tears, OnMessage
  <2>4. op[c]' = "delete" /\ call[c]' = "due"
    BY <1>a, <2>1, BeginKeeps
  <2>5. \A d \in Calls : call[d]' = "update" => OnMessage(d)'
    BY <1>a DEF CallsInv, CallOK, OnMessage
  <2> QED
    BY <2>1, <2>3, <2>4, <2>5 DEF MessageAgrees, OnMessage, Message
<1>5. ASSUME NEW c \in Calls, NEW u \in Users,
             AddReaction(c, u) \/ RemoveReaction(c, u) \/ Join(c, u) \/ Leave(c, u)
      PROVE  MessageAgrees'
  <2>1. PICK o \in {"add", "remove", "join", "leave"}, place \in {"count", "due"} :
          Begin(c, o, u, place)
    BY <1>5 DEF AddReaction, RemoveReaction, Join, Leave
  <2>2. text' = text /\ exists' = exists
    BY <1>5 DEF AddReaction, RemoveReaction, Join, Leave, guildVars, messageVars
  <2>3. /\ op[c] = "none" /\ op[c]' = o /\ view' = view /\ torn \subseteq torn'
        /\ \A d \in Calls \ {c} : op[d]' = op[d] /\ call[d]' = call[d]
    BY <1>a, <2>1, BeginKeeps
  <2>4. \A d \in Calls : \/ ~ OnMessage(d) /\ ~ OnMessage(d)'
                         \/ /\ op[d]' = op[d]
                            /\ call[d]' = "update" <=> call[d] = "update"
                            /\ Committed(d)' <=> Committed(d)
    BY <2>3 DEF OnMessage, Committed
  <2> QED
    BY <1>a, <2>2, <2>3, <2>4, MessageFrame
<1>6. ASSUME NEW c \in Calls, UpdateMessage(c) PROVE MessageAgrees'
  <2>1. /\ call[c] = "update" /\ op[c] = "update" /\ text # None /\ text' = c
        /\ op' = op /\ view' = view /\ torn' = torn /\ exists' = exists
    BY <1>6, <1>b DEF UpdateMessage, CallOK, noticeVars, guildVars
  <2>2. Message \notin torn => \A d \in Calls : OnMessage(d) => d = c
    BY <1>a, <2>1 DEF ApartInv, OnMessage
  <2>3. call[c]' = "due"
    BY <1>6, <1>a DEF UpdateMessage, CallsInv
  <2>4. \A d \in Calls : call[d]' = "update" => OnMessage(d)'
    BY <1>a DEF CallsInv, CallOK, OnMessage
  <2> QED
    BY <1>a, <2>1, <2>2, <2>3, <2>4 DEF MessageAgrees, OnMessage, Message
<1>7. ASSUME NEW c \in Calls,
             CountReactions(c) \/ CommitReaction(c) \/ AskAudience(c)
      PROVE  MessageAgrees'
  <2>1. text' = text /\ view' = view /\ torn' = torn /\ exists' = exists /\ op' = op
    BY <1>7 DEF CountReactions, CommitReaction, AskAudience, messageVars, noticeVars, guildVars
  <2>2. OnMessage(c) => Committed(c) /\ Committed(c)'
    BY <1>7, <1>a, <1>b DEF CountReactions, CommitReaction, AskAudience, CallsInv, CallOK,
                            OnMessage, Committed
  <2>3. \A d \in Calls \ {c} : call[d]' = call[d]
    BY <1>7, <1>a DEF CountReactions, CommitReaction, AskAudience, CallsInv
  <2>4. \A d \in Calls : \/ ~ OnMessage(d) /\ ~ OnMessage(d)'
                         \/ /\ op[d]' = op[d]
                            /\ call[d]' = "update" <=> call[d] = "update"
                            /\ Committed(d)' <=> Committed(d)
    BY <2>1, <2>2, <2>3 DEF OnMessage, Committed
  <2> QED
    BY <1>a, <2>1, <2>4, MessageFrame
<1>8. ASSUME NEW c \in Calls, Return(c), text' = text, view.text' = view.text,
             exists' = exists, torn \subseteq torn', ~ OnMessage(c)
      PROVE  MessageAgrees'
  <2>1. \A d \in Calls : \/ ~ OnMessage(d) /\ ~ OnMessage(d)'
                         \/ /\ op[d]' = op[d]
                            /\ call[d]' = "update" <=> call[d] = "update"
                            /\ Committed(d)' <=> Committed(d)
    BY <1>8, <1>a, ReturnKeeps DEF OnMessage, Committed
  <2> QED
    BY <1>8, <1>a, <2>1, MessageFrame
\* The only call about a message that is not torn returns.
<1>9. ASSUME NEW c \in Calls, Return(c), OnMessage(c), text' = text, exists' = exists,
             torn' = torn, exists /\ Message \notin torn => view.text' = text
      PROVE  MessageAgrees'
  <2>1. Message \notin torn => \A d \in Calls : OnMessage(d) => d = c
    BY <1>9, <1>a DEF ApartInv
  <2>2. \A d \in Calls : Message \notin torn => ~ OnMessage(d)'
    BY <1>9, <1>a, <2>1, ReturnKeeps DEF OnMessage
  <2>3. \A d \in Calls : call[d]' = "update" => OnMessage(d)'
    BY <1>a DEF CallsInv, CallOK, OnMessage
  <2> QED
    BY <1>9, <2>2, <2>3 DEF MessageAgrees, OnMessage, Message
<1>10. ASSUME NEW c \in Calls, UpdateFindsNone(c) PROVE MessageAgrees'
  <2>1. OnMessage(c) /\ (exists /\ Message \notin torn => view.text = text)
    BY <1>10, <1>a, <1>b DEF UpdateFindsNone, CallOK, OnMessage, MessageAgrees
  <2> QED
    BY <1>9, <1>10, <2>1 DEF UpdateFindsNone, messageVars, guildVars
<1>11. ASSUME NEW c \in Calls, RollbackReaction(c) \/ NothingToAnnounce(c)
       PROVE  MessageAgrees'
  <2>1. ~ OnMessage(c)
    BY <1>11, <1>b DEF RollbackReaction, NothingToAnnounce, InTransaction, Announces, CallOK,
                       OnMessage
  <2> QED
    BY <1>8, <1>11, <2>1 DEF RollbackReaction, NothingToAnnounce, messageVars, guildVars
<1>12. ASSUME NEW c \in Calls, AnnouncementFails(c) PROVE MessageAgrees'
  <2>1. CASE OnMessage(c)
    BY <1>12, <1>a, <2>1, FailureTears DEF MessageAgrees, Message
  <2>2. CASE ~ OnMessage(c)
    BY <1>8, <1>12, <2>2 DEF AnnouncementFails, messageVars, guildVars
  <2> QED
    BY <2>1, <2>2
<1>13. ASSUME NEW c \in Calls, Publish(c) PROVE MessageAgrees'
  <2>1. /\ Return(c) /\ text' = text /\ exists' = exists /\ torn' = torn
        /\ view' = IF Owner \in audience[c] THEN Shown(c) ELSE view
    BY <1>13 DEF Publish, messageVars, guildVars
  <2>2. Committed(c) /\ (exists => Owner \in audience[c])
    BY <1>13, <1>a DEF Publish, Committed, StoredInv
  <2>3. CASE OnMessage(c)
    <3>1. exists /\ Message \notin torn => Shown(c).text = text
      BY <1>a, <2>2, <2>3, ShownFields DEF MessageAgrees, OnMessage
    <3> QED
      BY <1>9, <2>1, <2>2, <2>3, <3>1
  <2>4. CASE ~ OnMessage(c)
    <3>1. Shown(c).text = view.text
      BY <1>a, <2>4, ShownFields DEF OnMessage
    <3> QED
      BY <1>8, <2>1, <2>4, <3>1
  <2> QED
    BY <2>3, <2>4
<1> QED
  BY <1>1, <1>2, <1>3, <1>4, <1>5, <1>6, <1>7, <1>10, <1>11, <1>12, <1>13 DEF EventsNext

\* What is torn stays torn and a deleted Guild stays deleted.
LEMMA StaysTorn == EventsNext => torn \subseteq torn' /\ (exists' => exists)
BY DEF EventsNext, EraseGuild, CreateMessage, ReadMessage, DeleteMessage, AddReaction,
       RemoveReaction, Join, Leave, UpdateMessage, UpdateFindsNone, CountReactions,
       CommitReaction, RollbackReaction, AskAudience, NothingToAnnounce, AnnouncementFails,
       Publish, Begin, guildVars, callVars, noticeVars

\* The calls a step does not name keep what they have; nobody else's changes.
LEMMA MoveKeeps ==
    ASSUME CallsInv, NEW c \in Calls,
           UpdateMessage(c) \/ CountReactions(c) \/ CommitReaction(c) \/ AskAudience(c)
    PROVE  /\ op' = op /\ by' = by /\ changed' = changed /\ view' = view /\ own' = own
           /\ torn' = torn /\ exists' = exists /\ member' = member
           /\ \A d \in Calls \ {c} :
                call[d]' = call[d] /\ tally[d]' = tally[d] /\ audience[d]' = audience[d]
           /\ UpdateMessage(c) => call[c]' = "due"
           /\ CountReactions(c) =>
                call[c]' = "commit" /\ tally[c]' = Cardinality(WithOwnChange(c))
           /\ CommitReaction(c) => call[c]' = "due" /\ tally' = tally
           /\ AskAudience(c) =>
                call[c]' = "publish" /\ audience[c]' = Told(c) /\ tally' = tally
BY DEF CallsInv, UpdateMessage, CountReactions, CommitReaction, AskAudience, noticeVars,
       guildVars

\* Creations and deletions apart, the Owner's client knows of a message when
\* there is one.
LEMMA AwareStep ==
    ASSUME EventsIInv, EventsNext, exists', Aware,
           \A c, d \in Calls :
             op[c] \in {"create", "delete"} /\ op[d] \in {"create", "delete"} => c = d,
           \A c, d \in Calls :
             op[c]' \in {"create", "delete"} /\ op[d]' \in {"create", "delete"} => c = d,
           \A c \in Calls : AnnouncementFails(c) => op[c] \notin {"create", "delete"}
    PROVE  Aware'
<1> exists /\ CallsInv /\ StoredInv /\ \A d \in Calls : CallOK(d) /\ d # None
  BY StaysTorn, GuildEventsAssumption DEF EventsIInv, CallsInv
<1>1. CASE EraseGuild
  BY <1>1 DEF EraseGuild
<1>2. ASSUME NEW c \in Calls, NEW u \in Users, CreateMessage(c, u) PROVE Aware'
  BY <1>2, BeginKeeps DEF CreateMessage, Aware
<1>3. ASSUME NEW c \in Calls, NEW u \in Users, DeleteMessage(c, u) PROVE Aware'
  BY <1>3, BeginKeeps DEF DeleteMessage, Aware
<1>4. ASSUME NEW c \in Calls, NEW u \in Users,
             \/ ReadMessage(c, u) \/ AddReaction(c, u) \/ RemoveReaction(c, u)
             \/ Join(c, u) \/ Leave(c, u)
      PROVE  Aware'
  <2>1. PICK o \in {"update", "add", "remove", "join", "leave"}, place \in Places :
               Begin(c, o, u, place)
    BY <1>4 DEF Places, ReadMessage, AddReaction, RemoveReaction, Join, Leave
  <2>2. text' = text
    BY <1>4 DEF ReadMessage, AddReaction, RemoveReaction, Join, Leave, messageVars
  <2>3. /\ op[c] = "none" /\ op[c]' = o /\ view' = view
        /\ \A d \in Calls \ {c} : op[d]' = op[d]
    BY <2>1, BeginKeeps
  <2> QED
    BY <2>2, <2>3 DEF Aware
<1>5. ASSUME NEW c \in Calls, UpdateMessage(c) PROVE Aware'
  BY <1>5, MoveKeeps DEF UpdateMessage, Aware
<1>6. ASSUME NEW c \in Calls, CountReactions(c) \/ CommitReaction(c) \/ AskAudience(c)
      PROVE  Aware'
  BY <1>6, MoveKeeps DEF CountReactions, CommitReaction, AskAudience, messageVars, Aware
<1>7. ASSUME NEW c \in Calls,
             \/ UpdateFindsNone(c) \/ RollbackReaction(c) \/ NothingToAnnounce(c)
             \/ AnnouncementFails(c)
      PROVE  Aware'
  <2>1. op[c] \notin {"create", "delete"}
    BY <1>7 DEF UpdateFindsNone, RollbackReaction, NothingToAnnounce, InTransaction,
                Announces, CallOK
  <2>2. Return(c) /\ text' = text /\ view' = view
    BY <1>7 DEF UpdateFindsNone, RollbackReaction, NothingToAnnounce, AnnouncementFails,
                messageVars
  <2> QED
    BY <2>1, <2>2, ReturnKeeps DEF Aware
<1>8. ASSUME NEW c \in Calls, Publish(c) PROVE Aware'
  <2>1. Return(c) /\ text' = text /\ view' = Shown(c)
    BY <1>8 DEF Publish, messageVars, StoredInv
  <2>2. /\ op[c] = "create" => Shown(c).text # None /\ text # None
        /\ op[c] = "delete" => Shown(c).text = None /\ text = None
        /\ op[c] \notin {"create", "delete"} => (Shown(c).text = None <=> view.text = None)
    BY ShownFields DEF Aware
  <2>3. op[c]' = "none" /\ \A d \in Calls \ {c} : op[d]' = op[d]
    BY <2>1, ReturnKeeps
  <2>4. CASE op[c] \in {"create", "delete"}
    BY <2>1, <2>2, <2>3, <2>4 DEF Aware
  <2>5. CASE op[c] \notin {"create", "delete"}
    BY <2>1, <2>2, <2>3, <2>5 DEF Aware
  <2> QED
    BY <2>4, <2>5
<1> QED
  BY <1>1, <1>2, <1>3, <1>4, <1>5, <1>6, <1>7, <1>8 DEF EventsNext

\* The count, where the calls about it are alone with it.
LEMMA CountStep == EventsIInv /\ EventsNext => CountAgrees'
<1> SUFFICES ASSUME EventsIInv, EventsNext, exists', Count \notin torn'
             PROVE  CountAgrees'
  BY DEF CountAgrees, Count
<1>a. /\ exists /\ Count \notin torn /\ CallsInv /\ CallsInv' /\ StoredInv
      /\ \A c, d \in Calls : OnCount(c) /\ OnCount(d) => c = d
      /\ \A c, d \in Calls : OnCount(c)' /\ OnCount(d)' => c = d
  BY StaysTorn, CallsStep, ApartStep DEF EventsIInv, ApartInv, Count
<1>b. /\ Aware /\ (\A d \in Calls : CountFor(d))
      /\ (\A d \in Calls : ~ OnCount(d)) => view.count = Cardinality(reacted)
  BY <1>a DEF EventsIInv, AgreeInv, CountAgrees
<1>c. \A d \in Calls : CallOK(d) /\ CallOK(d)'
  BY <1>a DEF CallsInv
<1>d. \A c \in Calls : AnnouncementFails(c) => ~ OnCount(c)
  BY <1>a, FailureTears
<1>e. Aware'
  BY <1>a, <1>b, <1>d, AwareStep DEF OnCount
<1> SUFFICES /\ (\A d \in Calls : ~ OnCount(d)') => view.count' = Cardinality(reacted)'
             /\ \A d \in Calls : OnCount(d)' => CountFor(d)'
  <2>1. \A d \in Calls : ~ OnCount(d)' => CountFor(d)'
    BY <1>c DEF CountFor, CallOK, OnCount, InTransaction
  <2> QED
    BY <1>e, <2>1 DEF CountAgrees
<1> DEFINE Goal == /\ (\A d \in Calls : ~ OnCount(d)') => view.count' = Cardinality(reacted)'
                   /\ \A d \in Calls : OnCount(d)' => CountFor(d)'
\* A step of a call that is not about the count.
<1>f. ASSUME NEW c \in Calls, ~ OnCount(c), ~ OnCount(c)', reacted' = reacted,
             view.count' = view.count, text' = None => text = None,
             \A d \in Calls \ {c} :
               /\ op[d]' = op[d] /\ by[d]' = by[d] /\ call[d]' = call[d]
               /\ tally[d]' = tally[d] /\ (d \in changed' <=> d \in changed)
      PROVE  Goal
  <2>1. \A d \in Calls : OnCount(d)' <=> OnCount(d)
    BY <1>f DEF OnCount
  <2>2. ASSUME NEW d \in Calls, OnCount(d)' PROVE CountFor(d)'
    <3>1. CountFor(d) /\ d # c
      BY <1>b, <1>f, <2>2
    <3>2. WithOwnChange(d)' = WithOwnChange(d)
      BY <1>f, <3>1 DEF WithOwnChange
    <3> QED
      BY <1>f, <3>1, <3>2 DEF CountFor, InTransaction, Committed
  <2> QED
    BY <1>b, <1>f, <2>1, <2>2
\* The only call about the count returns.
<1>g. ASSUME NEW c \in Calls, Return(c), OnCount(c), view.count' = Cardinality(reacted)'
      PROVE  Goal
  <2>1. \A d \in Calls : ~ OnCount(d)'
    BY <1>a, <1>g, ReturnKeeps DEF OnCount
  <2> QED
    BY <1>g, <2>1
\* Another call returns.
<1>h. ASSUME NEW c \in Calls, Return(c), ~ OnCount(c), reacted' = reacted,
             view.count' = view.count, text' = text
      PROVE  Goal
  <2>1. ~ OnCount(c)'
    BY <1>a, <1>h, ReturnKeeps DEF OnCount
  <2> QED
    BY <1>a, <1>f, <1>h, <2>1, ReturnKeeps
\* A call about the count begins: there is no other.
<1>i. ASSUME NEW c \in Calls, NEW o \in {"create", "delete", "add", "remove"}, NEW u,
             NEW place, Begin(c, o, u, place)
      PROVE  /\ \A d \in Calls : ~ OnCount(d)
             /\ \A d \in Calls : OnCount(d)' => d = c
             /\ view.count' = Cardinality(reacted)
             /\ op[c]' = o /\ call[c]' = place /\ OnCount(c)'
  BY <1>a, <1>b, <1>i, BeginKeeps DEF OnCount
<1>1. CASE EraseGuild
  BY <1>1 DEF EraseGuild
<1>2. ASSUME NEW c \in Calls, NEW u \in Users, CreateMessage(c, u) PROVE Goal
  <2>1. reacted' = {}
    BY <1>2, <1>a DEF CreateMessage, StoredInv
  <2> QED
    BY <1>2, <1>i, <2>1 DEF CreateMessage, CountFor, InTransaction
<1>3. ASSUME NEW c \in Calls, NEW u \in Users, DeleteMessage(c, u) PROVE Goal
  BY <1>3, <1>i DEF DeleteMessage, CountFor, InTransaction
<1>4. ASSUME NEW c \in Calls, NEW u \in Users, AddReaction(c, u) \/ RemoveReaction(c, u)
      PROVE  Goal
  <2>1. PICK o \in {"add", "remove"} : Begin(c, o, u, "count")
    BY <1>4 DEF AddReaction, RemoveReaction
  <2>2. text' = text /\ text # None /\ reacted' = reacted
    BY <1>4 DEF AddReaction, RemoveReaction, messageVars
  <2> QED
    BY <1>i, <2>1, <2>2 DEF CountFor, InTransaction, Committed
<1>5. ASSUME NEW c \in Calls, NEW u \in Users,
             ReadMessage(c, u) \/ Join(c, u) \/ Leave(c, u)
      PROVE  Goal
  <2>1. PICK o \in {"update", "join", "leave"}, place \in Places : Begin(c, o, u, place)
    BY <1>5 DEF Places, ReadMessage, Join, Leave
  <2>2. text' = text /\ reacted' = reacted /\ changed' = changed
    BY <1>5 DEF ReadMessage, Join, Leave, messageVars
  <2>3. ~ OnCount(c) /\ ~ OnCount(c)'
    BY <1>a, <2>1, BeginKeeps DEF OnCount
  <2> QED
    BY <1>a, <1>f, <2>1, <2>2, <2>3, BeginKeeps
<1>6. ASSUME NEW c \in Calls, UpdateMessage(c) PROVE Goal
  <2>1. ~ OnCount(c) /\ ~ OnCount(c)'
    BY <1>6, <1>a, <1>c, MoveKeeps DEF UpdateMessage, CallOK, OnCount
  <2> QED
    BY <1>6, <1>a, <1>f, <2>1, MoveKeeps, GuildEventsAssumption DEF UpdateMessage
<1>7. ASSUME NEW c \in Calls, CountReactions(c) PROVE Goal
  <2>1. /\ call[c] = "count" /\ OnCount(c) /\ OnCount(c)'
        /\ WithOwnChange(c)' = WithOwnChange(c) /\ reacted' = reacted /\ text' = text
    BY <1>7, <1>a, <1>c, MoveKeeps
       DEF CountReactions, CallOK, OnCount, WithOwnChange, messageVars
  <2>2. CountFor(c)'
    BY <1>7, <1>a, <1>b, <2>1, MoveKeeps DEF CountFor, InTransaction, Committed
  <2> QED
    BY <1>a, <2>1, <2>2
<1>8. ASSUME NEW c \in Calls, CommitReaction(c) PROVE Goal
  <2>1. /\ call[c] = "commit" /\ OnCount(c) /\ OnCount(c)'
        /\ reacted' = WithOwnChange(c) /\ text' = text
        /\ op[c] \in {"add", "remove"}
    BY <1>8, <1>a, <1>c, MoveKeeps DEF CommitReaction, CallOK, OnCount
  <2>2. c \notin changed => reacted' = reacted
    BY <2>1 DEF WithOwnChange
  <2>3. CountFor(c)'
    BY <1>8, <1>a, <1>b, <2>1, <2>2, MoveKeeps DEF CountFor, InTransaction, Committed
  <2> QED
    BY <1>a, <2>1, <2>3
<1>9. ASSUME NEW c \in Calls, AskAudience(c) PROVE Goal
  <2>1. reacted' = reacted /\ text' = text /\ call[c] = "due" /\ call[c]' = "publish"
    BY <1>9, <1>a, MoveKeeps DEF AskAudience, messageVars
  <2>2. CASE OnCount(c)
    <3>1. CountFor(c)' /\ OnCount(c)'
      BY <1>9, <1>a, <1>b, <2>1, <2>2, MoveKeeps
         DEF CountFor, InTransaction, Committed, OnCount
    <3> QED
      BY <1>a, <3>1
  <2>3. CASE ~ OnCount(c)
    <3>1. ~ OnCount(c)'
      BY <1>9, <1>a, <2>3, MoveKeeps DEF OnCount
    <3> QED
      BY <1>9, <1>a, <1>f, <2>1, <2>3, <3>1, MoveKeeps
  <2> QED
    BY <2>2, <2>3
<1>10. ASSUME NEW c \in Calls, RollbackReaction(c) \/ NothingToAnnounce(c) PROVE Goal
  <2>1. Return(c) /\ reacted' = reacted /\ view' = view
    BY <1>10 DEF RollbackReaction, NothingToAnnounce, messageVars
  <2>2. OnCount(c) /\ view.count = Cardinality(reacted)
    BY <1>10, <1>b, <1>c DEF RollbackReaction, NothingToAnnounce, InTransaction, Announces,
                             CallOK, OnCount, CountFor, Committed
  <2> QED
    BY <1>g, <2>1, <2>2
<1>11. ASSUME NEW c \in Calls, UpdateFindsNone(c) \/ AnnouncementFails(c) PROVE Goal
  <2>1. ~ OnCount(c)
    BY <1>11, <1>c, <1>d DEF UpdateFindsNone, CallOK, OnCount
  <2> QED
    BY <1>h, <1>11, <2>1 DEF UpdateFindsNone, AnnouncementFails, messageVars
<1>12. ASSUME NEW c \in Calls, Publish(c) PROVE Goal
  <2>1. Return(c) /\ reacted' = reacted /\ text' = text /\ view' = Shown(c) /\ Announces(c)
    BY <1>12, <1>a, <1>c DEF Publish, messageVars, StoredInv, CallOK
  <2>2. CASE OnCount(c)
    <3>1. CASE op[c] \in {"create", "delete"}
      <4>1. reacted = {} /\ Shown(c).count = 0
        BY <1>a, <1>b, <3>1, ShownFields DEF CountFor
      <4> QED
        BY <1>g, <2>1, <2>2, <4>1, FS_EmptySet
    <3>2. CASE op[c] \in {"add", "remove"}
      <4>1. view.text # None
        BY <1>a, <1>b, <2>2, <3>2 DEF Aware, CountFor, OnCount
      <4>2. c \in changed /\ Committed(c)
        BY <1>12, <2>1, <3>2 DEF Announces, Publish, Committed
      <4>3. Shown(c).count = Cardinality(reacted)
        BY <1>a, <1>b, <3>2, <4>1, <4>2, ShownFields DEF CountFor
      <4> QED
        BY <1>g, <2>1, <2>2, <4>3
    <3> QED
      BY <2>2, <3>1, <3>2 DEF OnCount
  <2>3. CASE ~ OnCount(c)
    <3>1. Shown(c).count = view.count
      BY <1>a, <2>3, ShownFields DEF OnCount
    <3> QED
      BY <1>h, <2>1, <2>3, <3>1
  <2> QED
    BY <2>2, <2>3
<1> QED
  BY <1>1, <1>2, <1>3, <1>4, <1>5, <1>6, <1>7, <1>8, <1>9, <1>10, <1>11, <1>12
     DEF EventsNext

\* A User's reaction, where the calls about it are alone with it.
LEMMA ReactionStep == EventsIInv /\ EventsNext => \A u \in Users : ReactionAgrees(u)'
<1> SUFFICES ASSUME EventsIInv, EventsNext, NEW u \in Users, exists', Reaction(u) \notin torn'
             PROVE  ReactionAgrees(u)'
  BY DEF ReactionAgrees, Reaction
<1>a. /\ exists /\ Reaction(u) \notin torn /\ CallsInv /\ CallsInv' /\ StoredInv
      /\ \A c, d \in Calls : OnReaction(c, u) /\ OnReaction(d, u) => c = d
      /\ \A c, d \in Calls : OnReaction(c, u)' /\ OnReaction(d, u)' => c = d
  BY StaysTorn, CallsStep, ApartStep DEF EventsIInv, ApartInv, Reaction
<1>b. /\ Aware /\ (\A d \in Calls : OnReaction(d, u) => ReactionFor(d, u))
      /\ (\A d \in Calls : ~ OnReaction(d, u)) => (u \in view.who <=> u \in reacted)
  BY <1>a DEF EventsIInv, AgreeInv, ReactionAgrees
<1>c. \A d \in Calls : CallOK(d) /\ CallOK(d)'
  BY <1>a DEF CallsInv
<1>d. \A c \in Calls : AnnouncementFails(c) => ~ OnReaction(c, u)
  BY <1>a, FailureTears
<1>e. Aware'
  BY <1>a, <1>b, <1>d, AwareStep DEF OnReaction
<1> DEFINE Goal == /\ (\A d \in Calls : ~ OnReaction(d, u)') =>
                        (u \in view.who' <=> u \in reacted')
                   /\ \A d \in Calls : OnReaction(d, u)' => ReactionFor(d, u)'
<1> SUFFICES Goal
  BY <1>e DEF ReactionAgrees
\* A step of a call that is not about the reaction.
<1>f. ASSUME NEW c \in Calls, ~ OnReaction(c, u), ~ OnReaction(c, u)',
             u \in reacted' <=> u \in reacted, u \in view.who' <=> u \in view.who,
             text' = None => text = None,
             \A d \in Calls \ {c} :
               /\ op[d]' = op[d] /\ by[d]' = by[d] /\ call[d]' = call[d]
               /\ d \in changed' <=> d \in changed
      PROVE  Goal
  <2>1. \A d \in Calls : OnReaction(d, u)' <=> OnReaction(d, u)
    BY <1>f DEF OnReaction
  <2>2. ASSUME NEW d \in Calls, OnReaction(d, u)' PROVE ReactionFor(d, u)'
    <3>1. ReactionFor(d, u) /\ d # c
      BY <1>b, <1>f, <2>1, <2>2
    <3> QED
      BY <1>f, <3>1 DEF ReactionFor, InTransaction, Committed
  <2> QED
    BY <1>b, <1>f, <2>1, <2>2
\* The only call about the reaction returns.
<1>g. ASSUME NEW c \in Calls, Return(c), OnReaction(c, u), u \in view.who' <=> u \in reacted'
      PROVE  Goal
  <2>1. \A d \in Calls : ~ OnReaction(d, u)'
    BY <1>a, <1>g, ReturnKeeps DEF OnReaction
  <2> QED
    BY <1>g, <2>1
\* Another call returns.
<1>h. ASSUME NEW c \in Calls, Return(c), ~ OnReaction(c, u), reacted' = reacted,
             u \in view.who' <=> u \in view.who, text' = text
      PROVE  Goal
  <2>1. ~ OnReaction(c, u)'
    BY <1>a, <1>h, ReturnKeeps DEF OnReaction
  <2> QED
    BY <1>a, <1>f, <1>h, <2>1, ReturnKeeps
\* A call about the reaction begins: there is no other.
<1>i. ASSUME NEW c \in Calls, NEW o \in {"create", "delete", "add", "remove"}, NEW w,
             o \in {"create", "delete"} \/ w = u, NEW place, Begin(c, o, w, place)
      PROVE  /\ \A d \in Calls : OnReaction(d, u)' => d = c
             /\ u \in view.who' <=> u \in reacted
             /\ op[c]' = o /\ call[c]' = place /\ OnReaction(c, u)'
  <2>1. op[c]' = o /\ by[c]' = w /\ OnReaction(c, u)' /\ op[c] = "none" /\ view' = view
    BY <1>a, <1>i, BeginKeeps DEF OnReaction
  <2>2. \A d \in Calls : ~ OnReaction(d, u)
    BY <1>a, <1>i, <2>1, BeginKeeps DEF OnReaction
  <2> QED
    BY <1>a, <1>b, <1>i, <2>1, <2>2, BeginKeeps
\* A call about something else begins.
<1>j. ASSUME NEW c \in Calls, NEW o, NEW w, NEW place, Begin(c, o, w, place),
             o \notin {"create", "delete"}, o \in {"add", "remove"} => w # u,
             reacted' = reacted, text' = text,
             \A d \in Calls \ {c} : d \in changed' <=> d \in changed
      PROVE  Goal
  <2>1. ~ OnReaction(c, u) /\ ~ OnReaction(c, u)'
    BY <1>a, <1>j, BeginKeeps DEF OnReaction
  <2> QED
    BY <1>a, <1>f, <1>j, <2>1, BeginKeeps
<1>1. CASE EraseGuild
  BY <1>1 DEF EraseGuild
<1>2. ASSUME NEW c \in Calls, NEW w \in Users, CreateMessage(c, w) PROVE Goal
  <2>1. reacted' = {}
    BY <1>2, <1>a DEF CreateMessage, StoredInv
  <2> QED
    BY <1>2, <1>i, <2>1 DEF CreateMessage, ReactionFor, InTransaction
<1>3. ASSUME NEW c \in Calls, NEW w \in Users, DeleteMessage(c, w) PROVE Goal
  BY <1>3, <1>i DEF DeleteMessage, ReactionFor, InTransaction
<1>4. ASSUME NEW c \in Calls, NEW w \in Users, AddReaction(c, w) \/ RemoveReaction(c, w)
      PROVE  Goal
  <2>1. PICK o \in {"add", "remove"} : Begin(c, o, w, "count")
    BY <1>4 DEF AddReaction, RemoveReaction
  <2>2. /\ text' = text /\ text # None /\ reacted' = reacted
        /\ \A d \in Calls \ {c} : d \in changed' <=> d \in changed
    BY <1>4 DEF AddReaction, RemoveReaction, messageVars
  <2>3. CASE w = u
    BY <1>i, <2>1, <2>2, <2>3 DEF ReactionFor, InTransaction, Committed
  <2>4. CASE w # u
    BY <1>j, <2>1, <2>2, <2>4
  <2> QED
    BY <2>3, <2>4
<1>5. ASSUME NEW c \in Calls, NEW w \in Users,
             ReadMessage(c, w) \/ Join(c, w) \/ Leave(c, w)
      PROVE  Goal
  <2>1. PICK o \in {"update", "join", "leave"}, place \in Places : Begin(c, o, w, place)
    BY <1>5 DEF Places, ReadMessage, Join, Leave
  <2>2. text' = text /\ reacted' = reacted /\ changed' = changed
    BY <1>5 DEF ReadMessage, Join, Leave, messageVars
  <2> QED
    BY <1>j, <2>1, <2>2
<1>6. ASSUME NEW c \in Calls, UpdateMessage(c) PROVE Goal
  <2>1. ~ OnReaction(c, u) /\ ~ OnReaction(c, u)'
    BY <1>6, <1>a, <1>c, MoveKeeps DEF UpdateMessage, CallOK, OnReaction
  <2> QED
    BY <1>6, <1>a, <1>f, <2>1, MoveKeeps, GuildEventsAssumption DEF UpdateMessage
<1>7. ASSUME NEW c \in Calls, NEW from, NEW to, call[c] = from, call[c]' = to,
             <<from, to>> \in {<<"count", "commit">>, <<"due", "publish">>},
             reacted' = reacted, text' = text, op' = op, by' = by, changed' = changed,
             view' = view, \A d \in Calls \ {c} : call[d]' = call[d]
      PROVE  Goal
  <2>1. CASE OnReaction(c, u)
    <3>1. ReactionFor(c, u)' /\ OnReaction(c, u)'
      BY <1>7, <1>b, <2>1 DEF ReactionFor, InTransaction, Committed, OnReaction
    <3> QED
      BY <1>a, <3>1
  <2>2. CASE ~ OnReaction(c, u)
    <3>1. ~ OnReaction(c, u)'
      BY <1>7, <2>2 DEF OnReaction
    <3> QED
      BY <1>7, <1>f, <2>2, <3>1
  <2> QED
    BY <2>1, <2>2
<1>8. ASSUME NEW c \in Calls, CommitReaction(c) PROVE Goal
  <2>1. /\ call[c] = "commit" /\ call[c]' = "due" /\ op[c] \in {"add", "remove"}
        /\ reacted' = WithOwnChange(c) /\ text' = text
    BY <1>8, <1>a, <1>c, MoveKeeps DEF CommitReaction, CallOK
  <2>2. CASE by[c] = u
    <3>1. OnReaction(c, u) /\ OnReaction(c, u)'
      BY <1>8, <1>a, <2>1, <2>2, MoveKeeps DEF OnReaction
    <3>2. ReactionFor(c, u)'
      BY <1>8, <1>a, <1>b, <2>1, <2>2, <3>1, MoveKeeps
         DEF ReactionFor, InTransaction, Committed, WithOwnChange
    <3> QED
      BY <1>a, <3>1, <3>2
  <2>3. CASE by[c] # u
    <3>1. ~ OnReaction(c, u) /\ ~ OnReaction(c, u)'
      BY <1>8, <1>a, <2>1, <2>3, MoveKeeps DEF OnReaction
    <3>2. u \in reacted' <=> u \in reacted
      BY <2>1, <2>3 DEF WithOwnChange
    <3> QED
      BY <1>8, <1>a, <1>f, <2>1, <3>1, <3>2, MoveKeeps
  <2> QED
    BY <2>2, <2>3
<1>9. ASSUME NEW c \in Calls, CountReactions(c) \/ AskAudience(c) PROVE Goal
  <2>1. CASE CountReactions(c)
    BY <1>7, <1>a, <2>1, MoveKeeps DEF CountReactions, messageVars
  <2>2. CASE AskAudience(c)
    BY <1>7, <1>a, <2>2, MoveKeeps DEF AskAudience, messageVars
  <2> QED
    BY <1>9, <2>1, <2>2
<1>10. ASSUME NEW c \in Calls, RollbackReaction(c) \/ NothingToAnnounce(c) PROVE Goal
  <2>1. Return(c) /\ reacted' = reacted /\ view' = view /\ text' = text
    BY <1>10 DEF RollbackReaction, NothingToAnnounce, messageVars
  <2>2. CASE OnReaction(c, u)
    <3>1. u \in view.who <=> u \in reacted
      BY <1>10, <1>b, <1>c, <2>2
         DEF RollbackReaction, NothingToAnnounce, InTransaction, Announces, CallOK, ReactionFor,
             Committed
    <3> QED
      BY <1>g, <2>1, <2>2, <3>1
  <2>3. CASE ~ OnReaction(c, u)
    BY <1>h, <2>1, <2>3
  <2> QED
    BY <2>2, <2>3
<1>11. ASSUME NEW c \in Calls, UpdateFindsNone(c) \/ AnnouncementFails(c) PROVE Goal
  <2>1. ~ OnReaction(c, u)
    BY <1>11, <1>c, <1>d DEF UpdateFindsNone, CallOK, OnReaction
  <2> QED
    BY <1>h, <1>11, <2>1 DEF UpdateFindsNone, AnnouncementFails, messageVars
<1>12. ASSUME NEW c \in Calls, Publish(c) PROVE Goal
  <2>1. Return(c) /\ reacted' = reacted /\ text' = text /\ view' = Shown(c) /\ Announces(c)
    BY <1>12, <1>a, <1>c DEF Publish, messageVars, StoredInv, CallOK
  <2>2. CASE OnReaction(c, u)
    <3>1. CASE op[c] \in {"create", "delete"}
      <4>1. u \notin reacted /\ Shown(c).who = {}
        BY <1>a, <1>b, <2>2, <3>1, ShownFields DEF ReactionFor
      <4> QED
        BY <1>g, <2>1, <2>2, <4>1
    <3>2. CASE op[c] \in {"add", "remove"}
      <4>1. view.text # None /\ by[c] = u
        BY <1>a, <1>b, <2>2, <3>2 DEF Aware, ReactionFor, OnReaction
      <4>2. c \in changed /\ Committed(c)
        BY <1>12, <2>1, <3>2 DEF Announces, Publish, Committed
      <4>3. op[c] = "add" <=> u \in reacted
        BY <1>b, <2>2, <3>2, <4>2 DEF ReactionFor
      <4>4. u \in Shown(c).who <=> u \in reacted
        BY <1>a, <3>2, <4>1, <4>3, ShownFields
      <4> QED
        BY <1>g, <2>1, <2>2, <4>4
    <3> QED
      BY <2>2, <3>1, <3>2 DEF OnReaction
  <2>3. CASE ~ OnReaction(c, u)
    <3>1. u \in Shown(c).who <=> u \in view.who
      BY <1>a, <2>3, ShownFields DEF OnReaction
    <3> QED
      BY <1>h, <2>1, <2>3, <3>1
  <2> QED
    BY <2>2, <2>3
<1> QED
  BY <1>1, <1>2, <1>3, <1>4, <1>5, <1>6, <1>8, <1>9, <1>10, <1>11, <1>12 DEF EventsNext

\* A User's membership, where the calls about it are alone with it.
LEMMA MembershipStep == EventsIInv /\ EventsNext => \A u \in Users : MembershipAgrees(u)'
<1> SUFFICES ASSUME EventsIInv, EventsNext, NEW u \in Users, exists',
                    Membership(u) \notin torn'
             PROVE  MembershipAgrees(u)'
  BY DEF MembershipAgrees, Membership
<1>a. /\ exists /\ Membership(u) \notin torn /\ CallsInv /\ CallsInv' /\ StoredInv
      /\ \A c, d \in Calls : OnMembership(c, u) /\ OnMembership(d, u) => c = d
      /\ \A c, d \in Calls : OnMembership(c, u)' /\ OnMembership(d, u)' => c = d
  BY StaysTorn, CallsStep, ApartStep DEF EventsIInv, ApartInv, Membership
<1> DEFINE Same == (u \in view.members <=> u \in member) /\ (u \in own <=> u \in member)
           For(c) == /\ op[c] = "join" <=> u \in member
                     /\ call[c] = "publish" => u \in audience[c]
           Goal == /\ (\A d \in Calls : ~ OnMembership(d, u)') => Same'
                   /\ \A d \in Calls : OnMembership(d, u)' => For(d)'
<1>b. /\ (\A d \in Calls : ~ OnMembership(d, u)) => Same
      /\ \A d \in Calls : OnMembership(d, u) => For(d)
  BY <1>a DEF EventsIInv, AgreeInv, MembershipAgrees
<1>c. \A d \in Calls : CallOK(d) /\ CallOK(d)'
  BY <1>a DEF CallsInv
<1>d. \A c \in Calls : AnnouncementFails(c) => ~ OnMembership(c, u)
  BY <1>a, FailureTears
<1> SUFFICES Goal
  BY DEF MembershipAgrees
\* A step of a call that is not about the membership.
<1>f. ASSUME NEW c \in Calls, ~ OnMembership(c, u), ~ OnMembership(c, u)',
             u \in member' <=> u \in member, u \in view.members' <=> u \in view.members,
             u \in own' <=> u \in own,
             \A d \in Calls \ {c} :
               /\ op[d]' = op[d] /\ by[d]' = by[d] /\ call[d]' = call[d]
               /\ audience[d]' = audience[d]
      PROVE  Goal
  <2>1. \A d \in Calls : OnMembership(d, u)' <=> OnMembership(d, u)
    BY <1>f DEF OnMembership
  <2>2. ASSUME NEW d \in Calls, OnMembership(d, u)' PROVE For(d)'
    BY <1>b, <1>f, <2>1, <2>2
  <2>3. (\A d \in Calls : ~ OnMembership(d, u)') => Same'
    BY <1>b, <1>f, <2>1
  <2> QED
    BY <2>2, <2>3
\* The only call about the membership returns.
<1>g. ASSUME NEW c \in Calls, Return(c), OnMembership(c, u), Same'
      PROVE  Goal
  <2>1. \A d \in Calls : ~ OnMembership(d, u)'
    BY <1>a, <1>g, ReturnKeeps DEF OnMembership
  <2> QED
    BY <1>g, <2>1
\* Another call returns.
<1>h. ASSUME NEW c \in Calls, Return(c), ~ OnMembership(c, u), member' = member,
             u \in view.members' <=> u \in view.members, u \in own' <=> u \in own
      PROVE  Goal
  <2>1. ~ OnMembership(c, u)'
    BY <1>a, <1>h, ReturnKeeps DEF OnMembership
  <2>2. \A d \in Calls \ {c} :
          /\ op[d]' = op[d] /\ by[d]' = by[d] /\ call[d]' = call[d]
          /\ audience[d]' = audience[d]
    BY <1>a, <1>h, ReturnKeeps
  <2> QED
    BY <1>f, <1>h, <2>1, <2>2
\* The membership's own call begins: there is no other.
<1>i. ASSUME NEW c \in Calls, NEW o \in {"join", "leave"}, Begin(c, o, u, "due"),
             o = "join" <=> u \in member'
      PROVE  Goal
  <2>1. op[c]' = o /\ call[c]' = "due" /\ OnMembership(c, u)'
    BY <1>a, <1>i, BeginKeeps DEF OnMembership
  <2> QED
    BY <1>a, <1>i, <2>1
\* A call about something else begins.
<1>j. ASSUME NEW c \in Calls, NEW o, NEW w, NEW place, Begin(c, o, w, place),
             o \in {"join", "leave"} => w # u, u \in member' <=> u \in member
      PROVE  Goal
  <2>1. ~ OnMembership(c, u) /\ ~ OnMembership(c, u)'
    BY <1>a, <1>j, BeginKeeps DEF OnMembership
  <2> QED
    BY <1>a, <1>f, <1>j, <2>1, BeginKeeps
<1>1. CASE EraseGuild
  BY <1>1 DEF EraseGuild
<1>2. ASSUME NEW c \in Calls, NEW w \in Users,
             \/ CreateMessage(c, w) \/ ReadMessage(c, w) \/ DeleteMessage(c, w)
             \/ AddReaction(c, w) \/ RemoveReaction(c, w)
      PROVE  Goal
  <2>1. PICK o \in {"create", "update", "delete", "add", "remove"}, place \in Places :
          Begin(c, o, w, place)
    BY <1>2 DEF Places, CreateMessage, ReadMessage, DeleteMessage, AddReaction, RemoveReaction
  <2>2. member' = member
    BY <1>2 DEF CreateMessage, ReadMessage, DeleteMessage, AddReaction, RemoveReaction,
                guildVars
  <2> QED
    BY <1>j, <2>1, <2>2
<1>3. ASSUME NEW c \in Calls, NEW w \in Users, Join(c, w) PROVE Goal
  <2>1. CASE w = u
    BY <1>3, <1>i, <2>1 DEF Join
  <2>2. CASE w # u
    BY <1>3, <1>j, <2>2 DEF Join
  <2> QED
    BY <2>1, <2>2
<1>4. ASSUME NEW c \in Calls, NEW w \in Users, Leave(c, w) PROVE Goal
  <2>1. CASE w = u
    BY <1>4, <1>i, <2>1 DEF Leave, DropMember
  <2>2. CASE w # u
    BY <1>4, <1>j, <2>2 DEF Leave, DropMember
  <2> QED
    BY <2>1, <2>2
<1>5. ASSUME NEW c \in Calls,
             UpdateMessage(c) \/ CountReactions(c) \/ CommitReaction(c)
      PROVE  Goal
  <2>1. ~ OnMembership(c, u)
    BY <1>5, <1>c DEF UpdateMessage, CountReactions, CommitReaction, CallOK, OnMembership
  <2>2. ~ OnMembership(c, u)'
    BY <1>5, <1>a, <2>1, MoveKeeps DEF OnMembership
  <2> QED
    BY <1>5, <1>a, <1>f, <2>1, <2>2, MoveKeeps
<1>6. ASSUME NEW c \in Calls, AskAudience(c) PROVE Goal
  <2>1. CASE OnMembership(c, u)
    <3>1. op[c]' = op[c] /\ member' = member /\ audience[c]' = Told(c)
      BY <1>6, <1>a, MoveKeeps
    <3>2. u \in Told(c)
      BY <1>b, <2>1 DEF Told, OnMembership
    <3>3. OnMembership(c, u)' /\ For(c)'
      BY <1>6, <1>a, <1>b, <2>1, <3>1, <3>2, MoveKeeps DEF OnMembership
    <3> QED
      BY <1>a, <3>3
  <2>2. CASE ~ OnMembership(c, u)
    <3>1. ~ OnMembership(c, u)'
      BY <1>6, <1>a, <2>2, MoveKeeps DEF OnMembership
    <3> QED
      BY <1>6, <1>a, <1>f, <2>2, <3>1, MoveKeeps
  <2> QED
    BY <2>1, <2>2
<1>7. ASSUME NEW c \in Calls,
             \/ UpdateFindsNone(c) \/ RollbackReaction(c) \/ NothingToAnnounce(c)
             \/ AnnouncementFails(c)
      PROVE  Goal
  <2>1. ~ OnMembership(c, u)
    BY <1>7, <1>c, <1>d DEF UpdateFindsNone, RollbackReaction, NothingToAnnounce,
                            InTransaction, Announces, CallOK, OnMembership
  <2>2. Return(c) /\ member' = member /\ view' = view /\ own' = own
    BY <1>7 DEF UpdateFindsNone, RollbackReaction, NothingToAnnounce, AnnouncementFails,
                guildVars
  <2> QED
    BY <1>h, <2>1, <2>2
<1>8. ASSUME NEW c \in Calls, Publish(c) PROVE Goal
  <2>1. Return(c) /\ member' = member /\ view' = Shown(c) /\ call[c] = "publish"
    BY <1>8, <1>a DEF Publish, guildVars, StoredInv
  <2>2. CASE OnMembership(c, u)
    <3>1. by[c] = u /\ u \in audience[c] /\ (op[c] = "join" <=> u \in member)
      BY <1>b, <2>1, <2>2 DEF OnMembership
    <3>2. u \in Shown(c).members <=> u \in member
      BY <1>a, <2>2, <3>1, ShownFields DEF OnMembership
    <3>3. u \in own' <=> u \in member
      BY <1>8, <2>2, <3>1 DEF Publish, OnMembership
    <3> QED
      BY <1>g, <2>1, <2>2, <3>2, <3>3
  <2>3. CASE ~ OnMembership(c, u)
    <3>1. u \in Shown(c).members <=> u \in view.members
      BY <1>a, <2>3, ShownFields DEF OnMembership
    <3>2. u \in own' <=> u \in own
      BY <1>8, <2>3 DEF Publish, OnMembership
    <3> QED
      BY <1>h, <2>1, <2>3, <3>1, <3>2
  <2> QED
    BY <2>2, <2>3
<1> QED
  BY <1>1, <1>2, <1>3, <1>4, <1>5, <1>6, <1>7, <1>8 DEF EventsNext

LEMMA EventsInitIInv == EventsInit => EventsIInv
<1> SUFFICES ASSUME EventsInit PROVE EventsIInv
  OBVIOUS
<1>1. CallsInv
  BY OwnerAssumption
     DEF EventsInit, CallsInv, CallOK, Announces, Places, Changes
<1>2. StoredInv
  BY OwnerAssumption DEF EventsInit, SomeMembers, StoredInv, InTransaction
<1>3. ApartInv
  BY DEF EventsInit, ApartInv, OnMessage, OnCount, OnReaction, OnMembership
<1>4. AgreeInv
  BY DEF EventsInit, AgreeInv, MessageAgrees, CountAgrees, ReactionAgrees, MembershipAgrees,
         CountFor, Aware, OnMessage, OnCount, OnReaction, OnMembership, InTransaction,
         Committed
<1> QED
  BY <1>1, <1>2, <1>3, <1>4 DEF EventsIInv

LEMMA EventsNextIInv == EventsIInv /\ [EventsNext]_eventVars => EventsIInv'
<1> SUFFICES ASSUME EventsIInv, [EventsNext]_eventVars PROVE EventsIInv'
  OBVIOUS
<1>1. CASE EventsNext
  BY <1>1, CallsStep, StoredStep, ApartStep, MessageStep, CountStep, ReactionStep,
     MembershipStep DEF EventsIInv, AgreeInv
<1>2. CASE UNCHANGED eventVars
  <2>1. CallsInv' /\ StoredInv'
    BY <1>2 DEF eventVars, guildVars, messageVars, callVars, noticeVars, EventsIInv, CallsInv,
                StoredInv, CallOK, Announces, InTransaction
  <2>2. ApartInv'
    BY <1>2 DEF eventVars, callVars, noticeVars, EventsIInv, ApartInv, OnMessage, OnCount,
                OnReaction, OnMembership, Message, Count, Reaction, Membership
  <2>3. Aware <=> Aware'
    BY <1>2 DEF eventVars, messageVars, callVars, noticeVars, Aware
  <2>4. MessageAgrees'
    BY <1>2 DEF eventVars, guildVars, messageVars, callVars, noticeVars, EventsIInv, AgreeInv,
                MessageAgrees, OnMessage, Committed, Message
  <2>5. CountAgrees'
    BY <1>2, <2>3 DEF eventVars, guildVars, messageVars, callVars, noticeVars, EventsIInv,
                AgreeInv, CountAgrees, CountFor, OnCount, Committed, InTransaction,
                WithOwnChange, Count
  <2>6. \A u \in Users : ReactionAgrees(u)'
    BY <1>2, <2>3 DEF eventVars, guildVars, messageVars, callVars, noticeVars, EventsIInv,
                AgreeInv, ReactionAgrees, ReactionFor, OnReaction, Committed, InTransaction,
                Reaction
  <2>7. \A u \in Users : MembershipAgrees(u)'
    BY <1>2 DEF eventVars, guildVars, callVars, noticeVars, EventsIInv, AgreeInv,
                MembershipAgrees, OnMembership, Membership
  <2> QED
    BY <2>1, <2>2, <2>4, <2>5, <2>6, <2>7 DEF EventsIInv, AgreeInv
<1> QED
  BY <1>1, <1>2

LEMMA EventsAlways == EventsSpec => []EventsIInv
<1>1. EventsInit => EventsIInv
  BY EventsInitIInv
<1>2. EventsIInv /\ [EventsNext]_eventVars => EventsIInv'
  BY EventsNextIInv
<1> QED
  BY <1>1, <1>2, PTL DEF EventsSpec

\* Whatever overlaps it, a subject whose own changes were announced and did not
\* overlap one another is known as it is stored (publishMessage,
\* publishMessageReaction, publishMember).
THEOREM SettledKnown == EventsSpec => []SettledIsKnown
<1>1. EventsIInv => SettledIsKnown
  BY UnderwaySubjects DEF EventsIInv, AgreeInv, MessageAgrees, CountAgrees, ReactionAgrees,
     MembershipAgrees, SettledIsKnown, Settled
<1> QED
  BY <1>1, EventsAlways, PTL

\* A User's own client shows the Guild exactly as long as they are a Member, a
\* removal included (publishMemberLeave).
THEOREM RemovedTold == EventsSpec => []TheRemovedAreTold
<1>1. EventsIInv => TheRemovedAreTold
  BY UnderwaySubjects DEF EventsIInv, AgreeInv, MembershipAgrees, TheRemovedAreTold, Settled
<1> QED
  BY <1>1, EventsAlways, PTL
-----------------------------------------------------------------------------
(* RequestLimiter.  The requests of one key lie in at most two windows: the *)
(* one that is open, and one that was over before it opened.               *)

Counts == [Ages -> 0 .. 2 * Limit]
Numbered(f, S) == UNION {{age} \X (1 .. f[age]) : age \in S}
Spent(f, S) == Cardinality(Numbered(f, S))
Aged(f) == [age \in Ages |-> IF age = 0 THEN 0 ELSE f[age - 1]]
OneMoreOf(f) == [f EXCEPT ![0] = @ + 1]

Younger(e) == {age \in Ages : age < e}
UpTo(e) == {age \in Ages : age <= e}
Older(e) == {age \in Ages : age > e}

\* A window that opened e ticks ago with a request, of which n are counted.
WindowOK(f, n, e) ==
    /\ Spent(f, Younger(e)) <= n - 1
    /\ Spent(f, UpTo(e)) <= n
    /\ Spent(f, Older(e)) <= Limit - 1
\* No window: the next request opens one.
RestOK(f) == f[0] = 0 /\ Spent(f, Ages) <= Limit - 1

Elapsed(k) == Window - states[k].left
LimiterIInv ==
    /\ IsFiniteSet(DOMAIN states) /\ Cardinality(DOMAIN states) <= MaxEntries
    /\ states = [k \in DOMAIN states |-> states[k]]
    /\ \A k \in DOMAIN states : states[k] \in [count : 1 .. Limit, left : 0 .. Window]
    /\ admitted \in [Keys -> Counts]
    /\ \A k \in Keys :
         IF Live(k) THEN WindowOK(admitted[k], states[k].count, Elapsed(k))
                    ELSE RestOK(admitted[k])

LEMMA LimitNat ==
    /\ Limit \in Nat \ {0} /\ Window \in Nat \ {0} /\ MaxEntries \in Nat \ {0}
    /\ 2 * Limit \in Nat /\ 0 \in Ages /\ Ages \subseteq Nat
BY LimiterAssumption DEF Ages

LEMMA NumberedMember ==
    ASSUME NEW f, NEW S
    PROVE  \A p : p \in Numbered(f, S) <=> \E age \in S : \E n \in 1 .. f[age] : p = <<age, n>>
BY DEF Numbered

LEMMA NumberedFinite ==
    ASSUME NEW f \in Counts, NEW S \in SUBSET Ages
    PROVE  IsFiniteSet(Numbered(f, S)) /\ Spent(f, S) \in Nat
<1>1. IsFiniteSet(Ages) /\ IsFiniteSet(1 .. 2 * Limit)
  <2>1. 0 \in Int /\ Window - 1 \in Int /\ 1 \in Int /\ 2 * Limit \in Int
    BY LimitNat
  <2> QED
    BY <2>1, FS_Interval DEF Ages
<1>2. IsFiniteSet(Ages \X (1 .. 2 * Limit))
  BY <1>1, FS_Product
<1>3. Numbered(f, S) \subseteq Ages \X (1 .. 2 * Limit)
  <2> SUFFICES ASSUME NEW age \in S, NEW n \in 1 .. f[age]
               PROVE  age \in Ages /\ n \in 1 .. 2 * Limit
    BY NumberedMember
  <2>1. f[age] \in 0 .. 2 * Limit
    BY DEF Counts
  <2> QED
    BY <2>1, LimitNat
<1>4. IsFiniteSet(Numbered(f, S))
  BY <1>2, <1>3, FS_Subset
<1> QED
  BY <1>4, FS_CardinalityType DEF Spent

LEMMA SpentSubset ==
    ASSUME NEW f \in Counts, NEW T \in SUBSET Ages, NEW S \in SUBSET T
    PROVE  Spent(f, S) <= Spent(f, T)
<1>1. Numbered(f, S) \in SUBSET Numbered(f, T)
  BY NumberedMember
<1> QED
  BY <1>1, NumberedFinite, FS_Subset DEF Spent

LEMMA SpentNow ==
    ASSUME NEW f \in Counts, NEW S \in SUBSET Ages, 0 \in S
    PROVE  f[0] <= Spent(f, S)
<1> f[0] \in Nat
  BY LimitNat DEF Counts
<1> DEFINE g == [n \in 1 .. f[0] |-> <<0, n>>]
<1>1. g \in Injection(1 .. f[0], Numbered(f, S))
  <2>1. \A n \in 1 .. f[0] : <<0, n>> \in Numbered(f, S)
    BY NumberedMember
  <2>2. g \in [1 .. f[0] -> Numbered(f, S)]
    BY <2>1
  <2>3. \A m, n \in 1 .. f[0] : g[m] = g[n] => m = n
    OBVIOUS
  <2> HIDE DEF g
  <2> QED
    BY <2>2, <2>3 DEF Injection, IsInjective
<1>2. Cardinality(1 .. f[0]) <= Cardinality(Numbered(f, S))
  BY <1>1, NumberedFinite, FS_Injection
<1>3. Cardinality(1 .. f[0]) = f[0]
  <2>1. 1 \in Int /\ f[0] \in Int
    OBVIOUS
  <2>2. Cardinality(1 .. f[0]) = IF 1 > f[0] THEN 0 ELSE f[0] - 1 + 1
    BY <2>1, FS_Interval
  <2> QED
    BY <2>2
<1> QED
  BY <1>2, <1>3 DEF Spent

LEMMA SpentOneMore ==
    ASSUME NEW f \in Counts, NEW S \in SUBSET Ages
    PROVE  Spent(OneMoreOf(f), S) = IF 0 \in S THEN Spent(f, S) + 1 ELSE Spent(f, S)
<1> DEFINE g == OneMoreOf(f)
<1> f[0] \in Nat
  BY LimitNat DEF Counts
<1>1. g[0] = f[0] + 1 /\ \A age \in Ages \ {0} : g[age] = f[age]
  BY LimitNat DEF OneMoreOf, Counts
<1>2. \A n : n \in 1 .. g[0] <=> n \in 1 .. f[0] \/ n = f[0] + 1
  BY <1>1
<1> HIDE DEF g
<1>3. CASE 0 \in S
  <2>1. Numbered(g, S) = Numbered(f, S) \cup {<<0, f[0] + 1>>}
    <3>1. ASSUME NEW p, p \in Numbered(g, S)
          PROVE  p \in Numbered(f, S) \cup {<<0, f[0] + 1>>}
      <4>1. PICK age \in S : \E n \in 1 .. g[age] : p = <<age, n>>
        BY <3>1, NumberedMember
      <4>2. PICK n \in 1 .. g[age] : p = <<age, n>>
        BY <4>1
      <4>3. CASE age = 0
        BY <1>2, <4>2, <4>3, NumberedMember
      <4>4. CASE age # 0
        BY <1>1, <4>2, <4>4, NumberedMember
      <4> QED
        BY <4>3, <4>4
    <3>2. ASSUME NEW p, p \in Numbered(f, S) PROVE p \in Numbered(g, S)
      <4>1. PICK age \in S : \E n \in 1 .. f[age] : p = <<age, n>>
        BY <3>2, NumberedMember
      <4>2. PICK n \in 1 .. f[age] : p = <<age, n>>
        BY <4>1
      <4>3. n \in 1 .. g[age]
        BY <1>1, <1>2, <4>2
      <4> QED
        BY <4>2, <4>3, NumberedMember
    <3>3. <<0, f[0] + 1>> \in Numbered(g, S)
      BY <1>2, <1>3, NumberedMember
    <3> QED
      BY <3>1, <3>2, <3>3
  <2>2. <<0, f[0] + 1>> \notin Numbered(f, S)
    <3> SUFFICES ASSUME NEW age \in S, NEW n \in 1 .. f[age], <<0, f[0] + 1>> = <<age, n>>
                 PROVE  FALSE
      BY NumberedMember
    <3>1. age = 0 /\ n = f[0] + 1
      OBVIOUS
    <3> QED
      BY <3>1
  <2> QED
    BY <1>3, <2>1, <2>2, NumberedFinite, FS_AddElement DEF Spent, g
<1>4. CASE 0 \notin S
  <2>1. \A age \in S : g[age] = f[age]
    BY <1>1, <1>4
  <2>2. Numbered(g, S) = Numbered(f, S)
    BY <2>1 DEF Numbered
  <2> QED
    BY <1>4, <2>2 DEF Spent, g
<1> QED
  BY <1>3, <1>4

\* What is spent moves on with its age.
LEMMA SpentAged ==
    ASSUME NEW f \in Counts, NEW S \in SUBSET Ages, NEW T \in SUBSET Ages,
           \A age \in S : age # 0 => age - 1 \in T
    PROVE  Aged(f) \in Counts /\ Spent(Aged(f), S) <= Spent(f, T)
<1> DEFINE g == [p \in Numbered(Aged(f), S) |-> <<p[1] - 1, p[2]>>]
<1>1. Aged(f) \in Counts
  <2> SUFFICES ASSUME NEW age \in Ages, age # 0 PROVE f[age - 1] \in 0 .. 2 * Limit
    BY LimitNat DEF Aged, Counts
  <2>1. age - 1 \in Ages
    BY LimitNat DEF Ages
  <2> QED
    BY <2>1 DEF Counts
<1>2. ASSUME NEW p \in Numbered(Aged(f), S)
      PROVE  /\ p = <<p[1], p[2]>> /\ p[1] \in Nat
             /\ g[p] \in Numbered(f, T)
  <2>1. PICK age \in S : \E n \in 1 .. Aged(f)[age] : p = <<age, n>>
    BY NumberedMember
  <2>2. PICK n \in 1 .. Aged(f)[age] : p = <<age, n>>
    BY <2>1
  <2>3. age # 0 /\ Aged(f)[age] = f[age - 1]
    BY <2>2 DEF Aged
  <2>4. <<age - 1, n>> \in Numbered(f, T)
    BY <2>2, <2>3, NumberedMember
  <2> QED
    BY <2>2, <2>4, LimitNat
<1>3. g \in [Numbered(Aged(f), S) -> Numbered(f, T)]
  BY <1>2
<1>4. ASSUME NEW p \in Numbered(Aged(f), S), NEW q \in Numbered(Aged(f), S), g[p] = g[q]
      PROVE  p = q
  <2>1. p[1] - 1 = q[1] - 1 /\ p[2] = q[2]
    BY <1>4
  <2>2. p = <<p[1], p[2]>> /\ q = <<q[1], q[2]>> /\ p[1] \in Nat /\ q[1] \in Nat
    BY <1>2
  <2>3. p[1] = q[1]
    BY <2>1, <2>2
  <2> QED
    BY <2>1, <2>2, <2>3
<1>5. g \in Injection(Numbered(Aged(f), S), Numbered(f, T))
  <2> HIDE DEF g
  <2> QED
    BY <1>3, <1>4 DEF Injection, IsInjective
<1> HIDE DEF g
<1> QED
  BY <1>1, <1>5, NumberedFinite, FS_Injection DEF Spent

LEMMA SpentInAll ==
    ASSUME NEW f \in Counts, NEW e \in Ages
    PROVE  Spent(f, Ages) <= Spent(f, UpTo(e)) + Spent(f, Older(e))
<1>1. UpTo(e) \in SUBSET Ages /\ Older(e) \in SUBSET Ages
  BY DEF UpTo, Older
<1>2. \A age \in Ages : age \in UpTo(e) \/ age \in Older(e)
  BY LimitNat DEF UpTo, Older
<1>3. Numbered(f, Ages) = Numbered(f, UpTo(e)) \cup Numbered(f, Older(e))
  BY <1>1, <1>2, NumberedMember
<1> DEFINE X == Numbered(f, UpTo(e))
           Y == Numbered(f, Older(e))
<1>4. IsFiniteSet(X) /\ IsFiniteSet(Y) /\ Cardinality(X) \in Nat /\ Cardinality(Y) \in Nat
  BY <1>1, NumberedFinite DEF Spent
<1>5. Cardinality(X \cap Y) \in Nat
  BY <1>4, FS_Intersection, FS_CardinalityType
<1> HIDE DEF X, Y
<1>6. Cardinality(X \cup Y) <= Cardinality(X) + Cardinality(Y)
  <2>1. Cardinality(X \cup Y) = Cardinality(X) + Cardinality(Y) - Cardinality(X \cap Y)
    BY <1>4, FS_Union
  <2> QED
    BY <1>4, <1>5, <2>1
<1> QED
  BY <1>3, <1>6 DEF Spent, X, Y

LEMMA AgeSets ==
    ASSUME NEW e
    PROVE  /\ Younger(e) \in SUBSET Ages /\ UpTo(e) \in SUBSET Ages /\ Older(e) \in SUBSET Ages
BY DEF Younger, UpTo, Older

\* A request is counted: in the window that is open, or in one that it opens.
LEMMA WindowCounts ==
    ASSUME NEW f \in Counts, NEW n \in 1 .. Limit, NEW e \in Ages, WindowOK(f, n, e), n < Limit
    PROVE  OneMoreOf(f) \in Counts /\ WindowOK(OneMoreOf(f), n + 1, e)
<1>1. /\ 0 \in UpTo(e) /\ 0 \notin Older(e) /\ (e = 0 => Younger(e) = {})
      /\ (e # 0 => 0 \in Younger(e))
  BY LimitNat DEF UpTo, Older, Younger, Ages
<1>2. f[0] <= n
  <2>1. f[0] \in Nat /\ Spent(f, UpTo(e)) \in Nat
    BY AgeSets, NumberedFinite, LimitNat DEF Counts
  <2>2. f[0] <= Spent(f, UpTo(e))
    BY <1>1, AgeSets, SpentNow
  <2> QED
    BY <2>1, <2>2, LimitNat DEF WindowOK
<1>3. OneMoreOf(f) \in Counts
  <2>1. f[0] + 1 \in 0 .. 2 * Limit
    BY <1>2, LimitNat DEF Counts
  <2> QED
    BY <2>1 DEF OneMoreOf, Counts
<1>4. /\ Spent(f, UpTo(e)) \in Nat /\ Spent(f, Younger(e)) \in Nat
      /\ Spent(OneMoreOf(f), UpTo(e)) = Spent(f, UpTo(e)) + 1
      /\ Spent(OneMoreOf(f), Older(e)) = Spent(f, Older(e))
      /\ Spent(OneMoreOf(f), Younger(e)) =
           IF 0 \in Younger(e) THEN Spent(f, Younger(e)) + 1 ELSE Spent(f, Younger(e))
  <2>1. /\ Younger(e) \in SUBSET Ages /\ UpTo(e) \in SUBSET Ages /\ Older(e) \in SUBSET Ages
    BY AgeSets
  <2> QED
    BY <1>1, <2>1, NumberedFinite, SpentOneMore
<1> QED
  BY <1>3, <1>4, LimitNat DEF WindowOK

LEMMA WindowOpens ==
    ASSUME NEW f \in Counts, RestOK(f)
    PROVE  OneMoreOf(f) \in Counts /\ WindowOK(OneMoreOf(f), 1, 0)
<1>1. OneMoreOf(f) \in Counts
  <2>1. f[0] + 1 \in 0 .. 2 * Limit
    BY LimitNat DEF RestOK
  <2> QED
    BY <2>1 DEF OneMoreOf, Counts
<1>2. Younger(0) = {} /\ UpTo(0) = {0} /\ Older(0) \in SUBSET Ages /\ 0 \notin Older(0)
  BY LimitNat DEF UpTo, Older, Younger, Ages
<1>3. Numbered(OneMoreOf(f), {}) = {} /\ Numbered(f, {0}) = {}
  <2>1. Numbered(OneMoreOf(f), {}) = {}
    BY NumberedMember
  <2>2. \A n : n \notin 1 .. f[0]
    BY DEF RestOK
  <2> QED
    BY <2>1, <2>2, NumberedMember
<1>4. Spent(OneMoreOf(f), Younger(0)) = 0 /\ Spent(f, {0}) = 0
  BY <1>2, <1>3, FS_EmptySet DEF Spent
<1>5. Spent(OneMoreOf(f), UpTo(0)) = 1
  <2>1. {0} \in SUBSET Ages
    BY LimitNat
  <2>2. Spent(OneMoreOf(f), {0}) = Spent(f, {0}) + 1
    BY <2>1, SpentOneMore
  <2> QED
    BY <1>2, <1>4, <2>2
<1>6. Spent(OneMoreOf(f), Older(0)) <= Limit - 1
  <2>1. Spent(OneMoreOf(f), Older(0)) = Spent(f, Older(0))
    BY <1>2, SpentOneMore
  <2>2. Spent(f, Older(0)) <= Spent(f, Ages)
    BY <1>2, SpentSubset
  <2>3. Spent(f, Older(0)) \in Nat /\ Spent(f, Ages) \in Nat
    BY <1>2, NumberedFinite
  <2> QED
    BY <2>1, <2>2, <2>3, LimitNat DEF RestOK
<1> QED
  BY <1>1, <1>4, <1>5, <1>6, LimitNat DEF WindowOK

\* A tick: the window stays open, or it is over; a pause goes on.
LEMMA WindowAges ==
    ASSUME NEW f \in Counts, NEW n \in 1 .. Limit, NEW e \in Ages, WindowOK(f, n, e)
    PROVE  /\ Aged(f) \in Counts
           /\ e + 1 \in Ages => WindowOK(Aged(f), n, e + 1)
           /\ e = Window - 1 => RestOK(Aged(f))
<1>1. /\ Younger(e) \in SUBSET Ages /\ UpTo(e) \in SUBSET Ages /\ Older(e) \in SUBSET Ages
      /\ Younger(e + 1) \in SUBSET Ages /\ UpTo(e + 1) \in SUBSET Ages
      /\ Older(e + 1) \in SUBSET Ages
  BY AgeSets
<1>2. /\ Spent(f, Younger(e)) \in Nat /\ Spent(f, UpTo(e)) \in Nat /\ Spent(f, Older(e)) \in Nat
  BY <1>1, NumberedFinite
<1>3. Aged(f) \in Counts
  <2>1. \A age \in Ages : age # 0 => age - 1 \in Ages
    BY LimitNat DEF Ages
  <2> QED
    BY <2>1, SpentAged
<1>4. CASE e + 1 \in Ages
  <2>1. Spent(Aged(f), Younger(e + 1)) <= Spent(f, Younger(e))
    <3>1. \A age \in Younger(e + 1) : age # 0 => age - 1 \in Younger(e)
      BY LimitNat DEF Younger, Ages
    <3> QED
      BY <1>1, <3>1, SpentAged
  <2>2. Spent(Aged(f), UpTo(e + 1)) <= Spent(f, UpTo(e))
    <3>1. \A age \in UpTo(e + 1) : age # 0 => age - 1 \in UpTo(e)
      BY LimitNat DEF UpTo, Ages
    <3> QED
      BY <1>1, <3>1, SpentAged
  <2>3. Spent(Aged(f), Older(e + 1)) <= Spent(f, Older(e))
    <3>1. \A age \in Older(e + 1) : age # 0 => age - 1 \in Older(e)
      BY LimitNat DEF Older, Ages
    <3> QED
      BY <1>1, <3>1, SpentAged
  <2>4. /\ Spent(Aged(f), Younger(e + 1)) \in Nat /\ Spent(Aged(f), UpTo(e + 1)) \in Nat
        /\ Spent(Aged(f), Older(e + 1)) \in Nat
    BY <1>1, <1>3, NumberedFinite
  <2>5. WindowOK(Aged(f), n, e + 1)
    BY <1>2, <2>1, <2>2, <2>3, <2>4, LimitNat DEF WindowOK
  <2> QED
    BY <1>3, <1>4, <2>5, LimitNat DEF Ages
<1>5. CASE e = Window - 1
  <2>1. \A age \in Ages : age # 0 => age - 1 \in Younger(e)
    BY <1>5, LimitNat DEF Younger, Ages
  <2>2. Spent(Aged(f), Ages) <= Spent(f, Younger(e))
    BY <1>1, <2>1, SpentAged
  <2>3. Spent(Aged(f), Ages) \in Nat
    BY <1>3, NumberedFinite
  <2>4. Aged(f)[0] = 0
    BY LimitNat DEF Aged
  <2>5. RestOK(Aged(f))
    BY <1>2, <2>2, <2>3, <2>4, LimitNat DEF WindowOK, RestOK
  <2> QED
    BY <1>3, <1>5, <2>5, LimitNat DEF Ages
<1>6. CASE e + 1 \notin Ages /\ e # Window - 1
  BY <1>6, LimitNat DEF Ages
<1> QED
  BY <1>4, <1>5, <1>6

LEMMA RestAges ==
    ASSUME NEW f \in Counts, RestOK(f)
    PROVE  Aged(f) \in Counts /\ RestOK(Aged(f))
<1>1. \A age \in Ages : age # 0 => age - 1 \in Ages
  BY LimitNat DEF Ages
<1>2. Aged(f) \in Counts /\ Spent(Aged(f), Ages) <= Spent(f, Ages)
  BY <1>1, SpentAged
<1>3. Spent(Aged(f), Ages) \in Nat /\ Spent(f, Ages) \in Nat
  BY <1>2, NumberedFinite
<1>4. Aged(f)[0] = 0
  BY LimitNat DEF Aged
<1> QED
  BY <1>2, <1>3, <1>4, LimitNat DEF RestOK

LEMMA NothingSpent ==
    ASSUME NEW f, f = [age \in Ages |-> 0]
    PROVE  f \in Counts /\ RestOK(f)
<1>1. f \in Counts /\ f[0] = 0
  BY LimitNat DEF Counts
<1>2. Numbered(f, Ages) = {}
  BY NumberedMember
<1>3. Spent(f, Ages) = 0
  BY <1>2, FS_EmptySet DEF Spent
<1> QED
  BY <1>1, <1>3, LimitNat DEF RestOK

\* The entries that remain, and the one that is stored.
LEMMA EntryStored ==
    ASSUME LimiterIInv, NEW k \in Keys, NEW entry \in [count : 1 .. Limit, left : 1 .. Window],
           Fits(k), Store(k, entry)
    PROVE  /\ IsFiniteSet(DOMAIN states') /\ Cardinality(DOMAIN states') <= MaxEntries
           /\ states' = [j \in DOMAIN states' |-> states'[j]]
           /\ \A j \in DOMAIN states' : states'[j] \in [count : 1 .. Limit, left : 0 .. Window]
           /\ Live(k)' /\ states'[k] = entry
           /\ \A j \in Keys \ {k} : /\ Live(j)' <=> Live(j)
                                    /\ Live(j) => states'[j] = states[j]
<1> DEFINE R == Remaining(k)
<1>1. R \subseteq DOMAIN states /\ (\A j \in DOMAIN states : Live(j) => j \in R)
  BY DEF Remaining
<1>2. IsFiniteSet(R) /\ Cardinality(R) <= Cardinality(DOMAIN states) /\ Cardinality(R) \in Nat
      /\ Cardinality(DOMAIN states) \in Nat
  BY <1>1, FS_Subset, FS_CardinalityType DEF LimiterIInv
<1>3. IsFiniteSet(R \cup {k})
      /\ Cardinality(R \cup {k}) = IF k \in R THEN Cardinality(R) ELSE Cardinality(R) + 1
  BY <1>2, FS_AddElement
<1>4. k \in DOMAIN states => k \in R
  BY DEF Remaining
<1>5. k \notin DOMAIN states => ~ (Cardinality(R) >= MaxEntries)
  BY DEF Fits, Full
<1>6. Cardinality(R \cup {k}) <= MaxEntries
  BY <1>1, <1>2, <1>3, <1>4, <1>5, LimitNat DEF LimiterIInv
<1>7. /\ DOMAIN states' = R \cup {k} /\ states'[k] = entry
      /\ \A j \in R \ {k} : states'[j] = states[j]
      /\ states' = [j \in R \cup {k} |-> IF j = k THEN entry ELSE states[j]]
  BY DEF Store
<1>8. \A j \in DOMAIN states' : states'[j] \in [count : 1 .. Limit, left : 0 .. Window]
  <2>1. entry \in [count : 1 .. Limit, left : 0 .. Window]
    OBVIOUS
  <2> QED
    BY <1>1, <1>7, <2>1 DEF LimiterIInv
<1>9. states' = [j \in DOMAIN states' |-> states'[j]]
  BY <1>7
<1>10. Live(k)'
  <2>1. entry.left > 0
    BY LimitNat
  <2> QED
    BY <1>7, <2>1 DEF Live
<1>11. \A j \in Keys \ {k} : /\ Live(j)' <=> Live(j)
                             /\ Live(j) => states'[j] = states[j]
  <2> HIDE DEF R
  <2> QED
    BY <1>1, <1>7 DEF Live
<1> HIDE DEF R
<1> QED
  BY <1>3, <1>6, <1>7, <1>8, <1>9, <1>10, <1>11

LEMMA LimiterInitIInv == LimiterInit => LimiterIInv
<1> SUFFICES ASSUME LimiterInit PROVE LimiterIInv
  OBVIOUS
<1>1. DOMAIN states = {} /\ states = [k \in DOMAIN states |-> states[k]]
  BY DEF LimiterInit
<1>2. \A k \in Keys : admitted[k] = [age \in Ages |-> 0]
  BY DEF LimiterInit
<1>3. \A k \in Keys : admitted[k] \in Counts /\ RestOK(admitted[k]) /\ ~ Live(k)
  BY <1>1, <1>2, NothingSpent DEF Live
<1>4. admitted \in [Keys -> Counts]
  BY <1>3 DEF LimiterInit
<1> QED
  BY <1>1, <1>3, <1>4, FS_EmptySet, LimitNat DEF LimiterIInv

\* Whatever a key's request finds, its own window and everyone else's stay right.
LEMMA LimiterStep ==
    ASSUME LimiterIInv,
           \/ \E k \in Keys : Admit(k) \/ Refuse(k) \/ Reset(k)
           \/ Tick
    PROVE  LimiterIInv'
<1>a. \A k \in Keys : admitted[k] \in Counts
  BY DEF LimiterIInv
<1>b. \A k \in Keys : Live(k) =>
        /\ states[k].left \in 1 .. Window /\ states[k].count \in 1 .. Limit
        /\ Elapsed(k) \in Ages /\ WindowOK(admitted[k], states[k].count, Elapsed(k))
        /\ states[k] = [count |-> states[k].count, left |-> states[k].left]
  <2> SUFFICES ASSUME NEW k \in Keys, Live(k)
               PROVE  /\ states[k].left \in 1 .. Window /\ states[k].count \in 1 .. Limit
                      /\ Elapsed(k) \in Ages
                      /\ WindowOK(admitted[k], states[k].count, Elapsed(k))
                      /\ states[k] = [count |-> states[k].count, left |-> states[k].left]
    OBVIOUS
  <2>1. states[k] \in [count : 1 .. Limit, left : 0 .. Window] /\ states[k].left > 0
    BY DEF LimiterIInv, Live
  <2>2. states[k].left \in 1 .. Window
    BY <2>1, LimitNat
  <2>3. Elapsed(k) \in Ages
    BY <2>2, LimitNat DEF Elapsed, Ages
  <2> QED
    BY <2>1, <2>2, <2>3 DEF LimiterIInv
<1>c. \A k \in Keys : ~ Live(k) => RestOK(admitted[k])
  BY DEF LimiterIInv
<1>1. ASSUME NEW k \in Keys, Admit(k) PROVE LimiterIInv'
  <2> DEFINE entry == [Current(k) EXCEPT !.count = @ + 1]
             n == IF Live(k) THEN states[k].count ELSE 0
             e == IF Live(k) THEN Elapsed(k) ELSE 0
  <2>1. /\ Current(k) = [count |-> n, left |-> Window - e]
        /\ e \in Ages /\ n \in 0 .. Limit /\ n < Limit
    <3>1. CASE Live(k)
      <4>1. Window - Elapsed(k) = states[k].left
        <5>1. \A x \in 1 .. Window : Window - (Window - x) = x
          BY LimitNat
        <5> QED
          BY <1>b, <3>1, <5>1 DEF Elapsed
      <4>2. states[k].count < Limit
        BY <1>1, <3>1 DEF Admit, Admits, Current
      <4> QED
        BY <1>b, <3>1, <4>1, <4>2, LimitNat DEF Current
    <3>2. CASE ~ Live(k)
      BY <3>2, LimitNat DEF Current
    <3> QED
      BY <3>1, <3>2
  <2>2. entry = [count |-> n + 1, left |-> Window - e]
    BY <2>1
  <2>3. /\ n + 1 \in 1 .. Limit /\ Window - e \in 1 .. Window /\ Window - (Window - e) = e
    <3> HIDE DEF n, e
    <3> QED
      BY <2>1, LimitNat DEF Ages
  <2>4. entry \in [count : 1 .. Limit, left : 1 .. Window]
    <3> HIDE DEF entry, n, e
    <3> QED
      BY <2>2, <2>3
  <2>5. Fits(k) /\ Store(k, entry)
    BY <1>1 DEF Admit, Admits
  <2>6. /\ admitted' = [admitted EXCEPT ![k] = OneMoreOf(@)]
    BY <1>1 DEF Admit, OneMoreOf
  <2>7. OneMoreOf(admitted[k]) \in Counts /\ WindowOK(OneMoreOf(admitted[k]), n + 1, e)
    <3>1. CASE Live(k)
      BY <1>a, <1>b, <2>1, <3>1, WindowCounts
    <3>2. CASE ~ Live(k)
      BY <1>a, <1>c, <3>2, WindowOpens
    <3> QED
      BY <3>1, <3>2
  <2> HIDE DEF entry, n, e
  <2>8. /\ IsFiniteSet(DOMAIN states') /\ Cardinality(DOMAIN states') <= MaxEntries
        /\ states' = [j \in DOMAIN states' |-> states'[j]]
        /\ \A j \in DOMAIN states' : states'[j] \in [count : 1 .. Limit, left : 0 .. Window]
        /\ Live(k)' /\ states'[k] = entry
        /\ \A j \in Keys \ {k} : /\ Live(j)' <=> Live(j)
                                 /\ Live(j) => states'[j] = states[j]
    BY <2>4, <2>5, EntryStored
  <2>9. admitted' \in [Keys -> Counts]
    BY <1>a, <2>6, <2>7 DEF LimiterIInv
  <2>10. ASSUME NEW j \in Keys
         PROVE  IF Live(j)' THEN WindowOK(admitted'[j], states'[j].count, Elapsed(j)')
                            ELSE RestOK(admitted'[j])
    <3>1. CASE j = k
      <4>1. admitted'[k] = OneMoreOf(admitted[k])
        BY <2>6 DEF LimiterIInv
      <4>2. states'[k].count = n + 1 /\ Elapsed(k)' = e
        BY <2>2, <2>3, <2>8 DEF Elapsed
      <4> QED
        BY <2>7, <2>8, <3>1, <4>1, <4>2
    <3>2. CASE j # k
      <4>1. admitted'[j] = admitted[j]
        BY <2>6, <3>2 DEF LimiterIInv
      <4>2. Live(j) => Elapsed(j)' = Elapsed(j) /\ states'[j] = states[j]
        BY <2>8, <3>2 DEF Elapsed
      <4> QED
        BY <1>b, <1>c, <2>8, <3>2, <4>1, <4>2
    <3> QED
      BY <3>1, <3>2
  <2> QED
    BY <2>8, <2>9, <2>10 DEF LimiterIInv
<1>2. ASSUME NEW k \in Keys, Refuse(k), Fits(k) PROVE LimiterIInv'
  <2>1. Live(k) /\ Store(k, states[k]) /\ admitted' = admitted
    <3>1. ~ (Current(k).count < Limit) /\ Store(k, Current(k)) /\ admitted' = admitted
      BY <1>2 DEF Refuse, Admits
    <3>2. Live(k)
      BY <3>1, LimitNat DEF Current
    <3> QED
      BY <3>1, <3>2 DEF Current
  <2>2. states[k] \in [count : 1 .. Limit, left : 1 .. Window]
    <3>1. \A n \in 1 .. Limit, l \in 1 .. Window :
            [count |-> n, left |-> l] \in [count : 1 .. Limit, left : 1 .. Window]
      OBVIOUS
    <3>2. /\ states[k].left \in 1 .. Window /\ states[k].count \in 1 .. Limit
          /\ states[k] = [count |-> states[k].count, left |-> states[k].left]
      BY <1>b, <2>1
    <3> QED
      BY <3>1, <3>2
  <2>3. /\ IsFiniteSet(DOMAIN states') /\ Cardinality(DOMAIN states') <= MaxEntries
        /\ states' = [j \in DOMAIN states' |-> states'[j]]
        /\ \A j \in DOMAIN states' : states'[j] \in [count : 1 .. Limit, left : 0 .. Window]
        /\ Live(k)' /\ states'[k] = states[k]
        /\ \A j \in Keys \ {k} : /\ Live(j)' <=> Live(j)
                                 /\ Live(j) => states'[j] = states[j]
    BY <1>2, <2>1, <2>2, EntryStored
  <2>4. ASSUME NEW j \in Keys
        PROVE  IF Live(j)' THEN WindowOK(admitted'[j], states'[j].count, Elapsed(j)')
                           ELSE RestOK(admitted'[j])
    <3>1. (Live(j)' <=> Live(j)) /\ (Live(j) => states'[j] = states[j])
      BY <2>1, <2>3
    <3> QED
      BY <1>b, <1>c, <2>1, <3>1 DEF Elapsed
  <2> QED
    BY <2>1, <2>3, <2>4 DEF LimiterIInv
\* Entries that are over, or a key's own, are removed.
<1>3. ASSUME NEW S \in SUBSET DOMAIN states, states' = [j \in S |-> states[j]],
             \A j \in Keys : IF j \in DOMAIN states \ S /\ Live(j)
                             THEN admitted'[j] = [age \in Ages |-> 0]
                             ELSE admitted'[j] = admitted[j],
             admitted' = [j \in Keys |-> admitted'[j]]
      PROVE  LimiterIInv'
  <2>1. /\ DOMAIN states' = S /\ (\A j \in S : states'[j] = states[j])
        /\ states' = [j \in DOMAIN states' |-> states'[j]]
    BY <1>3
  <2>2. IsFiniteSet(S) /\ Cardinality(S) <= MaxEntries
    <3>1. IsFiniteSet(S) /\ Cardinality(S) <= Cardinality(DOMAIN states)
      BY FS_Subset DEF LimiterIInv
    <3>2. Cardinality(S) \in Nat /\ Cardinality(DOMAIN states) \in Nat
      BY <3>1, FS_CardinalityType DEF LimiterIInv
    <3> QED
      BY <3>1, <3>2, LimitNat DEF LimiterIInv
  <2>3. ASSUME NEW j \in Keys
        PROVE  /\ admitted'[j] \in Counts
               /\ IF Live(j)' THEN WindowOK(admitted'[j], states'[j].count, Elapsed(j)')
                              ELSE RestOK(admitted'[j])
    <3>1. CASE j \in DOMAIN states \ S /\ Live(j)
      <4>1. ~ Live(j)' /\ admitted'[j] = [age \in Ages |-> 0]
        BY <1>3, <2>1, <3>1 DEF Live
      <4> QED
        BY <4>1, NothingSpent
    <3>2. CASE ~ (j \in DOMAIN states \ S /\ Live(j))
      <4>1. admitted'[j] = admitted[j]
        BY <1>3, <3>2
      <4>2. (Live(j)' <=> Live(j)) /\ (Live(j) => states'[j] = states[j])
        BY <2>1, <3>2 DEF Live
      <4> QED
        BY <1>a, <1>b, <1>c, <4>1, <4>2 DEF Elapsed
    <3> QED
      BY <3>1, <3>2
  <2>4. admitted' \in [Keys -> Counts]
    BY <1>3, <2>3
  <2>5. \A j \in DOMAIN states' : states'[j] \in [count : 1 .. Limit, left : 0 .. Window]
    BY <2>1 DEF LimiterIInv
  <2> QED
    BY <2>1, <2>2, <2>3, <2>4, <2>5 DEF LimiterIInv
<1>4. ASSUME NEW k \in Keys, Refuse(k), ~ Fits(k) PROVE LimiterIInv'
  <2>1. states' = [j \in Remaining(k) |-> states[j]] /\ admitted' = admitted
    BY <1>4 DEF Refuse, Purge
  <2>2. Remaining(k) \in SUBSET DOMAIN states
    BY DEF Remaining
  <2>3. \A j \in DOMAIN states \ Remaining(k) : ~ Live(j)
    BY DEF Remaining
  <2>4. admitted' = [j \in Keys |-> admitted'[j]]
    BY <2>1 DEF LimiterIInv
  <2> QED
    BY <1>3, <2>1, <2>2, <2>3, <2>4
<1>5. ASSUME NEW k \in Keys, Reset(k) PROVE LimiterIInv'
  <2> DEFINE S == DOMAIN states \ {k}
             zero == [age \in Ages |-> 0]
  <2>1. states' = [j \in S |-> states[j]] /\ k \in DOMAIN states
    BY <1>5 DEF Reset
  <2>2. /\ admitted' = [admitted EXCEPT ![k] = zero]
        /\ admitted' = [j \in Keys |-> admitted'[j]]
    BY <1>5 DEF Reset, LimiterIInv
  <2>3. admitted'[k] = zero /\ \A j \in Keys \ {k} : admitted'[j] = admitted[j]
    <3> HIDE DEF zero
    <3> QED
      BY <2>2 DEF LimiterIInv
  <2>4. CASE Live(k)
    <3>1. \A j \in Keys : IF j \in DOMAIN states \ S /\ Live(j)
                          THEN admitted'[j] = zero ELSE admitted'[j] = admitted[j]
      BY <2>1, <2>3, <2>4
    <3> QED
      BY <1>3, <2>1, <2>2, <3>1
  <2>5. CASE ~ Live(k)
    <3>1. zero \in Counts /\ RestOK(zero)
      BY NothingSpent
    <3>2. /\ DOMAIN states' = S /\ (\A j \in S : states'[j] = states[j])
          /\ states' = [j \in DOMAIN states' |-> states'[j]]
      BY <2>1
    <3>3. IsFiniteSet(S) /\ Cardinality(S) <= MaxEntries
      <4>1. IsFiniteSet(S) /\ Cardinality(S) <= Cardinality(DOMAIN states)
        BY FS_Subset DEF LimiterIInv
      <4>2. Cardinality(S) \in Nat /\ Cardinality(DOMAIN states) \in Nat
        BY <4>1, FS_CardinalityType DEF LimiterIInv
      <4> QED
        BY <4>1, <4>2, LimitNat DEF LimiterIInv
    <3> HIDE DEF zero
    <3>4. ASSUME NEW j \in Keys
          PROVE  /\ admitted'[j] \in Counts
                 /\ IF Live(j)' THEN WindowOK(admitted'[j], states'[j].count, Elapsed(j)')
                                ELSE RestOK(admitted'[j])
      <4>1. CASE j = k
        BY <2>3, <3>1, <3>2, <4>1 DEF Live
      <4>2. CASE j # k
        <5>1. (Live(j)' <=> Live(j)) /\ (Live(j) => states'[j] = states[j])
          BY <3>2, <4>2 DEF Live
        <5> QED
          BY <1>a, <1>b, <1>c, <2>3, <4>2, <5>1 DEF Elapsed
      <4> QED
        BY <4>1, <4>2
    <3>5. admitted' \in [Keys -> Counts]
      BY <2>2, <3>4
    <3>6. \A j \in DOMAIN states' : states'[j] \in [count : 1 .. Limit, left : 0 .. Window]
      BY <3>2 DEF LimiterIInv
    <3> QED
      BY <3>2, <3>3, <3>4, <3>5, <3>6 DEF LimiterIInv
  <2> QED
    BY <2>4, <2>5
<1>6. CASE Tick
  <2>1. /\ DOMAIN states' = DOMAIN states
        /\ states' = [j \in DOMAIN states' |-> states'[j]]
        /\ \A j \in DOMAIN states :
             /\ states'[j] = [states[j] EXCEPT !.left = IF @ = 0 THEN 0 ELSE @ - 1]
             /\ states[j] \in [count : 1 .. Limit, left : 0 .. Window]
    BY <1>6 DEF Tick, LimiterIInv
  <2>2. ASSUME NEW j \in DOMAIN states
        PROVE  /\ states'[j] \in [count : 1 .. Limit, left : 0 .. Window]
               /\ states'[j].count = states[j].count
               /\ states'[j].left = IF states[j].left = 0 THEN 0 ELSE states[j].left - 1
    <3>1. /\ states[j].left \in 0 .. Window
          /\ (IF states[j].left = 0 THEN 0 ELSE states[j].left - 1) \in 0 .. Window
      BY <2>1, LimitNat
    <3> QED
      BY <2>1, <3>1
  <2>3. \A j \in Keys : admitted'[j] = Aged(admitted[j])
    BY <1>6 DEF Tick, Aged
  <2>4. ASSUME NEW j \in Keys
        PROVE  /\ admitted'[j] \in Counts
               /\ IF Live(j)' THEN WindowOK(admitted'[j], states'[j].count, Elapsed(j)')
                              ELSE RestOK(admitted'[j])
    <3>1. CASE Live(j) /\ states[j].left > 1
      <4>1. /\ Live(j)' /\ Elapsed(j)' = Elapsed(j) + 1 /\ Elapsed(j) + 1 \in Ages
            /\ states'[j].count = states[j].count
        <5>1. j \in DOMAIN states /\ states[j].left \in 1 .. Window
          BY <1>b, <3>1 DEF Live
        <5>2. states'[j].left = states[j].left - 1
          BY <2>2, <5>1
        <5>3. Window - (states[j].left - 1) = Window - states[j].left + 1
          BY <5>1, LimitNat
        <5> QED
          BY <2>1, <2>2, <3>1, <5>1, <5>2, <5>3, LimitNat DEF Live, Elapsed, Ages
      <4> QED
        BY <1>a, <1>b, <2>3, <3>1, <4>1, WindowAges
    <3>2. CASE Live(j) /\ ~ (states[j].left > 1)
      <4>1. states[j].left = 1 /\ Elapsed(j) = Window - 1 /\ j \in DOMAIN states
        BY <1>b, <3>2, LimitNat DEF Elapsed, Live
      <4>2. ~ Live(j)'
        BY <2>1, <2>2, <4>1 DEF Live
      <4> QED
        BY <1>a, <1>b, <2>3, <3>2, <4>1, <4>2, WindowAges
    <3>3. CASE ~ Live(j)
      <4>1. ~ Live(j)'
        <5>1. CASE j \in DOMAIN states
          <6>1. states[j].left \in 0 .. Window /\ ~ (states[j].left > 0)
            BY <2>1, <3>3, <5>1 DEF Live
          <6>2. states'[j].left = 0
            BY <2>2, <5>1, <6>1, LimitNat
          <6> QED
            BY <6>2 DEF Live
        <5>2. CASE j \notin DOMAIN states
          BY <2>1, <5>2 DEF Live
        <5> QED
          BY <5>1, <5>2
      <4> QED
        BY <1>a, <1>c, <2>3, <3>3, <4>1, RestAges
    <3> QED
      BY <3>1, <3>2, <3>3
  <2>5. admitted' \in [Keys -> Counts]
    BY <1>6, <2>4 DEF Tick
  <2>6. IsFiniteSet(DOMAIN states') /\ Cardinality(DOMAIN states') <= MaxEntries
    BY <2>1 DEF LimiterIInv
  <2> QED
    BY <2>1, <2>2, <2>4, <2>5, <2>6 DEF LimiterIInv
<1> QED
  BY <1>1, <1>2, <1>4, <1>5, <1>6

LEMMA LimiterHolds == LimiterIInv => LimitHolds
<1> SUFFICES ASSUME LimiterIInv, NEW k \in Keys PROVE Cardinality(Counted(k)) < 2 * Limit
  BY DEF LimiterIInv, LimitHolds
<1>1. admitted[k] \in Counts /\ Counted(k) = Numbered(admitted[k], Ages)
  BY DEF LimiterIInv, Counted, Numbered
<1>2. Spent(admitted[k], Ages) \in Nat
  BY <1>1, NumberedFinite
<1>3. CASE Live(k)
  <2>1. /\ states[k].count \in 1 .. Limit /\ Elapsed(k) \in Ages
        /\ WindowOK(admitted[k], states[k].count, Elapsed(k))
    <3>1. /\ states[k] \in [count : 1 .. Limit, left : 0 .. Window] /\ states[k].left > 0
          /\ WindowOK(admitted[k], states[k].count, Elapsed(k))
      BY <1>3 DEF LimiterIInv, Live
    <3>2. states[k].left \in 1 .. Window
      BY <3>1, LimitNat
    <3> QED
      BY <3>1, <3>2, LimitNat DEF Elapsed, Ages
  <2>2. /\ Spent(admitted[k], UpTo(Elapsed(k))) \in Nat
        /\ Spent(admitted[k], Older(Elapsed(k))) \in Nat
    BY <1>1, AgeSets, NumberedFinite
  <2>3. Spent(admitted[k], Ages) <=
          Spent(admitted[k], UpTo(Elapsed(k))) + Spent(admitted[k], Older(Elapsed(k)))
    BY <1>1, <2>1, SpentInAll
  <2>4. Spent(admitted[k], Ages) < 2 * Limit
    BY <1>2, <2>1, <2>2, <2>3, LimitNat DEF WindowOK
  <2> QED
    BY <1>1, <2>4 DEF Spent
<1>4. CASE ~ Live(k)
  <2>1. Spent(admitted[k], Ages) <= Limit - 1
    BY <1>4 DEF LimiterIInv, RestOK
  <2> QED
    BY <1>1, <1>2, <2>1, LimitNat DEF Spent
<1> QED
  BY <1>3, <1>4

LEMMA LimiterAlone == LimiterIInv /\ UNCHANGED limiterVars => LimiterIInv'
BY DEF LimiterIInv, limiterVars, Live, Elapsed

\* No key is admitted twice the limit within the length of a window, and the
\* table keeps its bound, whatever the other keys do (Take).
THEOREM LimitKept == Spec => []LimitHolds
<1>1. Init => LimiterIInv
  BY LimiterInitIInv DEF Init
<1>2. LimiterIInv /\ [Next]_vars => LimiterIInv'
  <2> SUFFICES ASSUME LimiterIInv, [Next]_vars PROVE LimiterIInv'
    OBVIOUS
  <2>1. \/ \E k \in Keys : Admit(k) \/ Refuse(k) \/ Reset(k)
        \/ Tick
        \/ UNCHANGED limiterVars
    BY ListingAssumption
       DEF Next, vars, Appear, Vanish, Move, LoseAccess, RefuseRequest, AdmitRequest,
           ReturnPage, ReturnNotFound, OtherRequest, TimePasses
  <2> QED
    BY <2>1, LimiterStep, LimiterAlone
<1> QED
  BY <1>1, <1>2, LimiterHolds, PTL DEF Spec
-----------------------------------------------------------------------------
(* Listing.  The cursor parts the rows: what stayed in its place has been   *)
(* returned once if the cursor has passed it, and not at all otherwise.     *)

ListingInv ==
    /\ listing \in Listings
    /\ there \subseteq Items /\ steady \subseteq there
    /\ key \in [Items -> 1 .. MaxKey]
    /\ access \in BOOLEAN /\ (~ access => listing.access # "own")
    /\ cursor \in Int \X Int
    /\ seen \in [Items -> Nat]
SeenInv ==
    /\ \A i \in steady :
         seen[i] = IF client # "complete" /\ Before(cursor, PlaceOf(i)) THEN 0 ELSE 1
    /\ ~ listing.moves => \A i \in Items :
         seen[i] = 0 \/ (seen[i] = 1 /\ (client = "complete" \/ ~ Before(cursor, PlaceOf(i))))

Below(i) == {j \in Rest : Before(PlaceOf(j), PlaceOf(i))}
Rank(i) == Cardinality(Below(i))

\* Places are totally ordered.
LEMMA BeforeOrders ==
    ASSUME NEW p \in Int \X Int, NEW q \in Int \X Int
    PROVE  /\ ~ Before(p, p)
           /\ p # q => Before(p, q) \/ Before(q, p)
           /\ ~ (Before(p, q) /\ Before(q, p))
           /\ \A r \in Int \X Int : Before(p, q) /\ Before(q, r) => Before(p, r)
BY DEF Before

LEMMA PlacesDiffer ==
    ASSUME ListingInv, NEW i \in Items, NEW j \in Items
    PROVE  PlaceOf(i) \in Int \X Int /\ (PlaceOf(i) = PlaceOf(j) => i = j)
<1>1. i \in Int /\ j \in Int /\ key[i] \in Int
  BY ListingAssumption DEF ListingInv
<1> QED
  BY <1>1 DEF PlaceOf

LEMMA RestFinite ==
    ASSUME ListingInv
    PROVE  /\ Rest \subseteq Items /\ IsFiniteSet(Rest) /\ Cardinality(Rest) \in Nat
           /\ \A S \in SUBSET Rest :
                IsFiniteSet(S) /\ Cardinality(S) \in Nat /\ Cardinality(S) <= Cardinality(Rest)
<1>1. Rest \subseteq Items
  BY DEF ListingInv, Rest
<1>2. IsFiniteSet(Rest)
  BY <1>1, ListingAssumption, FS_Subset
<1> QED
  BY <1>1, <1>2, FS_Subset, FS_CardinalityType

\* The number of rows before one grows with its place.
LEMMA RankGrows ==
    ASSUME ListingInv, NEW i \in Rest, NEW j \in Rest
    PROVE  /\ Rank(i) \in 0 .. Cardinality(Rest)
           /\ Before(PlaceOf(j), PlaceOf(i)) <=> Rank(j) < Rank(i)
           /\ Rank(i) = Rank(j) => i = j
<1>1. \A x \in Rest : Below(x) \in SUBSET Rest /\ Rank(x) \in 0 .. Cardinality(Rest)
  BY RestFinite DEF Below, Rank
<1>2. \A x \in Rest : x \in Items /\ PlaceOf(x) \in Int \X Int
  BY RestFinite, PlacesDiffer
<1>3. ASSUME NEW x \in Rest, NEW y \in Rest, Before(PlaceOf(x), PlaceOf(y))
      PROVE  Rank(x) < Rank(y)
  <2>1. Below(x) \in SUBSET Below(y)
    BY <1>2, <1>3, BeforeOrders DEF Below
  <2>2. x \in Below(y) /\ x \notin Below(x)
    BY <1>2, <1>3, BeforeOrders DEF Below
  <2>3. IsFiniteSet(Below(y))
    BY <1>1, RestFinite
  <2>4. /\ Cardinality(Below(x)) <= Cardinality(Below(y))
         /\ Cardinality(Below(x)) # Cardinality(Below(y))
    BY <2>1, <2>2, <2>3, FS_Subset
  <2>5. Rank(x) \in Nat /\ Rank(y) \in Nat
    BY <1>1, RestFinite
  <2> QED
    BY <2>4, <2>5 DEF Rank
<1>4. i # j => Before(PlaceOf(i), PlaceOf(j)) \/ Before(PlaceOf(j), PlaceOf(i))
  <2>1. i # j => PlaceOf(i) # PlaceOf(j)
    BY <1>2, PlacesDiffer
  <2> QED
    BY <1>2, <2>1, BeforeOrders
<1>5. Rank(i) \in Nat /\ Rank(j) \in Nat
  BY <1>1, RestFinite
<1>6. i = j => ~ Before(PlaceOf(j), PlaceOf(i))
  BY <1>2, BeforeOrders
<1> QED
  BY <1>1, <1>3, <1>4, <1>5, <1>6

\* Any rows have a first and a last.
LEMMA FirstAndLast ==
    ASSUME ListingInv, NEW S \in SUBSET Rest, S # {}
    PROVE  /\ \E i \in S : \A j \in S \ {i} : Before(PlaceOf(i), PlaceOf(j))
           /\ \E i \in S : \A j \in S \ {i} : Before(PlaceOf(j), PlaceOf(i))
<1> DEFINE R == OpToRel(<, Nat)
           N == Cardinality(Rest)
           Up == {Rank(i) : i \in S}
           Down == {N - Rank(i) : i \in S}
<1>1. IsWellFoundedOn(R, Nat)
  BY NatLessThanWellFounded
<1>2. \A i \in S : Rank(i) \in Nat /\ N - Rank(i) \in Nat /\ N \in Nat
  <2>1. \A i \in Rest : Rank(i) \in 0 .. N
    BY RankGrows
  <2> QED
    BY <2>1, RestFinite
<1>3. Up \subseteq Nat /\ Up # {} /\ Down \subseteq Nat /\ Down # {}
  <2> HIDE DEF N
  <2> QED
    BY <1>2
<1>4. ASSUME NEW T \in SUBSET Nat, T # {}
      PROVE  \E t \in T : \A y \in T : ~ (y < t)
  <2>1. PICK t \in T : \A y \in T : ~ (<<y, t>> \in R)
    <3> HIDE DEF R
    <3> QED
      BY <1>1, <1>4, WFMin
  <2> QED
    BY <2>1 DEF OpToRel
<1>5. PICK i \in S : \A j \in S : ~ (Rank(j) < Rank(i))
  <2>1. PICK t \in Up : \A y \in Up : ~ (y < t)
    <3> HIDE DEF Up
    <3> QED
      BY <1>3, <1>4
  <2> QED
    BY <2>1
<1>6. PICK k \in S : \A j \in S : ~ (N - Rank(j) < N - Rank(k))
  <2>1. PICK t \in Down : \A y \in Down : ~ (y < t)
    <3> HIDE DEF Down
    <3> QED
      BY <1>3, <1>4
  <2> HIDE DEF N
  <2> QED
    BY <2>1
<1>7. \A j \in S \ {i} : Before(PlaceOf(i), PlaceOf(j))
  <2> SUFFICES ASSUME NEW j \in S, j # i PROVE Before(PlaceOf(i), PlaceOf(j))
    OBVIOUS
  <2>1. Rank(i) # Rank(j) /\ Rank(i) \in Nat /\ Rank(j) \in Nat /\ ~ (Rank(j) < Rank(i))
    BY <1>2, <1>5, RankGrows
  <2>2. Rank(i) < Rank(j)
    BY <2>1
  <2> QED
    BY <2>2, RankGrows
<1>8. \A j \in S \ {k} : Before(PlaceOf(j), PlaceOf(k))
  <2> SUFFICES ASSUME NEW j \in S, j # k PROVE Before(PlaceOf(j), PlaceOf(k))
    OBVIOUS
  <2>1. Rank(k) # Rank(j) /\ Rank(k) \in Nat /\ Rank(j) \in Nat /\ N \in Nat
        /\ ~ (N - Rank(j) < N - Rank(k))
    BY <1>2, <1>6, RankGrows
  <2>2. Rank(j) < Rank(k)
    <3> HIDE DEF N
    <3> QED
      BY <2>1
  <2> QED
    BY <2>2, RankGrows
<1> QED
  BY <1>7, <1>8

\* A query's LIMIT: that many rows at most, and none before the others.
LEMMA FirstOfLimits ==
    ASSUME ListingInv, NEW n \in Nat
    PROVE  /\ FirstOf(n) \in SUBSET Rest
           /\ \A i \in Rest : i \in FirstOf(n) <=> Rank(i) < n
           /\ Cardinality(FirstOf(n)) <= n
           /\ \A i \in FirstOf(n), j \in Rest \ FirstOf(n) : Before(PlaceOf(i), PlaceOf(j))
<1>1. FirstOf(n) \in SUBSET Rest /\ \A i \in Rest : i \in FirstOf(n) <=> Rank(i) < n
  BY DEF FirstOf, Rank, Below
<1>2. \A i \in Rest : Rank(i) \in Nat
  BY RankGrows, RestFinite
<1>3. ASSUME NEW i \in FirstOf(n), NEW j \in Rest \ FirstOf(n)
      PROVE  Before(PlaceOf(i), PlaceOf(j))
  <2>1. i \in Rest /\ j \in Rest /\ Rank(i) < n /\ ~ (Rank(j) < n)
    BY <1>1, <1>3
  <2>2. Rank(i) < Rank(j)
    BY <1>2, <2>1
  <2> QED
    BY <2>1, <2>2, RankGrows
<1>4. Cardinality(FirstOf(n)) <= n
  <2> DEFINE g == [i \in FirstOf(n) |-> Rank(i)]
             T == 0 .. n - 1
  <2>1. \A i \in FirstOf(n) : Rank(i) \in T
    BY <1>1, <1>2
  <2>2. \A i, j \in FirstOf(n) : Rank(i) = Rank(j) => i = j
    BY <1>1, RankGrows
  <2>3. IsFiniteSet(T) /\ Cardinality(T) = n
    <3>1. 0 \in Int /\ n - 1 \in Int
      OBVIOUS
    <3>2. IsFiniteSet(T) /\ Cardinality(T) = IF 0 > n - 1 THEN 0 ELSE n - 1 - 0 + 1
      BY <3>1, FS_Interval
    <3> QED
      BY <3>2
  <2>4. g \in Injection(FirstOf(n), T)
    <3>1. g \in [FirstOf(n) -> T] /\ \A i, j \in FirstOf(n) : g[i] = g[j] => i = j
      <4> HIDE DEF T
      <4> QED
        BY <2>1, <2>2
    <3> HIDE DEF g, T
    <3> QED
      BY <3>1 DEF Injection, IsInjective
  <2> HIDE DEF g, T
  <2> QED
    BY <2>3, <2>4, FS_Injection
<1> QED
  BY <1>1, <1>3, <1>4

\* A page without more holds all the rows there are; one with more is not empty.
LEMMA MoreOrAll ==
    ASSUME ListingInv
    PROVE  /\ HasMore => Page # {}
           /\ ~ HasMore => Page = Rest
<1>1. PageSize \in Nat /\ PageSize > 0 /\ PageSize + 1 \in Nat
  BY ListingAssumption
<1>2. ASSUME HasMore PROVE Page # {}
  <2>1. Rest # {}
    <3>1. SUFFICES ASSUME Rest = {} PROVE FALSE
      OBVIOUS
    <3>2. FirstOf(PageSize + 1) = {}
      BY <3>1 DEF FirstOf
    <3>3. Cardinality(FirstOf(PageSize + 1)) = 0
      BY <3>2, FS_EmptySet
    <3> QED
      BY <1>1, <1>2, <3>3 DEF HasMore
  <2>2. PICK i \in Rest : \A j \in Rest \ {i} : Before(PlaceOf(i), PlaceOf(j))
    <3>1. Rest \in SUBSET Rest
      OBVIOUS
    <3> QED
      BY <2>1, <3>1, FirstAndLast
  <2>3. Below(i) = {}
    <3> SUFFICES ASSUME NEW j \in Rest, Before(PlaceOf(j), PlaceOf(i)) PROVE FALSE
      BY DEF Below
    <3>1. PlaceOf(i) \in Int \X Int /\ PlaceOf(j) \in Int \X Int
      BY RestFinite, PlacesDiffer
    <3>2. j # i
      BY <3>1, BeforeOrders
    <3> QED
      BY <2>2, <3>1, <3>2, BeforeOrders
  <2>4. Rank(i) < PageSize
    BY <1>1, <2>3, FS_EmptySet DEF Rank
  <2> QED
    BY <1>1, <2>4, FirstOfLimits DEF Page
<1>3. ASSUME Page # Rest PROVE HasMore
  <2> DEFINE Left == Rest \ Page
  <2>1. Page \in SUBSET Rest /\ Left \in SUBSET Rest /\ Left # {}
    BY <1>1, <1>3, FirstOfLimits DEF Page
  <2>2. PICK i \in Left : \A j \in Left \ {i} : Before(PlaceOf(i), PlaceOf(j))
    <3> HIDE DEF Left
    <3> QED
      BY <2>1, FirstAndLast
  <2>3. \A j \in Rest : j \in Items /\ PlaceOf(j) \in Int \X Int
    BY RestFinite, PlacesDiffer
  <2>4. Below(i) = Page
    <3>1. \A j \in Page : Before(PlaceOf(j), PlaceOf(i))
      BY <1>1, FirstOfLimits DEF Page
    <3>2. \A j \in Left : ~ Before(PlaceOf(j), PlaceOf(i))
      BY <2>1, <2>2, <2>3, BeforeOrders
    <3> QED
      BY <2>1, <3>1, <3>2 DEF Below
  <2>5. Rank(i) = Cardinality(Page) /\ i \in Rest /\ i \notin Page
    BY <2>4 DEF Rank
  <2>6. /\ Cardinality(Page) \in Nat /\ IsFiniteSet(Page) /\ Cardinality(Page) <= PageSize
        /\ ~ (Rank(i) < PageSize)
    BY <1>1, <2>1, <2>5, RestFinite, FirstOfLimits DEF Page
  <2>7. Cardinality(Page) = PageSize
    BY <1>1, <2>5, <2>6
  <2>8. Page \cup {i} \in SUBSET FirstOf(PageSize + 1)
    <3>1. ASSUME NEW j \in Page PROVE j \in FirstOf(PageSize + 1)
      <4>1. j \in Rest /\ Rank(j) < PageSize /\ Rank(j) \in Nat
        BY <1>1, <2>1, FirstOfLimits, RankGrows, RestFinite DEF Page
      <4>2. Rank(j) < PageSize + 1
        BY <1>1, <4>1
      <4> QED
        BY <1>1, <4>1, <4>2, FirstOfLimits
    <3>2. Rank(i) < PageSize + 1
      BY <1>1, <2>5, <2>7
    <3>3. i \in FirstOf(PageSize + 1)
      BY <1>1, <2>5, <3>2, FirstOfLimits
    <3> QED
      BY <3>1, <3>3
  <2>9. Cardinality(Page \cup {i}) = PageSize + 1
    BY <2>5, <2>6, <2>7, FS_AddElement
  <2>10. /\ Cardinality(Page \cup {i}) <= Cardinality(FirstOf(PageSize + 1))
         /\ Cardinality(FirstOf(PageSize + 1)) \in Nat
    <3>1. FirstOf(PageSize + 1) \in SUBSET Rest
      BY <1>1, FirstOfLimits
    <3> QED
      BY <2>8, <3>1, RestFinite, FS_Subset
  <2> QED
    BY <1>1, <2>9, <2>10 DEF HasMore
<1> QED
  BY <1>2, <1>3

\* The next cursor is the place of the page's last row.
LEMMA CursorAdvances ==
    ASSUME ListingInv, HasMore
    PROVE  /\ NextCursor \in Int \X Int
           /\ Before(cursor, NextCursor)
           /\ \A i \in Page : ~ Before(NextCursor, PlaceOf(i))
           /\ \A i \in Rest \ Page : Before(NextCursor, PlaceOf(i))
<1> DEFINE Last(i) == \A j \in Page \ {i} : Before(PlaceOf(j), PlaceOf(i))
           l == CHOOSE i \in Page : Last(i)
<1>1. PageSize \in Nat /\ Page \in SUBSET Rest /\ Page # {}
  BY ListingAssumption, MoreOrAll, FirstOfLimits DEF Page
<1>2. \E i \in Page : Last(i)
  BY <1>1, FirstAndLast
<1>3. l \in Page /\ Last(l)
  <2> HIDE DEF Last
  <2> QED
    BY <1>2
<1>4. NextCursor = PlaceOf(l)
  BY DEF NextCursor
<1> HIDE DEF l
<1>5. \A i \in Rest : PlaceOf(i) \in Int \X Int
  BY RestFinite, PlacesDiffer
<1>6. Before(cursor, PlaceOf(l))
  BY <1>1, <1>3 DEF Rest
<1>7. \A i \in Page : ~ Before(PlaceOf(l), PlaceOf(i))
  BY <1>1, <1>3, <1>5, BeforeOrders
<1>8. \A i \in Rest \ Page : Before(PlaceOf(l), PlaceOf(i))
  BY <1>1, <1>3, FirstOfLimits DEF Page
<1> QED
  BY <1>1, <1>3, <1>4, <1>5, <1>6, <1>7, <1>8

\* A page that is returned was read by a caller who may see the rows.
LEMMA PageIsVisible ==
    ASSUME ListingInv, ~ Denied
    PROVE  \A i \in there : i \in Rest <=> Before(cursor, PlaceOf(i))
<1>1. listing.access \in {"if empty", "own", "first"}
  <2>1. /\ ListMessages.access = "if empty" /\ SearchMessages.access = "if empty"
        /\ ListGuilds.access = "own" /\ ListMembers.access = "first"
        /\ ListChannels.access = "if empty" /\ ListThreads.access = "if empty"
        /\ ListDirectChannels.access = "own"
    BY DEF ListMessages, SearchMessages, ListGuilds, ListMembers, ListChannels, ListThreads,
           ListDirectChannels
  <2> QED
    BY <2>1 DEF ListingInv, Listings
<1>2. Visible
  BY <1>1 DEF ListingInv, Denied, Rest, Visible
<1> QED
  BY <1>2 DEF Rest

LEMMA ListingStep == ListingInv /\ Next => ListingInv'
<1> SUFFICES ASSUME ListingInv, Next PROVE ListingInv'
  OBVIOUS
<1>1. ASSUME NEW i \in Items, Appear(i) PROVE ListingInv'
  BY <1>1 DEF Appear, ListingInv
<1>2. ASSUME NEW i \in Items, Vanish(i) PROVE ListingInv'
  BY <1>2 DEF Vanish, ListingInv
<1>3. ASSUME NEW i \in Items, NEW k \in 1 .. MaxKey, Move(i, k) PROVE ListingInv'
  BY <1>3 DEF Move, ListingInv
<1>4. CASE LoseAccess
  BY <1>4 DEF LoseAccess, ListingInv
<1>5. CASE ReturnPage
  <2>1. /\ listing' = listing /\ there' = there /\ steady' = steady /\ key' = key
        /\ access' = access
    BY <1>5 DEF ReturnPage
  <2>2. seen' \in [Items -> Nat]
    BY <1>5 DEF ReturnPage, ListingInv
  <2>3. cursor' \in Int \X Int
    BY <1>5, CursorAdvances DEF ReturnPage, ListingInv
  <2> QED
    BY <2>1, <2>2, <2>3 DEF ListingInv
<1>6. CASE RefuseRequest \/ AdmitRequest \/ ReturnNotFound \/ TimePasses
           \/ \E k \in Keys : OtherRequest(k)
  BY <1>6 DEF RefuseRequest, AdmitRequest, ReturnNotFound, TimePasses, OtherRequest,
              listingVars, ListingInv
<1> QED
  BY <1>1, <1>2, <1>3, <1>4, <1>5, <1>6 DEF Next

LEMMA SeenStep == ListingInv /\ SeenInv /\ Next => SeenInv'
<1> SUFFICES ASSUME ListingInv, SeenInv, Next PROVE SeenInv'
  OBVIOUS
<1>1. ASSUME NEW i \in Items, Appear(i) PROVE SeenInv'
  BY <1>1 DEF Appear, SeenInv, PlaceOf, Before
<1>2. ASSUME NEW i \in Items, Vanish(i) PROVE SeenInv'
  BY <1>2 DEF Vanish, SeenInv, PlaceOf, Before
<1>3. ASSUME NEW i \in Items, NEW k \in 1 .. MaxKey, Move(i, k) PROVE SeenInv'
  <2>1. listing.moves /\ listing' = listing /\ cursor' = cursor /\ client' = client
        /\ seen' = seen /\ steady' = steady \ {i}
    BY <1>3 DEF Move
  <2>2. \A j \in steady' : key'[j] = key[j]
    BY <1>3 DEF Move, ListingInv
  <2> QED
    BY <2>1, <2>2 DEF SeenInv, PlaceOf, Before
<1>4. ASSUME UNCHANGED <<listing, key, cursor, seen, steady>>,
             client' = "complete" <=> client = "complete"
      PROVE  SeenInv'
  BY <1>4 DEF SeenInv, PlaceOf, Before
<1>5. CASE ReturnPage
  <2>1. /\ client = "waits" /\ ~ Denied
        /\ listing' = listing /\ steady' = steady /\ key' = key
        /\ \A i \in Items : seen'[i] = IF i \in Page THEN seen[i] + 1 ELSE seen[i]
    BY <1>5 DEF ReturnPage
  <2>2. \A i \in Items : PlaceOf(i)' = PlaceOf(i) /\ PlaceOf(i) \in Int \X Int
    BY <2>1, PlacesDiffer DEF PlaceOf
  <2>3. \A i \in steady : i \in there /\ i \in Items
    BY DEF ListingInv
  <2>4. \A i \in Page : i \in Rest /\ i \in Items /\ Before(cursor, PlaceOf(i))
    BY ListingAssumption, FirstOfLimits, RestFinite DEF Page, Rest
  <2>5. \A i \in steady : i \in Rest <=> Before(cursor, PlaceOf(i))
    BY <2>1, <2>3, PageIsVisible
  <2>6. /\ \A i \in steady : seen[i] = IF Before(cursor, PlaceOf(i)) THEN 0 ELSE 1
        /\ ~ listing.moves => \A i \in Items :
             seen[i] = 0 \/ (seen[i] = 1 /\ ~ Before(cursor, PlaceOf(i)))
    BY <2>1 DEF SeenInv
  <2>7. CASE HasMore
    <3>1. client' = "asks" /\ cursor' = NextCursor
      BY <1>5, <2>7 DEF ReturnPage
    <3>2. ASSUME NEW i \in Items, ~ Before(cursor, PlaceOf(i))
          PROVE  ~ Before(cursor', PlaceOf(i))
      <4>1. cursor \in Int \X Int /\ cursor' \in Int \X Int /\ Before(cursor, cursor')
        BY <2>7, <3>1, CursorAdvances DEF ListingInv
      <4> QED
        BY <2>2, <3>2, <4>1, BeforeOrders
    <3>3. /\ \A i \in Page : ~ Before(cursor', PlaceOf(i))
          /\ \A i \in Rest \ Page : Before(cursor', PlaceOf(i))
      BY <2>7, <3>1, CursorAdvances
    <3>4. ASSUME NEW i \in steady
          PROVE  seen'[i] = IF Before(cursor', PlaceOf(i)) THEN 0 ELSE 1
      <4>1. CASE i \in Page
        BY <2>1, <2>3, <2>4, <2>6, <3>3, <4>1
      <4>2. CASE i \in Rest \ Page
        BY <2>1, <2>3, <2>5, <2>6, <3>3, <4>2
      <4>3. CASE i \notin Rest
        BY <2>1, <2>3, <2>4, <2>5, <2>6, <3>2, <4>3
      <4> QED
        BY <4>1, <4>2, <4>3
    <3>5. ASSUME ~ listing.moves, NEW i \in Items
          PROVE  seen'[i] = 0 \/ (seen'[i] = 1 /\ ~ Before(cursor', PlaceOf(i)))
      <4>1. CASE i \in Page
        BY <2>1, <2>4, <2>6, <3>3, <3>5, <4>1
      <4>2. CASE i \notin Page
        BY <2>1, <2>6, <3>2, <3>5, <4>2
      <4> QED
        BY <4>1, <4>2
    <3> QED
      BY <2>1, <2>2, <2>3, <3>1, <3>4, <3>5 DEF SeenInv
  <2>8. CASE ~ HasMore
    <3>1. client' = "complete"
      BY <1>5, <2>8 DEF ReturnPage
    <3>2. Page = Rest
      BY <2>8, MoreOrAll
    <3>3. \A i \in steady : seen'[i] = 1
      BY <2>1, <2>3, <2>5, <2>6, <3>2
    <3>4. ~ listing.moves => \A i \in Items : seen'[i] \in {0, 1}
      BY <2>1, <2>4, <2>6
    <3> QED
      BY <2>1, <3>1, <3>3, <3>4 DEF SeenInv
  <2> QED
    BY <2>7, <2>8
<1>6. CASE RefuseRequest \/ AdmitRequest \/ ReturnNotFound \/ TimePasses \/ LoseAccess
           \/ \E k \in Keys : OtherRequest(k)
  BY <1>4, <1>6 DEF RefuseRequest, AdmitRequest, ReturnNotFound, TimePasses, LoseAccess,
                    OtherRequest, Asks, listingVars
<1> QED
  BY <1>1, <1>2, <1>3, <1>5, <1>6 DEF Next

\* A listing that ends without an error has returned everything that stayed in
\* its place, and nothing that keeps its place is returned twice.
THEOREM NothingSkipped == Spec => []NothingIsSkipped
<1>1. Init => ListingInv /\ SeenInv
  <2> SUFFICES ASSUME Init PROVE ListingInv /\ SeenInv
    OBVIOUS
  <2>1. ListingInv
    BY DEF Init, Start, ListingInv
  <2>2. \A i \in Items : Before(cursor, PlaceOf(i))
    BY <2>1 DEF Init, Start, ListingInv, Before, PlaceOf
  <2> QED
    BY <2>1, <2>2 DEF Init, ListingInv, SeenInv
<1>2. ListingInv /\ SeenInv /\ [Next]_vars => ListingInv' /\ SeenInv'
  <2>1. ListingInv /\ SeenInv /\ UNCHANGED vars => ListingInv' /\ SeenInv'
    BY DEF vars, listingVars, ListingInv, SeenInv, Before, PlaceOf
  <2> QED
    BY <2>1, ListingStep, SeenStep
<1>3. ListingInv /\ SeenInv => NothingIsSkipped
  BY DEF ListingInv, SeenInv, NothingIsSkipped
<1> QED
  BY <1>1, <1>2, <1>3, PTL DEF Spec
=============================================================================
