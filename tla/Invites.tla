------------------------------- MODULE Invites -------------------------------
(***************************************************************************)
(* The Members of a Guild and the invites that admit them                  *)
(* (internal/chat/members.go, members_postgres.go and migration 6).        *)
(*                                                                         *)
(* AcceptInvite is a transaction at READ COMMITTED: it locks the invite's  *)
(* row, looks for a membership, inserts one, counts the use and commits.   *)
(* Other accepts, a removal of a Member, a revocation and the deletion of  *)
(* the Guild run between its statements as far as the row locks let them.  *)
(* Permissions are the subject of GuildRoles: whoever is found to hold     *)
(* CREATE_INVITE or MANAGE_GUILD may have lost it by the time of the write.*)
(***************************************************************************)
EXTENDS GuildMembers, Integers, FiniteSets

CONSTANTS
    InviteIds,
    Requests,      \* requests that accept an invite, each used once
    MaxUses        \* the largest max_uses in the instance

ASSUME InvitesAssumption ==
    /\ None \notin InviteIds
    /\ MaxUses \in Nat

VARIABLES
    guild,         \* the Guild's row: there, deleting (locked), gone
    status,        \* of an invite: none yet, open, revoked
    maxUses,       \* max_uses, 0 for NULL
    uses,
    expired,       \* invites past expires_at
    accept,        \* where a request stands, or how it ended
    user,          \* who sent it
    code,          \* the invite it names
    late           \* requests whose clock was past expires_at on arrival

requestVars == <<accept, user, code, late>>
inviteVars == <<guild, member, status, maxUses, uses, expired, requestVars>>

\* FOR UPDATE is held from the first statement to the end of the transaction.
Holds(r, i) == accept[r] \in {"insert", "commit"} /\ code[r] = i
Locked(i) == \E r \in Requests : Holds(r, i)

\* The request's clock decides about the expiry, the locked row about the rest.
Exhausted(i) == maxUses[i] # 0 /\ uses[i] >= maxUses[i]

InvitesInit ==
    /\ guild = "there"
    /\ SomeMembers
    /\ status = [i \in InviteIds |-> "none"]
    /\ maxUses = [i \in InviteIds |-> 0]
    /\ uses = [i \in InviteIds |-> 0]
    /\ expired = {}
    /\ accept = [r \in Requests |-> "idle"]
    /\ user = [r \in Requests |-> Owner]
    /\ code = [r \in Requests |-> None]
    /\ late = {}
-----------------------------------------------------------------------------
(* Invites and Members.                                                    *)

CreateInvite(i, most) ==
    /\ guild = "there"
    /\ status[i] = "none"
    /\ status' = [status EXCEPT ![i] = "open"]
    /\ maxUses' = [maxUses EXCEPT ![i] = most]
    /\ UNCHANGED <<guild, member, uses, expired, requestVars>>

\* RevokeInvite: the UPDATE waits for an accept that holds the row.
RevokeInvite(i) ==
    /\ status[i] = "open"
    /\ ~ Locked(i)
    /\ status' = [status EXCEPT ![i] = "revoked"]
    /\ UNCHANGED <<guild, member, maxUses, uses, expired, requestVars>>

Expire(i) ==
    /\ status[i] = "open" /\ i \notin expired
    /\ expired' = expired \cup {i}
    /\ UNCHANGED <<guild, member, status, maxUses, uses, requestVars>>

RemoveMember(u) ==
    /\ DropMember(u)
    /\ UNCHANGED <<guild, status, maxUses, uses, expired, requestVars>>

\* DeleteGuild locks the Guild's row, which an uncommitted membership refers to,
\* and cascades to the invites, which accepts hold.  Where each waits for the
\* other Postgres aborts one of them.
LockGuild ==
    /\ guild = "there"
    /\ \A r \in Requests : accept[r] # "commit"
    /\ guild' = "deleting"
    /\ UNCHANGED <<member, status, maxUses, uses, expired, requestVars>>
DeleteGuild ==
    /\ guild = "deleting"
    /\ \A i \in InviteIds : ~ Locked(i)
    /\ guild' = "gone"
    /\ member' = {}
    /\ status' = [i \in InviteIds |-> "none"]
    /\ UNCHANGED <<maxUses, uses, expired, requestVars>>
DeleteGuildFails ==
    /\ guild = "deleting"
    /\ guild' = "there"
    /\ UNCHANGED <<member, status, maxUses, uses, expired, requestVars>>
-----------------------------------------------------------------------------
(* AcceptInvite.                                                           *)

Arrive(r, u, i) ==
    /\ accept[r] = "idle"
    /\ accept' = [accept EXCEPT ![r] = "lock"]
    /\ user' = [user EXCEPT ![r] = u]
    /\ code' = [code EXCEPT ![r] = i]
    /\ late' = IF i \in expired THEN late \cup {r} ELSE late
    /\ UNCHANGED <<guild, member, status, maxUses, uses, expired>>

\* SELECT ... FOR UPDATE, and the answers that need no write.
LockInviteAnswer(r) ==
    LET i == code[r] IN
    IF status[i] # "open" THEN "not found"
    ELSE IF user[r] \in member THEN "already"
    ELSE IF r \in late \/ Exhausted(i) THEN "unavailable"
    ELSE "insert"
LockInviteUnlocked(r) ==
    /\ accept[r] = "lock"
    /\ accept' = [accept EXCEPT ![r] = LockInviteAnswer(r)]
    /\ UNCHANGED <<guild, member, status, maxUses, uses, expired, user, code, late>>
LockInvite(r) ==
    /\ accept[r] = "lock"
    /\ ~ Locked(code[r])
    /\ accept' = [accept EXCEPT ![r] = LockInviteAnswer(r)]
    /\ UNCHANGED <<guild, member, status, maxUses, uses, expired, user, code, late>>

\* The INSERT waits for an uncommitted one of the same Member and for the
\* Guild's row; the primary key and the CHECK of max_uses turn the request away.
InsertMember(r) ==
    /\ accept[r] = "insert"
    /\ guild = "there"
    /\ \A s \in Requests : ~ (accept[s] = "commit" /\ user[s] = user[r])
    /\ accept' = [accept EXCEPT ![r] =
           IF user[r] \in member THEN "duplicate"
           ELSE IF Exhausted(code[r]) THEN "check violated"
           ELSE "commit"]
    /\ UNCHANGED <<guild, member, status, maxUses, uses, expired, user, code, late>>

\* The commit, whose answer may be lost.
CommitAcceptUncounted(r) ==
    /\ accept[r] = "commit"
    /\ member' = member \cup {user[r]}
    /\ \E end \in {"joined", "unheard"} : accept' = [accept EXCEPT ![r] = end]
    /\ UNCHANGED <<guild, status, maxUses, uses, expired, user, code, late>>
CommitAccept(r) ==
    /\ accept[r] = "commit"
    /\ member' = member \cup {user[r]}
    /\ uses' = [uses EXCEPT ![code[r]] = @ + 1]
    /\ \E end \in {"joined", "unheard"} : accept' = [accept EXCEPT ![r] = end]
    /\ UNCHANGED <<guild, status, maxUses, expired, user, code, late>>

\* A statement fails, or the client has hung up: the transaction rolls back.
Rollback(r) ==
    /\ accept[r] \in {"lock", "insert", "commit"}
    /\ accept' = [accept EXCEPT ![r] = "error"]
    /\ UNCHANGED <<guild, member, status, maxUses, uses, expired, user, code, late>>
-----------------------------------------------------------------------------
\* Everything but the two steps that change who is a Member of a living Guild.
Preparation ==
    \/ \E i \in InviteIds :
         \/ \E most \in 0..MaxUses : CreateInvite(i, most)
         \/ RevokeInvite(i)
         \/ Expire(i)
    \/ LockGuild
    \/ DeleteGuild
    \/ DeleteGuildFails
    \/ \E r \in Requests :
         \/ \E u \in Users, i \in InviteIds : Arrive(r, u, i)
         \/ LockInvite(r)
         \/ InsertMember(r)
         \/ Rollback(r)

InvitesNext ==
    \/ Preparation
    \/ \E u \in Users : RemoveMember(u)
    \/ \E r \in Requests : CommitAccept(r)

InvitesSpec == InvitesInit /\ [][InvitesNext]_inviteVars
-----------------------------------------------------------------------------
(* Properties.                                                             *)

InvitesTypeOK ==
    /\ guild \in {"there", "deleting", "gone"}
    /\ member \subseteq Users
    /\ status \in [InviteIds -> {"none", "open", "revoked"}]
    /\ maxUses \in [InviteIds -> Nat]
    /\ uses \in [InviteIds -> Nat]
    /\ expired \subseteq InviteIds
    /\ accept \in [Requests -> {"idle", "lock", "insert", "commit", "joined", "already",
                                "not found", "unavailable", "duplicate",
                                "check violated", "unheard", "error"}]
    /\ user \in [Requests -> Users]
    /\ code \in [Requests -> InviteIds \cup {None}]
    /\ \A r \in Requests : accept[r] # "idle" => code[r] \in InviteIds
    /\ late \subseteq Requests

\* An invite's uses are the Members it has admitted, one at a time, never more
\* than max_uses, and only while it is open and has not expired before the
\* request came (AcceptInvite, RevokeInvite).
JoinsAreCounted ==
    [][/\ member' \subseteq member \/ \E i \in InviteIds : uses'[i] # uses[i]
       /\ \A i \in InviteIds : uses'[i] # uses[i] =>
            /\ uses'[i] = uses[i] + 1
            /\ maxUses[i] # 0 => uses'[i] <= maxUses[i]
            /\ status[i] = "open"
            /\ \A j \in InviteIds \ {i} : uses'[j] = uses[j]
            /\ \E u \in Users \ member : member' = member \cup {u}]_inviteVars

\* An accept never fails for what it should have been told: the CHECK of
\* max_uses never has to stop one, and the primary key only one whose User has
\* accepted another invite at the same time (AcceptInvite's row lock).
OnlyOneselfCollides ==
    \A r \in Requests :
        /\ accept[r] # "check violated"
        /\ accept[r] = "duplicate" =>
             \E s \in Requests \ {r} :
                 user[s] = user[r] /\ code[s] # code[r] /\ accept[s] \in {"joined", "unheard"}
=============================================================================
