------------------------------ MODULE GuildRoles ------------------------------
(***************************************************************************)
(* The Roles and Members of one Guild (internal/chat/roles.go, members.go, *)
(* permissions.go and their Postgres store).                               *)
(*                                                                         *)
(* A request reads the caller's authority, then the Role or Member it      *)
(* acts on, decides on what it has read and writes.  Each of these is one  *)
(* SQL statement: nothing locks the rows in between, so whatever another   *)
(* request writes meanwhile is not seen.  Only SetMemberRoles writes in a  *)
(* transaction of several statements, under READ COMMITTED.  Any request   *)
(* may also end early, refused or by a failing statement.  Names, colors   *)
(* and nicknames carry no authority and are left out; the Owner of a Guild *)
(* never changes.                                                          *)
(***************************************************************************)
EXTENDS Integers, FiniteSets, FiniteSetsExt

CONSTANTS
    Users,
    Owner,
    Roles,              \* Role ids, each issued at most once
    Everyone,           \* the default Role
    Perms,              \* permission bits
    ManageRoles, ManageMembers,
    MaxPosition,        \* bound of the model on positions
    Requests,           \* HTTP handlers that may run at the same time
    MaxRequests,        \* bound of the model on the requests of a behaviour
    None,
    Guilds              \* the Guilds to begin with: Members, Roles, who holds them

Position == 0..MaxPosition
RoleRow == [perms : SUBSET Perms, position : Position]

\* The Owner is a Member, the default Role is at the bottom and every other Role
\* above it, and only Members hold Roles, which exist.
WellFormed(rows, held, joined) ==
    /\ Owner \in joined /\ joined \subseteq Users
    /\ rows \in [Roles -> RoleRow \cup {None}]
    /\ held \in [Users -> SUBSET (Roles \ {Everyone})]
    /\ rows[Everyone] # None
    /\ \A x \in Roles : rows[x] # None => (rows[x].position = 0 <=> x = Everyone)
    /\ \A u \in Users : \A x \in held[u] : rows[x] # None
    /\ \A u \in Users : held[u] # {} => u \in joined

ASSUME GuildAssumption ==
    /\ Owner \in Users
    /\ Everyone \in Roles
    /\ {ManageRoles, ManageMembers} \subseteq Perms
    /\ MaxPosition \in Nat
    /\ MaxRequests \in Nat
    /\ None \notin RoleRow \cup Users \cup Roles
    /\ \A g \in Guilds : WellFormed(g.role, g.assigned, g.members)

VARIABLES
    members,      \* guild_members
    role,         \* guild_roles; None for an id without a row
    assigned,     \* guild_member_roles
    deleted,      \* ids of deleted Roles
    task,         \* the requests
    started,      \* how many there were
    granted,      \* permissions the Owner has put in Roles so far (history)
    ceiling       \* highest position the Owner has given a Role (history)

guildVars == <<members, role, assigned, deleted, granted, ceiling>>
vars == <<guildVars, task, started>>

Existing == {x \in Roles : role[x] # None}

\* GetAccess: the union of the permissions, and the highest position, of the
\* default Role and the Roles assigned to a Member; the Owner outranks everyone.
RolesOf(u) == {Everyone} \cup assigned[u]
Access(u) ==
    IF u = Owner
    THEN [perms |-> Perms, top |-> MaxPosition + 1]
    ELSE [perms |-> UNION {role[x].perms : x \in RolesOf(u)},
          top |-> Max({role[x].position : x \in RolesOf(u)})]

Nobody == [perms |-> {}, top |-> 0]
Idle == [at |-> "idle", user |-> None, access |-> Nobody, subject |-> None,
         roles |-> {}, cleared |-> {}, write |-> None, alone |-> TRUE]

Init ==
    /\ \E g \in Guilds :
         /\ members = g.members
         /\ role = g.role
         /\ assigned = g.assigned
    /\ deleted = {}
    /\ task = [r \in Requests |-> Idle]
    /\ started = 0
    /\ granted = UNION {role[x].perms : x \in Existing}
    /\ ceiling = Max({role[x].position : x \in Existing})

\* A request begins by reading the caller's authority, of which it must have the
\* permission named.
Begin(r, u, permission, place, subject) ==
    /\ task[r] = Idle
    /\ started < MaxRequests
    /\ u \in members
    /\ permission \in Access(u).perms
    /\ task' = [task EXCEPT ![r] = [Idle EXCEPT !.at = place, !.user = u,
                                                !.access = Access(u), !.subject = subject]]
    /\ started' = started + 1
    /\ UNCHANGED guildVars

\* It goes on to its next statement, having read or decided something.
Go(r, place) ==
    /\ task' = [task EXCEPT ![r].at = place]
    /\ UNCHANGED <<guildVars, started>>

\* It is refused, finds nothing, or a statement fails.
Fail(r) ==
    /\ task[r] # Idle
    /\ task' = [task EXCEPT ![r] = Idle]
    /\ UNCHANGED <<guildVars, started>>

\* The Guild has changed and lost the assignments gone[u] of each User u: the
\* requests under way are not alone any more, and a transaction that is about to
\* delete some of those assignments finds that they are not there.
Disturbed(gone) ==
    [q \in Requests |->
       IF task[q] = Idle THEN Idle
       ELSE [task[q] EXCEPT !.alone = FALSE,
                            !.cleared = @ \ UNION {gone[u] : u \in {task[q].subject} \cap Users}]]
Nothing == [u \in Users |-> {}]
Committed(r, gone) ==
    /\ task' = [Disturbed(gone) EXCEPT ![r] = Idle]
    /\ UNCHANGED started

\* History: what the Owner writes into a Role.
OwnerWrites(r) ==
    IF task[r].user = Owner
    THEN /\ granted' = granted \cup task[r].write.perms
         /\ ceiling' = Max({ceiling, task[r].write.position})
    ELSE UNCHANGED <<granted, ceiling>>
-----------------------------------------------------------------------------
(* CreateRole.                                                             *)

\* Only permissions the caller holds, and at the bottom: the caller must outrank
\* position 1.
CreateRole(r, perms) ==
    /\ task[r].at = "create role"
    /\ task[r].user # Owner
    /\ perms \subseteq task[r].access.perms
    /\ task[r].access.top > 1
    /\ 1 \in Position
    /\ task' = [task EXCEPT ![r].at = "insert role",
                            ![r].write = [perms |-> perms, position |-> 1]]
    /\ UNCHANGED <<guildVars, started>>

\* The Owner's Roles go on top of those listed just before.
CreateRoleOnTop(r, perms) ==
    LET top == Max({role[x].position : x \in Existing}) + 1
    IN  /\ task[r].at = "create role"
        /\ task[r].user = Owner
        /\ top \in Position
        /\ task' = [task EXCEPT ![r].at = "insert role",
                                ![r].write = [perms |-> perms, position |-> top]]
        /\ UNCHANGED <<guildVars, started>>

InsertRole(r, x) ==
    /\ task[r].at = "insert role"
    /\ role[x] = None
    /\ x \notin deleted
    /\ role' = [role EXCEPT ![x] = task[r].write]
    /\ OwnerWrites(r)
    /\ Committed(r, Nothing)
    /\ UNCHANGED <<members, assigned, deleted>>
-----------------------------------------------------------------------------
(* UpdateRole and DeleteRole.                                              *)

\* The caller must outrank the Role, before and after, unless it is the default
\* Role, whose position is fixed; permissions the caller lacks stay as they are.
MayUpdateUpward(a, x, found, new) ==
    /\ x = Everyone \/ a.top > found.position
    /\ (new.perms \ found.perms) \cup (found.perms \ new.perms) \subseteq a.perms
    /\ new.position # found.position => x # Everyone /\ new.position >= 1
MayUpdate(a, x, found, new) ==
    /\ x = Everyone \/ a.top > found.position
    /\ (new.perms \ found.perms) \cup (found.perms \ new.perms) \subseteq a.perms
    /\ new.position # found.position =>
         x # Everyone /\ new.position >= 1 /\ a.top > new.position

\* findRole, and the whole row that is going to be written.
UpdateRole(r, new) ==
    LET x == task[r].subject
    IN  /\ task[r].at = "find role to update"
        /\ role[x] # None
        /\ MayUpdate(task[r].access, x, role[x], new)
        /\ task' = [task EXCEPT ![r].at = "update role", ![r].write = new]
        /\ UNCHANGED <<guildVars, started>>

WriteRole(r) ==
    LET x == task[r].subject
    IN  /\ task[r].at = "update role"
        /\ role[x] # None
        /\ role' = [role EXCEPT ![x] = task[r].write]
        /\ OwnerWrites(r)
        /\ Committed(r, Nothing)
        /\ UNCHANGED <<members, assigned, deleted>>

DeleteRole(r) ==
    LET x == task[r].subject
    IN  /\ task[r].at = "find role to delete"
        /\ role[x] # None
        /\ x # Everyone
        /\ task[r].access.top > role[x].position
        /\ Go(r, "delete role")

\* The row goes, and with it the assignments (ON DELETE CASCADE).
EraseRole(r) ==
    LET x == task[r].subject
    IN  /\ task[r].at = "delete role"
        /\ role[x] # None
        /\ role' = [role EXCEPT ![x] = None]
        /\ assigned' = [u \in Users |-> assigned[u] \ {x}]
        /\ deleted' = deleted \cup {x}
        /\ Committed(r, [u \in Users |-> {x}])
        /\ UNCHANGED <<members, granted, ceiling>>
-----------------------------------------------------------------------------
(* UpdateMember's Roles.                                                   *)

\* GetMember: the Roles the target has.
GetMember(r) ==
    LET u == task[r].subject
    IN  /\ task[r].at = "get member"
        /\ {u, task[r].user} \subseteq members
        /\ task' = [task EXCEPT ![r].at = IF u = task[r].user THEN "assign roles"
                                          ELSE "rank member",
                                ![r].roles = assigned[u]]
        /\ UNCHANGED <<guildVars, started>>

\* checkOutranksMember, of UpdateMember and of RemoveMember.
OutranksMember(a, u) == u # Owner /\ a.top > Access(u).top
RankMember(r) ==
    LET u == task[r].subject
    IN  /\ task[r].at \in {"rank member", "rank removed"}
        /\ u \in members
        /\ OutranksMember(task[r].access, u)
        /\ Go(r, IF task[r].at = "rank member" THEN "assign roles" ELSE "remove member")

\* assignRoles: the caller outranks every Role that is added or taken away; of a
\* Role deleted in the meantime Go's zero value has position 0.
RankOf(x) == IF role[x] = None THEN 0 ELSE role[x].position
MayAssignAdded(a, current, next) ==
    /\ next \subseteq Existing \ {Everyone}
    /\ \A x \in next \ current : a.top > RankOf(x)
MayAssign(a, current, next) ==
    /\ next \subseteq Existing \ {Everyone}
    /\ \A x \in (next \ current) \cup (current \ next) : a.top > RankOf(x)
AssignRoles(r, next) ==
    /\ task[r].at = "assign roles"
    /\ MayAssign(task[r].access, task[r].roles, next)
    /\ task' = [task EXCEPT ![r].at = "clear roles", ![r].roles = next]
    /\ UNCHANGED <<guildVars, started>>

\* SetMemberRoles deletes the assignments its statement sees ...
ClearRoles(r) ==
    /\ task[r].at = "clear roles"
    /\ task' = [task EXCEPT ![r].at = "set roles",
                            ![r].cleared = assigned[task[r].subject]]
    /\ UNCHANGED <<guildVars, started>>

\* ... inserts the new ones and commits.  Of two transactions that delete the same
\* assignments the second waits for the first, and then neither finds them nor
\* sees those the first has inserted.  The keys refuse an assignment that exists,
\* and one of a Role or a Member that is gone.
SetRolesUnchecked(r) ==
    LET u == task[r].subject
        kept == assigned[u] \ task[r].cleared
    IN  /\ task[r].at = "set roles"
        /\ task[r].roles \cap kept = {}
        /\ assigned' = [assigned EXCEPT ![u] = kept \cup task[r].roles]
        /\ Committed(r, [Nothing EXCEPT ![u] = task[r].cleared])
        /\ UNCHANGED <<members, role, deleted, granted, ceiling>>
SetRoles(r) ==
    LET u == task[r].subject
        kept == assigned[u] \ task[r].cleared
    IN  /\ task[r].at = "set roles"
        /\ u \in members
        /\ task[r].roles \subseteq Existing
        /\ task[r].roles \cap kept = {}
        /\ assigned' = [assigned EXCEPT ![u] = kept \cup task[r].roles]
        /\ Committed(r, [Nothing EXCEPT ![u] = task[r].cleared])
        /\ UNCHANGED <<members, role, deleted, granted, ceiling>>
-----------------------------------------------------------------------------
(* Membership.                                                             *)

\* The membership and what hangs on it (ON DELETE CASCADE).
Removed(u) ==
    /\ members' = members \ {u}
    /\ assigned' = [assigned EXCEPT ![u] = {}]
    /\ UNCHANGED <<role, deleted, granted, ceiling>>

RemoveMember(r) ==
    /\ task[r].at = "remove member"
    /\ task[r].subject \in members
    /\ Removed(task[r].subject)
    /\ Committed(r, [Nothing EXCEPT ![task[r].subject] = assigned[task[r].subject]])

\* LeaveGuild; the Owner cannot.
LeaveGuild(r, u) ==
    /\ task[r] = Idle
    /\ started < MaxRequests
    /\ u \in members \ {Owner}
    /\ Removed(u)
    /\ task' = Disturbed([Nothing EXCEPT ![u] = assigned[u]])
    /\ started' = started + 1

\* AcceptInvite by a User who is not a Member, with an invite that can be used.
AcceptInvite(r, u) ==
    /\ task[r] = Idle
    /\ started < MaxRequests
    /\ u \in Users \ members
    /\ members' = members \cup {u}
    /\ task' = Disturbed(Nothing)
    /\ started' = started + 1
    /\ UNCHANGED <<role, assigned, deleted, granted, ceiling>>
-----------------------------------------------------------------------------
\* What a request writes.
Write(r) ==
    \/ \E x \in Roles : InsertRole(r, x)
    \/ WriteRole(r)
    \/ EraseRole(r)
    \/ SetRoles(r)
    \/ RemoveMember(r)

Start(r, u) ==
    \/ Begin(r, u, ManageRoles, "create role", None)
    \/ \E x \in Roles : Begin(r, u, ManageRoles, "find role to update", x)
    \/ \E x \in Roles : Begin(r, u, ManageRoles, "find role to delete", x)
    \/ \E v \in Users : Begin(r, u, ManageRoles, "get member", v)
    \/ \E v \in Users \ {u} : Begin(r, u, ManageMembers, "rank removed", v)

Next ==
    \/ \E r \in Requests, u \in Users :
         Start(r, u) \/ LeaveGuild(r, u) \/ AcceptInvite(r, u)
    \/ \E r \in Requests, perms \in SUBSET Perms :
         CreateRole(r, perms) \/ CreateRoleOnTop(r, perms)
    \/ \E r \in Requests, new \in RoleRow : UpdateRole(r, new)
    \/ \E r \in Requests, next \in SUBSET Roles : AssignRoles(r, next)
    \/ \E r \in Requests : DeleteRole(r) \/ GetMember(r) \/ RankMember(r)
                                 \/ ClearRoles(r) \/ Fail(r)
    \/ \E r \in Requests : Write(r)

Spec == Init /\ [][Next]_vars
-----------------------------------------------------------------------------
(* Properties.                                                             *)

Places == {"idle", "create role", "insert role", "find role to update", "update role",
           "find role to delete", "delete role", "get member", "rank member",
           "assign roles", "clear roles", "set roles", "rank removed", "remove member"}
TypeOK ==
    /\ members \subseteq Users
    /\ role \in [Roles -> RoleRow \cup {None}]
    /\ assigned \in [Users -> SUBSET Roles]
    /\ deleted \subseteq Roles \ Existing
    /\ task \in [Requests ->
                   [at : Places, user : Users \cup {None},
                    access : [perms : SUBSET Perms, top : 0..(MaxPosition + 1)],
                    subject : Roles \cup Users \cup {None}, roles : SUBSET Roles, cleared : SUBSET Roles,
                    write : RoleRow \cup {None}, alone : BOOLEAN]]
    /\ started \in 0..MaxRequests
    /\ granted \subseteq Perms
    /\ ceiling \in Position

\* However requests overlap, the Owner is a Member, the default Role stays at the
\* bottom and applies to everyone, and Members hold only Roles that exist
\* (RemoveMember, UpdateRole, DeleteRole, SetMemberRoles and the foreign keys).
GuildIntact == WellFormed(role, assigned, members)

\* Members who act together, however their requests overlap, never give a Role a
\* permission that the Owner has not put in some Role of the Guild, and never
\* raise a Role above the highest one the Owner placed (CreateRole, UpdateRole).
OnlyTheOwnerExtends ==
    \A x \in Existing : role[x].perms \subseteq granted /\ role[x].position <= ceiling

\* A Member whose request nothing overlapped changes only Roles below their own
\* highest one and leaves them below it, grants and revokes only permissions they
\* hold, and changes the Roles or the membership only of Members below them.
Toggled(x) == (role[x].perms \ role'[x].perms) \cup (role'[x].perms \ role[x].perms)
Within(u) ==
    LET a == Access(u)
    IN  /\ \A x \in Roles \ {Everyone} : role'[x] # role[x] =>
             /\ role[x] # None => role[x].position < a.top
             /\ role'[x] # None => role'[x].position < a.top
        /\ \A x \in Roles : role'[x] # None =>
             IF role[x] = None THEN role'[x].perms \subseteq a.perms
             ELSE Toggled(x) \subseteq a.perms
        /\ role' = role => \A v \in Users : assigned'[v] # assigned[v] \/ v \notin members' =>
             /\ v # u /\ v \in members => v # Owner /\ Access(v).top < a.top
             /\ v \in members' =>
                  \A x \in (assigned[v] \ assigned'[v]) \cup (assigned'[v] \ assigned[v]) :
                      role[x].position < a.top
WithinAuthority ==
    [][\A r \in Requests :
         Write(r) /\ task[r].alone /\ task[r].user # Owner => Within(task[r].user)]_vars
=============================================================================
