--------------------------- MODULE GuildRolesProofs ---------------------------
(***************************************************************************)
(* Proofs about GuildRoles for any Users, Roles, permissions, positions    *)
(* and any number of overlapping requests.                                 *)
(***************************************************************************)
EXTENDS GuildRoles, WellFoundedInduction, TLAPS

OnRole == {"find role to update", "update role", "find role to delete", "delete role"}
OnMember == {"get member", "rank member", "assign roles", "clear roles", "set roles",
             "rank removed", "remove member"}
Writing == {"insert role", "update role"}

TaskType ==
    [at : Places, user : Users \cup {None},
     access : [perms : SUBSET Perms, top : 0..(MaxPosition + 1)],
     subject : Roles \cup Users \cup {None}, roles : SUBSET Roles, cleared : SUBSET Roles,
     write : RoleRow \cup {None}, alone : BOOLEAN]

\* What a request has checked by the place it has reached.
Checked(k) ==
    /\ k.at \in OnRole => k.subject \in Roles
    /\ k.at \in OnMember => k.subject \in Users
    /\ k.at = "remove member" => k.subject # Owner
    /\ k.at = "delete role" => k.subject # Everyone
    /\ k.at \in {"clear roles", "set roles"} => Everyone \notin k.roles
    /\ k.at \in Writing => k.write \in RoleRow
    /\ k.at = "insert role" => k.write.position # 0
    /\ k.at = "update role" => (k.write.position = 0 <=> k.subject = Everyone)

\* What a request by anyone but the Owner has read, and is going to write, stays
\* within the permissions g and the position c.
Bounded(k, g, c) ==
    k.user # Owner =>
        /\ k.access.perms \subseteq g
        /\ k.access.top <= c
        /\ k.at \in Writing => k.write.perms \subseteq g /\ k.write.position <= c

TaskOK(k, g, c) == k \in TaskType /\ Checked(k) /\ Bounded(k, g, c)

TasksOK == task \in [Requests -> TaskType] /\ \A r \in Requests : TaskOK(task[r], granted, ceiling)

GuildOK ==
    /\ assigned \in [Users -> SUBSET Roles]
    /\ deleted \subseteq Roles \ Existing
    /\ granted \subseteq Perms
    /\ ceiling \in Position
    /\ GuildIntact
    /\ OnlyTheOwnerExtends

IInv == GuildOK /\ TasksOK /\ started \in 0..MaxRequests
-----------------------------------------------------------------------------
(* Greatest positions.                                                     *)

\* A nonempty set of positions has a greatest one, and Max is it.
LEMMA MaxPositionOf ==
    ASSUME NEW N \in Nat, NEW S \in SUBSET (0..N), S # {}
    PROVE  Max(S) \in S /\ \A y \in S : y <= Max(S)
<1> DEFINE R == OpToRel(<, Nat)
           T == {N - x : x \in S}
<1>1. IsWellFoundedOn(R, Nat)
  BY NatLessThanWellFounded
<1>2. T \subseteq Nat /\ T # {}
  <2>1. \A x \in S : x \in 0..N
    OBVIOUS
  <2>2. \A x \in S : N - x \in Nat
    BY <2>1
  <2>3. PICK x \in S : TRUE
    OBVIOUS
  <2> QED BY <2>2, <2>3
<1>3. PICK t \in T : \A y \in T : ~ (<<y, t>> \in R)
  <2> HIDE DEF R, T
  <2> QED BY <1>1, <1>2, WFMin
<1>4. PICK x \in S : t = N - x
  OBVIOUS
<1>5. \A y \in S : x >= y
  <2> SUFFICES ASSUME NEW y \in S, ~ (x >= y) PROVE FALSE
    OBVIOUS
  <2>1. N - y \in T /\ N - y \in Nat /\ t \in Nat /\ N - y < t
    BY <1>2, <1>4
  <2>2. <<N - y, t>> \in R
    BY <2>1 DEF OpToRel
  <2> QED BY <1>3, <2>1, <2>2
<1>6. Max(S) \in S /\ \A y \in S : Max(S) >= y
  BY <1>5 DEF Max
<1> QED BY <1>6

\* The greater of two positions.
LEMMA MaxOfTwo ==
    ASSUME NEW a \in Position, NEW b \in Position
    PROVE  /\ Max({a, b}) \in {a, b}
           /\ a <= Max({a, b})
           /\ b <= Max({a, b})
<1>1. MaxPosition \in Nat
  BY GuildAssumption
<1>2. {a, b} \in SUBSET (0..MaxPosition) /\ {a, b} # {}
  BY DEF Position
<1> QED BY <1>1, <1>2, MaxPositionOf
-----------------------------------------------------------------------------
(* Authority.                                                              *)

\* The Roles that apply to a User exist, the default one among them.
LEMMA RolesOfExist ==
    ASSUME IInv, NEW u \in Users
    PROVE  /\ RolesOf(u) \subseteq Existing
           /\ Everyone \in RolesOf(u)
           /\ \A x \in Existing : role[x] \in RoleRow
<1>1. role \in [Roles -> RoleRow \cup {None}] /\ Everyone \in Existing
  BY GuildAssumption DEF IInv, GuildOK, GuildIntact, WellFormed, Existing
<1>2. \A x \in assigned[u] : x \in Existing
  BY DEF IInv, GuildOK, GuildIntact, WellFormed, Existing
<1> QED BY <1>1, <1>2 DEF RolesOf, Existing

\* What GetAccess answers, and for anyone but the Owner within what the Owner
\* has given so far.
LEMMA AccessBounded ==
    ASSUME IInv, NEW u \in Users
    PROVE  /\ Access(u) \in [perms : SUBSET Perms, top : 0..(MaxPosition + 1)]
           /\ u # Owner => Access(u).perms \subseteq granted /\ Access(u).top <= ceiling
<1> DEFINE S == {role[x].position : x \in RolesOf(u)}
           P == UNION {role[x].perms : x \in RolesOf(u)}
<1>1. MaxPosition \in Nat
  BY GuildAssumption
<1>2. CASE u = Owner
  <2>1. MaxPosition + 1 \in 0..(MaxPosition + 1)
    BY <1>1
  <2> QED BY <1>2, <2>1 DEF Access
<1>3. CASE u # Owner
  <2>1. \A x \in RolesOf(u) : /\ role[x].perms \subseteq Perms \cap granted
                              /\ role[x].position \in 0..MaxPosition
                              /\ role[x].position <= ceiling
    BY RolesOfExist DEF IInv, GuildOK, OnlyTheOwnerExtends, RoleRow, Position
  <2>2. S \in SUBSET (0..MaxPosition) /\ S # {}
    BY <2>1, RolesOfExist
  <2>3. Max(S) \in S
    <3> HIDE DEF S
    <3> QED BY <1>1, <2>2, MaxPositionOf
  <2>4. Max(S) \in 0..(MaxPosition + 1) /\ Max(S) <= ceiling
    <3>1. \A y \in S : y \in 0..MaxPosition /\ y <= ceiling
      BY <2>1
    <3> HIDE DEF S
    <3> QED BY <1>1, <2>3, <3>1
  <2>5. P \in SUBSET Perms /\ P \subseteq granted
    BY <2>1
  <2>6. Access(u) = [perms |-> P, top |-> Max(S)]
    BY <1>3 DEF Access
  <2> HIDE DEF S, P
  <2> QED BY <2>4, <2>5, <2>6
<1> QED BY <1>2, <1>3
-----------------------------------------------------------------------------
(* Requests that read or decide.                                           *)

\* A request goes on to a state that is in order; the Guild does not change.
LEMMA TaskStep ==
    ASSUME IInv, NEW r \in Requests, task' \in [Requests -> TaskType],
           \A q \in Requests \ {r} : task'[q] = task[q],
           Checked(task'[r]), Bounded(task'[r], granted, ceiling),
           UNCHANGED guildVars, started' \in 0..MaxRequests
    PROVE  IInv'
<1>1. GuildOK'
  BY DEF IInv, GuildOK, guildVars, GuildIntact, OnlyTheOwnerExtends, Existing
<1>2. granted' = granted /\ ceiling' = ceiling
  BY DEF guildVars
<1>3. ASSUME NEW q \in Requests PROVE TaskOK(task'[q], granted', ceiling')
  <2>1. CASE q = r
    BY <1>2, <2>1 DEF TaskOK
  <2>2. CASE q # r
    BY <1>2, <2>2 DEF IInv, TasksOK
  <2> QED BY <2>1, <2>2
<1>4. TasksOK'
  BY <1>3 DEF TasksOK
<1> QED BY <1>1, <1>4 DEF IInv

\* An idle request is in order.
LEMMA IdleOK ==
    ASSUME NEW g, NEW c \in Nat
    PROVE  TaskOK(Idle, g, c)
<1>1. Idle \in TaskType
  <2>1. "idle" \in Places
    BY DEF Places
  <2>2. 0 \in 0..(MaxPosition + 1)
    BY GuildAssumption
  <2> QED BY <2>1, <2>2 DEF Idle, Nobody, TaskType
<1>2. Checked(Idle)
  BY DEF Checked, Idle, OnRole, OnMember, Writing
<1>3. Bounded(Idle, g, c)
  BY DEF Bounded, Idle, Nobody, Writing
<1> QED BY <1>1, <1>2, <1>3 DEF TaskOK

\* The greatest position a Role was given is a natural number.
LEMMA CeilingNat == IInv => ceiling \in Nat
BY GuildAssumption DEF IInv, GuildOK, Position

\* A request has read its caller's authority.
LEMMA BeginIInv ==
    ASSUME IInv, NEW r \in Requests, NEW u \in Users, NEW permission, NEW place \in Places,
           NEW subject \in Roles \cup Users \cup {None},
           place \in {"create role", "find role to update", "find role to delete",
                      "get member", "rank removed"},
           place \in OnRole => subject \in Roles,
           place \in OnMember => subject \in Users,
           Begin(r, u, permission, place, subject)
    PROVE  IInv'
<1> DEFINE k == [Idle EXCEPT !.at = place, !.user = u, !.access = Access(u),
                             !.subject = subject]
<1>1. Idle \in TaskType
  BY IdleOK, CeilingNat DEF TaskOK
<1>2. k \in TaskType
  BY <1>1, AccessBounded DEF TaskType
<1>3. /\ k.at = place /\ k.user = u /\ k.access = Access(u)
      /\ k.subject = subject
  BY DEF Idle
<1>4. task' = [task EXCEPT ![r] = k] /\ UNCHANGED guildVars
  BY DEF Begin
<1>8. /\ task' \in [Requests -> TaskType]
      /\ task'[r] = k
      /\ \A q \in Requests \ {r} : task'[q] = task[q]
  <2> HIDE DEF k
  <2> QED BY <1>2, <1>4 DEF IInv, TasksOK
<1> HIDE DEF k
<1>5. Checked(k)
  BY <1>3 DEF Checked, Writing
<1>6. Bounded(k, granted, ceiling)
  BY <1>3, AccessBounded DEF Bounded, Writing
<1>7. started' \in 0..MaxRequests
  <2>1. MaxRequests \in Nat
    BY GuildAssumption
  <2>2. started \in 0..MaxRequests /\ started < MaxRequests
    BY DEF Begin, IInv
  <2>3. started' = started + 1
    BY DEF Begin
  <2> QED BY ONLY <2>1, <2>2, <2>3
<1> QED BY <1>4, <1>5, <1>6, <1>7, <1>8, TaskStep

\* A request that ends leaves everything in order.
LEMMA FailIInv ==
    ASSUME IInv, NEW r \in Requests, Fail(r)
    PROVE  IInv'
<1>1. TaskOK(Idle, granted, ceiling)
  BY IdleOK, CeilingNat
<1>2. /\ task' \in [Requests -> TaskType]
      /\ task'[r] = Idle
      /\ \A q \in Requests \ {r} : task'[q] = task[q]
  BY <1>1 DEF Fail, IInv, TasksOK, TaskOK
<1> QED BY <1>1, <1>2, TaskStep DEF Fail, TaskOK, IInv

\* A request goes on to a place whose checks it has made.
LEMMA GoIInv ==
    ASSUME IInv, NEW r \in Requests, NEW place \in Places, Go(r, place),
           Checked([task[r] EXCEPT !.at = place]), place \notin Writing
    PROVE  IInv'
<1> DEFINE k == [task[r] EXCEPT !.at = place]
<1>1. task[r] \in TaskType /\ Bounded(task[r], granted, ceiling)
  BY DEF IInv, TasksOK, TaskOK
<1>2. k \in TaskType /\ k.at = place /\ k.user = task[r].user /\ k.access = task[r].access
  BY <1>1 DEF TaskType
<1>3. Bounded(k, granted, ceiling)
  <2> HIDE DEF k
  <2> QED BY <1>1, <1>2 DEF Bounded
<1>4. /\ task' \in [Requests -> TaskType]
      /\ task'[r] = k
      /\ \A q \in Requests \ {r} : task'[q] = task[q]
  <2>1. task' = [task EXCEPT ![r] = k]
    BY DEF Go
  <2> HIDE DEF k
  <2> QED BY <1>2, <2>1 DEF IInv, TasksOK
<1>5. UNCHANGED guildVars /\ started' \in 0..MaxRequests
  BY DEF Go, IInv
<1>6. Checked(k)
  OBVIOUS
<1> HIDE DEF k
<1> QED BY <1>3, <1>4, <1>5, <1>6, TaskStep

\* The parts of the invariant about one request.
LEMMA TaskFacts ==
    ASSUME IInv, NEW r \in Requests
    PROVE  /\ task[r] \in TaskType
           /\ Checked(task[r])
           /\ Bounded(task[r], granted, ceiling)
           /\ task \in [Requests -> TaskType]
           /\ started \in 0..MaxRequests
           /\ task[r].access.top \in Int
           /\ ceiling \in Int
<1>1. task[r] \in TaskType
  BY DEF IInv, TasksOK
<1>2. task[r].access.top \in 0..(MaxPosition + 1)
  BY <1>1 DEF TaskType
<1> QED BY <1>2, CeilingNat DEF IInv, TasksOK, TaskOK

\* A Member's new Role will have only permissions they hold, at the bottom.
LEMMA CreateRoleIInv ==
    ASSUME IInv, NEW r \in Requests, NEW perms \in SUBSET Perms, CreateRole(r, perms)
    PROVE  IInv'
<1> DEFINE row == [perms |-> perms, position |-> 1]
           k == [task[r] EXCEPT !.at = "insert role", !.write = row]
<1>1. row \in RoleRow
  BY DEF CreateRole, RoleRow
<1>2. /\ k \in TaskType
      /\ k.at = "insert role" /\ k.write = row
      /\ k.user = task[r].user /\ k.access = task[r].access
  <2>1. "insert role" \in Places
    BY DEF Places
  <2> HIDE DEF row
  <2> QED BY <1>1, <2>1, TaskFacts DEF TaskType
<1>3. /\ task' \in [Requests -> TaskType]
      /\ task'[r] = k
      /\ \A q \in Requests \ {r} : task'[q] = task[q]
  <2>1. task' = [task EXCEPT ![r] = k]
    BY DEF CreateRole
  <2> HIDE DEF k
  <2> QED BY <1>2, <2>1, TaskFacts
<1>4. row.perms = perms /\ row.position = 1 /\ row.position # 0
  OBVIOUS
<1> HIDE DEF row, k
<1>5. Checked(k)
  <2>1. k.write \in RoleRow /\ k.write.position # 0
    BY <1>1, <1>2, <1>4
  <2> QED BY <1>2, <2>1 DEF Checked, OnRole, OnMember
<1>6. Bounded(k, granted, ceiling)
  <2> SUFFICES ASSUME k.user # Owner
               PROVE  /\ k.access.perms \subseteq granted /\ k.access.top <= ceiling
                      /\ k.write.perms \subseteq granted /\ k.write.position <= ceiling
    BY DEF Bounded
  <2>1. k.access.perms \subseteq granted /\ k.access.top <= ceiling
    BY <1>2, TaskFacts DEF Bounded
  <2>2. perms \subseteq k.access.perms /\ k.access.top > 1
    BY <1>2 DEF CreateRole
  <2>3. k.access.top \in Int /\ ceiling \in Int
    BY <1>2, TaskFacts
  <2>4. 1 <= ceiling
    BY ONLY <2>1, <2>2, <2>3
  <2> QED BY <1>2, <1>4, <2>1, <2>2, <2>4
<1> QED BY <1>3, <1>5, <1>6, TaskFacts, TaskStep DEF CreateRole

\* The highest position of a Role is a natural number.
LEMMA TopNat ==
    ASSUME IInv
    PROVE  Max({role[x].position : x \in Existing}) \in Nat
<1> DEFINE S == {role[x].position : x \in Existing}
<1>1. \A x \in Existing : role[x].position \in 0..MaxPosition
  <2>1. \A x \in Existing : role[x] \in RoleRow
    BY DEF IInv, GuildOK, GuildIntact, WellFormed, Existing
  <2> QED BY <2>1 DEF RoleRow, Position
<1>2. S \in SUBSET (0..MaxPosition)
  BY <1>1
<1>3. S # {}
  <2>1. Everyone \in Existing
    BY GuildAssumption DEF IInv, GuildOK, GuildIntact, WellFormed, Existing
  <2> QED BY <2>1
<1>4. MaxPosition \in Nat
  BY GuildAssumption
<1> HIDE DEF S
<1>5. Max(S) \in S
  BY <1>2, <1>3, <1>4, MaxPositionOf
<1>6. Max(S) \in Nat
  <2>1. \A y \in S : y \in Nat
    BY <1>2, <1>4
  <2> QED BY <1>5, <2>1
<1> QED BY <1>6 DEF S

\* The position above every Role there is, is not the bottom.
LEMMA CreateRoleOnTopIInv ==
    ASSUME IInv, NEW r \in Requests, NEW perms \in SUBSET Perms, CreateRoleOnTop(r, perms)
    PROVE  IInv'
<1> DEFINE top == Max({role[x].position : x \in Existing}) + 1
           row == [perms |-> perms, position |-> top]
           k == [task[r] EXCEPT !.at = "insert role", !.write = row]
<1>1. top \in Nat \ {0}
  BY TopNat
<1>2. top \in Position /\ task[r].user = Owner /\ task' = [task EXCEPT ![r] = k]
      /\ UNCHANGED guildVars /\ started' = started
  BY DEF CreateRoleOnTop
<1>3. top # 0
  BY <1>1
<1> HIDE DEF top
<1>4. row \in RoleRow /\ row.perms = perms /\ row.position = top
  BY <1>2 DEF RoleRow
<1> HIDE DEF row
<1>5. /\ k \in TaskType
      /\ k.at = "insert role" /\ k.write = row
      /\ k.user = task[r].user /\ k.access = task[r].access
  <2>1. "insert role" \in Places
    BY DEF Places
  <2> QED BY <1>4, <2>1, TaskFacts DEF TaskType
<1> HIDE DEF k
<1>6. /\ task' \in [Requests -> TaskType]
      /\ task'[r] = k
      /\ \A q \in Requests \ {r} : task'[q] = task[q]
  BY <1>2, <1>5, TaskFacts
<1>7. Checked(k)
  BY <1>3, <1>4, <1>5 DEF Checked, OnRole, OnMember
<1>8. Bounded(k, granted, ceiling)
  BY <1>2, <1>5 DEF Bounded
<1> QED BY <1>2, <1>6, <1>7, <1>8, TaskFacts, TaskStep

\* What UpdateRole may write is bounded by what the Role has and what the caller
\* has, and keeps the default Role at the bottom.
LEMMA UpdateRoleIInv ==
    ASSUME IInv, NEW r \in Requests, NEW new \in RoleRow, UpdateRole(r, new)
    PROVE  IInv'
<1> DEFINE x == task[r].subject
           k == [task[r] EXCEPT !.at = "update role", !.write = new]
<1>1. /\ task[r].at = "find role to update"
      /\ role[x] # None
      /\ MayUpdate(task[r].access, x, role[x], new)
      /\ task' = [task EXCEPT ![r] = k]
      /\ UNCHANGED <<guildVars, started>>
  BY DEF UpdateRole
<1>2. /\ k \in TaskType
      /\ k.at = "update role" /\ k.write = new /\ k.subject = x
      /\ k.user = task[r].user /\ k.access = task[r].access
  <2>1. "update role" \in Places
    BY DEF Places
  <2> QED BY <2>1, TaskFacts DEF TaskType
<1>3. x \in Roles /\ x \in Existing
  <2>1. x \in Roles
    BY <1>1, TaskFacts DEF Checked, OnRole
  <2> QED BY <1>1, <2>1 DEF Existing
<1> HIDE DEF x, k
<1>4. role[x] \in RoleRow /\ role[x].perms \subseteq granted /\ role[x].position <= ceiling
      /\ (role[x].position = 0 <=> x = Everyone)
  BY <1>1, <1>3, RolesOfExist, GuildAssumption
     DEF IInv, GuildOK, GuildIntact, WellFormed, OnlyTheOwnerExtends
<1>5. /\ task' \in [Requests -> TaskType]
      /\ task'[r] = k
      /\ \A q \in Requests \ {r} : task'[q] = task[q]
  BY <1>1, <1>2, TaskFacts
<1>6. new.position \in Int /\ role[x].position \in Int
  <2>1. new.position \in 0..MaxPosition /\ role[x].position \in 0..MaxPosition
    BY <1>4 DEF RoleRow, Position
  <2> QED BY <2>1
<1>7. new.position # role[x].position =>
        x # Everyone /\ new.position >= 1 /\ task[r].access.top > new.position
  BY <1>1 DEF MayUpdate
<1>8. new.position = 0 <=> x = Everyone
  <2>1. CASE new.position = role[x].position
    BY <1>4, <2>1
  <2>2. CASE new.position # role[x].position
    <3>1. x # Everyone /\ new.position >= 1
      BY <1>7, <2>2
    <3>2. new.position # 0
      BY ONLY <3>1, <1>6
    <3> QED BY <3>1, <3>2
  <2> QED BY <2>1, <2>2
<1>9. Checked(k)
  BY <1>2, <1>3, <1>8 DEF Checked, OnRole, OnMember, Writing
<1>10. Bounded(k, granted, ceiling)
  <2> SUFFICES ASSUME k.user # Owner
               PROVE  /\ k.access.perms \subseteq granted /\ k.access.top <= ceiling
                      /\ k.write.perms \subseteq granted /\ k.write.position <= ceiling
    BY DEF Bounded
  <2>1. k.access.perms \subseteq granted /\ k.access.top <= ceiling
    BY <1>2, TaskFacts DEF Bounded
  <2>2. new.perms \subseteq role[x].perms \cup k.access.perms
    BY <1>1, <1>2 DEF MayUpdate
  <2>3. new.perms \subseteq granted
    BY <1>4, <2>1, <2>2
  <2>4. new.position <= ceiling
    <3>1. CASE new.position = role[x].position
      BY <1>4, <3>1
    <3>2. CASE new.position # role[x].position
      <4>1. k.access.top > new.position /\ k.access.top \in Int /\ ceiling \in Int
        BY <1>2, <1>7, <3>2, TaskFacts
      <4> QED BY ONLY <4>1, <2>1, <1>6
    <3> QED BY <3>1, <3>2
  <2> QED BY <1>2, <2>1, <2>3, <2>4
<1> QED BY <1>1, <1>5, <1>9, <1>10, TaskFacts, TaskStep

\* The default Role is never about to be deleted.
LEMMA DeleteRoleIInv ==
    ASSUME IInv, NEW r \in Requests, DeleteRole(r)
    PROVE  IInv'
<1> DEFINE k == [task[r] EXCEPT !.at = "delete role"]
<1>1. /\ task[r].subject \in Roles /\ task[r].subject # Everyone
      /\ Go(r, "delete role")
  BY TaskFacts DEF DeleteRole, Checked, OnRole
<1>2. k.at = "delete role" /\ k.subject = task[r].subject
  BY TaskFacts DEF TaskType
<1> HIDE DEF k
<1>3. Checked(k)
  BY <1>1, <1>2 DEF Checked, OnRole, OnMember, Writing
<1>4. "delete role" \in Places \ Writing
  BY DEF Places, Writing
<1> QED BY <1>1, <1>3, <1>4, GoIInv DEF k

\* A Member's Roles have been read.
LEMMA GetMemberIInv ==
    ASSUME IInv, NEW r \in Requests, GetMember(r)
    PROVE  IInv'
<1> DEFINE u == task[r].subject
           place == IF u = task[r].user THEN "assign roles" ELSE "rank member"
           k == [task[r] EXCEPT !.at = place, !.roles = assigned[u]]
<1>1. task' = [task EXCEPT ![r] = k] /\ UNCHANGED <<guildVars, started>>
  BY DEF GetMember
<1>2. place \in Places /\ place \in {"assign roles", "rank member"}
  BY DEF Places
<1> HIDE DEF place
<1>3. u \in Users
  BY TaskFacts DEF GetMember, Checked, OnMember
<1>4. assigned[u] \in SUBSET Roles
  BY <1>3 DEF IInv, GuildOK
<1>5. /\ k \in TaskType
      /\ k.at = place /\ k.subject = u
      /\ k.user = task[r].user /\ k.access = task[r].access
  BY <1>2, <1>4, TaskFacts DEF TaskType
<1> HIDE DEF k
<1>6. /\ task' \in [Requests -> TaskType]
      /\ task'[r] = k
      /\ \A q \in Requests \ {r} : task'[q] = task[q]
  BY <1>1, <1>5, TaskFacts
<1>7. Checked(k)
  BY <1>2, <1>3, <1>5 DEF Checked, OnRole, Writing
<1>8. Bounded(k, granted, ceiling)
  BY <1>2, <1>5, TaskFacts DEF Bounded, Writing
<1> QED BY <1>1, <1>6, <1>7, <1>8, TaskFacts, TaskStep

\* The Owner is never about to be removed.
LEMMA RankMemberIInv ==
    ASSUME IInv, NEW r \in Requests, RankMember(r)
    PROVE  IInv'
<1> DEFINE place == IF task[r].at = "rank member" THEN "assign roles" ELSE "remove member"
           k == [task[r] EXCEPT !.at = place]
<1>1. /\ task[r].subject \in Users /\ task[r].subject # Owner
      /\ Go(r, place)
  BY TaskFacts DEF RankMember, OutranksMember, Checked, OnMember
<1>2. place \in Places \ Writing /\ place \in {"assign roles", "remove member"}
  BY DEF Places, Writing
<1> HIDE DEF place
<1>3. k.at = place /\ k.subject = task[r].subject
  BY TaskFacts DEF TaskType
<1> HIDE DEF k
<1>4. Checked(k)
  BY <1>1, <1>2, <1>3 DEF Checked, OnRole, OnMember, Writing
<1> QED BY <1>1, <1>2, <1>4, GoIInv DEF k

\* The default Role is never about to be assigned.
LEMMA AssignRolesIInv ==
    ASSUME IInv, NEW r \in Requests, NEW next \in SUBSET Roles, AssignRoles(r, next)
    PROVE  IInv'
<1> DEFINE k == [task[r] EXCEPT !.at = "clear roles", !.roles = next]
<1>1. /\ task' = [task EXCEPT ![r] = k] /\ UNCHANGED <<guildVars, started>>
      /\ Everyone \notin next
  BY DEF AssignRoles, MayAssign
<1>2. task[r].subject \in Users
  BY TaskFacts DEF AssignRoles, Checked, OnMember
<1>3. /\ k \in TaskType
      /\ k.at = "clear roles" /\ k.subject = task[r].subject /\ k.roles = next
      /\ k.user = task[r].user /\ k.access = task[r].access
  <2>1. "clear roles" \in Places
    BY DEF Places
  <2> QED BY <2>1, TaskFacts DEF TaskType
<1> HIDE DEF k
<1>4. /\ task' \in [Requests -> TaskType]
      /\ task'[r] = k
      /\ \A q \in Requests \ {r} : task'[q] = task[q]
  BY <1>1, <1>3, TaskFacts
<1>5. Checked(k)
  BY <1>1, <1>2, <1>3 DEF Checked, OnRole, Writing
<1>6. Bounded(k, granted, ceiling)
  BY <1>3, TaskFacts DEF Bounded, Writing
<1> QED BY <1>1, <1>4, <1>5, <1>6, TaskFacts, TaskStep

\* SetMemberRoles has deleted what its statement saw.
LEMMA ClearRolesIInv ==
    ASSUME IInv, NEW r \in Requests, ClearRoles(r)
    PROVE  IInv'
<1> DEFINE k == [task[r] EXCEPT !.at = "set roles", !.cleared = assigned[task[r].subject]]
<1>1. task' = [task EXCEPT ![r] = k] /\ UNCHANGED <<guildVars, started>>
  BY DEF ClearRoles
<1>2. task[r].subject \in Users /\ Everyone \notin task[r].roles
  BY TaskFacts DEF ClearRoles, Checked, OnMember
<1>3. assigned[task[r].subject] \in SUBSET Roles
  BY <1>2 DEF IInv, GuildOK
<1>4. /\ k \in TaskType
      /\ k.at = "set roles" /\ k.subject = task[r].subject /\ k.roles = task[r].roles
      /\ k.user = task[r].user /\ k.access = task[r].access
  <2>1. "set roles" \in Places
    BY DEF Places
  <2> QED BY <1>3, <2>1, TaskFacts DEF TaskType
<1> HIDE DEF k
<1>5. /\ task' \in [Requests -> TaskType]
      /\ task'[r] = k
      /\ \A q \in Requests \ {r} : task'[q] = task[q]
  BY <1>1, <1>4, TaskFacts
<1>6. Checked(k)
  BY <1>2, <1>4 DEF Checked, OnRole, Writing
<1>7. Bounded(k, granted, ceiling)
  BY <1>4, TaskFacts DEF Bounded, Writing
<1> QED BY <1>1, <1>5, <1>6, <1>7, TaskFacts, TaskStep
-----------------------------------------------------------------------------
(* Requests that write.                                                    *)

\* Requests under way stay in order when the Guild changes: what the Owner has
\* given never shrinks, and of what they know only "alone" and "cleared" change.
LEMMA DisturbedOK ==
    ASSUME IInv, NEW gone \in [Users -> SUBSET Roles], NEW q \in Requests,
           granted \subseteq granted', ceiling' \in Position, ceiling <= ceiling'
    PROVE  TaskOK(Disturbed(gone)[q], granted', ceiling')
<1> DEFINE taken == UNION {gone[u] : u \in {task[q].subject} \cap Users}
           k == [task[q] EXCEPT !.alone = FALSE, !.cleared = @ \ taken]
<1>1. ceiling \in Int /\ ceiling' \in Nat
  BY CeilingNat, GuildAssumption DEF Position
<1>2. CASE task[q] = Idle
  <2>1. Disturbed(gone)[q] = Idle
    BY <1>2 DEF Disturbed
  <2> QED BY <1>1, <2>1, IdleOK
<1>3. CASE task[q] # Idle
  <2>1. Disturbed(gone)[q] = k
    BY <1>3 DEF Disturbed
  <2> HIDE DEF taken
  <2>2. /\ k \in TaskType
        /\ k.at = task[q].at /\ k.user = task[q].user /\ k.access = task[q].access
        /\ k.subject = task[q].subject /\ k.roles = task[q].roles
        /\ k.write = task[q].write
    BY TaskFacts DEF TaskType
  <2> HIDE DEF k
  <2>3. Checked(k)
    BY <2>2, TaskFacts DEF Checked
  <2>4. ASSUME k.user # Owner
        PROVE  /\ k.access.perms \subseteq granted' /\ k.access.top <= ceiling'
               /\ k.at \in Writing => k.write.perms \subseteq granted' /\ k.write.position <= ceiling'
    <3>1. /\ k.access.perms \subseteq granted /\ k.access.top <= ceiling
          /\ k.at \in Writing => k.write.perms \subseteq granted /\ k.write.position <= ceiling
      BY <2>2, <2>4, TaskFacts DEF Bounded
    <3>2. k.access.top <= ceiling'
      <4>1. k.access.top \in Int
        BY <2>2, TaskFacts
      <4>2. k.access.top <= ceiling
        BY <3>1
      <4> QED BY ONLY <4>1, <4>2, <1>1, ceiling <= ceiling'
    <3>3. k.at \in Writing => k.write.position <= ceiling'
      <4> SUFFICES ASSUME k.at \in Writing PROVE k.write.position <= ceiling'
        OBVIOUS
      <4>1. k.write.position \in 0..MaxPosition
        BY <2>3 DEF Checked, RoleRow, Position
      <4>2. k.write.position <= ceiling
        BY <3>1
      <4> QED BY ONLY <4>1, <4>2, <1>1, ceiling <= ceiling'
    <3> QED BY <3>1, <3>2, <3>3
  <2>5. Bounded(k, granted', ceiling')
    BY <2>4 DEF Bounded
  <2> QED BY <2>1, <2>2, <2>3, <2>5 DEF TaskOK
<1> QED BY <1>2, <1>3

\* A request that writes is over; the others are disturbed.
LEMMA CommittedOK ==
    ASSUME IInv, NEW gone \in [Users -> SUBSET Roles], NEW r \in Requests,
           granted \subseteq granted', ceiling' \in Position, ceiling <= ceiling',
           task' \in {Disturbed(gone), [Disturbed(gone) EXCEPT ![r] = Idle]}
    PROVE  TasksOK'
<1>1. \A q \in Requests : TaskOK(Disturbed(gone)[q], granted', ceiling')
  BY DisturbedOK
<1>2. TaskOK(Idle, granted', ceiling')
  BY IdleOK, GuildAssumption DEF Position
<1>3. DOMAIN Disturbed(gone) = Requests /\ Disturbed(gone) = [q \in Requests |-> Disturbed(gone)[q]]
  BY DEF Disturbed
<1>4. /\ DOMAIN task' = Requests
      /\ task' = [q \in Requests |-> task'[q]]
      /\ \A q \in Requests : task'[q] \in {Disturbed(gone)[q], Idle}
  BY <1>3
<1>5. \A q \in Requests : TaskOK(task'[q], granted', ceiling')
  BY <1>1, <1>2, <1>4
<1>6. \A q \in Requests : task'[q] \in TaskType
  BY <1>5 DEF TaskOK
<1>7. task' \in [Requests -> TaskType]
  BY <1>4, <1>6
<1> QED BY <1>5, <1>7 DEF TasksOK

\* What a request writes into a Role is accounted for: by the Owner it counts as
\* given, by anyone else it was given before.
LEMMA WrittenIsGranted ==
    ASSUME IInv, NEW r \in Requests, task[r].at \in Writing, OwnerWrites(r)
    PROVE  /\ granted \subseteq granted' /\ granted' \subseteq Perms
           /\ ceiling' \in Position /\ ceiling <= ceiling'
           /\ task[r].write \in RoleRow
           /\ task[r].write.perms \subseteq granted'
           /\ task[r].write.position <= ceiling'
<1>1. task[r].write \in RoleRow
  BY TaskFacts DEF Checked
<1>2. task[r].write.perms \subseteq Perms /\ task[r].write.position \in Position
  BY <1>1 DEF RoleRow
<1>3. granted \subseteq Perms /\ ceiling \in Position
  BY DEF IInv, GuildOK
<1>4. CASE task[r].user = Owner
  <2>1. granted' = granted \cup task[r].write.perms
    BY <1>4 DEF OwnerWrites
  <2>2. ceiling' = Max({ceiling, task[r].write.position})
    BY <1>4 DEF OwnerWrites
  <2>3. ceiling' \in Position /\ ceiling <= ceiling' /\ task[r].write.position <= ceiling'
    BY <1>2, <1>3, <2>2, MaxOfTwo
  <2> QED BY <1>1, <1>2, <1>3, <2>1, <2>3
<1>5. CASE task[r].user # Owner
  <2>1. granted' = granted /\ ceiling' = ceiling
    BY <1>5 DEF OwnerWrites
  <2>2. task[r].write.perms \subseteq granted /\ task[r].write.position <= ceiling
    BY <1>5, TaskFacts DEF Bounded
  <2>3. ceiling <= ceiling
    BY CeilingNat
  <2> QED BY <1>1, <1>3, <2>1, <2>2, <2>3
<1> QED BY <1>4, <1>5

\* A Role is written: the Guild stays in order if the row keeps the default Role
\* at the bottom and nobody loses it.
LEMMA RowWritten ==
    ASSUME IInv, NEW r \in Requests, NEW x \in Roles,
           task[r].at \in Writing, OwnerWrites(r), x \notin deleted,
           task[r].write.position = 0 <=> x = Everyone,
           role' = [role EXCEPT ![x] = task[r].write],
           UNCHANGED <<members, assigned, deleted>>
    PROVE  GuildOK'
<1> DEFINE w == task[r].write
<1>1. /\ granted \subseteq granted' /\ granted' \subseteq Perms
      /\ ceiling' \in Position /\ ceiling <= ceiling'
      /\ w \in RoleRow /\ w.perms \subseteq granted' /\ w.position <= ceiling'
  BY WrittenIsGranted
<1>2. w # None
  BY <1>1, GuildAssumption
<1>3. role' = [role EXCEPT ![x] = w]
  OBVIOUS
<1> HIDE DEF w
<1>4. /\ role \in [Roles -> RoleRow \cup {None}]
      /\ Owner \in members /\ members \subseteq Users
      /\ assigned \in [Users -> SUBSET (Roles \ {Everyone})]
      /\ role[Everyone] # None
      /\ \A y \in Roles : role[y] # None => (role[y].position = 0 <=> y = Everyone)
      /\ \A u \in Users : \A y \in assigned[u] : role[y] # None
      /\ \A u \in Users : assigned[u] # {} => u \in members
  BY DEF IInv, GuildOK, GuildIntact, WellFormed
<1>5. \A y \in Roles : role'[y] = IF y = x THEN w ELSE role[y]
  BY <1>3, <1>4
<1>6. role' \in [Roles -> RoleRow \cup {None}]
  BY <1>1, <1>3, <1>4
<1>7. w.position = 0 <=> x = Everyone
  BY DEF w
<1>8. GuildIntact'
  <2>1. role'[Everyone] # None
    BY <1>2, <1>4, <1>5, GuildAssumption
  <2>2. \A y \in Roles : role'[y] # None => (role'[y].position = 0 <=> y = Everyone)
    BY <1>4, <1>5, <1>7
  <2>3. \A u \in Users : \A y \in assigned'[u] : role'[y] # None
    BY <1>2, <1>4, <1>5
  <2> QED BY <1>4, <1>6, <2>1, <2>2, <2>3 DEF GuildIntact, WellFormed
<1>9. OnlyTheOwnerExtends'
  <2> SUFFICES ASSUME NEW y \in Roles, role'[y] # None
               PROVE  role'[y].perms \subseteq granted' /\ role'[y].position <= ceiling'
    BY DEF OnlyTheOwnerExtends, Existing
  <2>1. CASE y = x
    BY <1>1, <1>5, <2>1
  <2>2. CASE y # x
    <3>1. role'[y] = role[y] /\ y \in Existing
      BY <1>5, <2>2 DEF Existing
    <3>2. role[y].perms \subseteq granted /\ role[y].position <= ceiling
      BY <3>1 DEF IInv, GuildOK, OnlyTheOwnerExtends
    <3>3. role[y].position \in 0..MaxPosition
      BY <3>1, RolesOfExist, GuildAssumption DEF RoleRow, Position
    <3>4. ceiling \in Int /\ ceiling' \in Int
      BY <1>1, CeilingNat DEF Position
    <3>5. role[y].position <= ceiling'
      BY ONLY <3>2, <3>3, <3>4, <1>1
    <3> QED BY <1>1, <3>1, <3>2, <3>5
  <2> QED BY <2>1, <2>2
<1>10. assigned' \in [Users -> SUBSET Roles] /\ deleted' \subseteq Roles \ Existing'
  <2>1. deleted \subseteq Roles \ Existing
    BY DEF IInv, GuildOK
  <2>2. Existing' \subseteq Existing \cup {x}
    BY <1>5 DEF Existing
  <2> QED BY <1>4, <2>1, <2>2
<1> QED BY <1>1, <1>8, <1>9, <1>10 DEF GuildOK

\* A new Role is above the default one and within what was granted.
LEMMA InsertRoleIInv ==
    ASSUME IInv, NEW r \in Requests, NEW x \in Roles, InsertRole(r, x)
    PROVE  IInv'
<1>1. task[r].at = "insert role" /\ task[r].at \in Writing
  BY DEF InsertRole, Writing
<1>2. x # Everyone
  BY DEF InsertRole, IInv, GuildOK, GuildIntact, WellFormed
<1>3. task[r].write.position # 0
  BY <1>1, TaskFacts DEF Checked
<1>4. OwnerWrites(r) /\ Committed(r, Nothing)
  BY DEF InsertRole
<1>5. GuildOK'
  BY <1>1, <1>2, <1>3, RowWritten DEF InsertRole
<1>6. Nothing \in [Users -> SUBSET Roles]
  BY DEF Nothing
<1>7. TasksOK' /\ started' \in 0..MaxRequests
  BY <1>1, <1>4, <1>6, WrittenIsGranted, CommittedOK, TaskFacts DEF Committed
<1> QED BY <1>5, <1>7 DEF IInv

\* A Role that is changed stays on its side of the default one, and within what
\* was granted.
LEMMA WriteRoleIInv ==
    ASSUME IInv, NEW r \in Requests, WriteRole(r)
    PROVE  IInv'
<1> DEFINE x == task[r].subject
<1>1. task[r].at = "update role" /\ task[r].at \in Writing
  BY DEF WriteRole, Writing
<1>2. x \in Roles /\ (task[r].write.position = 0 <=> x = Everyone)
  BY <1>1, TaskFacts DEF Checked, OnRole
<1>3. x \notin deleted
  BY <1>2 DEF WriteRole, IInv, GuildOK, Existing
<1>4. OwnerWrites(r) /\ Committed(r, Nothing)
  BY DEF WriteRole
<1>5. role' = [role EXCEPT ![x] = task[r].write] /\ UNCHANGED <<members, assigned, deleted>>
  BY DEF WriteRole
<1> HIDE DEF x
<1>6. GuildOK'
  BY <1>1, <1>2, <1>3, <1>4, <1>5, RowWritten
<1>7. Nothing \in [Users -> SUBSET Roles]
  BY DEF Nothing
<1>8. TasksOK' /\ started' \in 0..MaxRequests
  BY <1>1, <1>4, <1>7, WrittenIsGranted, CommittedOK, TaskFacts DEF Committed
<1> QED BY <1>6, <1>8 DEF IInv

\* A change of the memberships or assignments, or the deletion of a Role, gives
\* nothing to anyone.
LEMMA NothingGiven ==
    ASSUME IInv, UNCHANGED <<granted, ceiling>>,
           \A x \in Existing' : x \in Existing /\ role'[x] = role[x]
    PROVE  /\ granted \subseteq granted' /\ ceiling' \in Position /\ ceiling <= ceiling'
           /\ granted' \subseteq Perms
           /\ OnlyTheOwnerExtends'
<1>1. ceiling \in Int /\ ceiling <= ceiling
  BY CeilingNat
<1> QED BY <1>1 DEF IInv, GuildOK, OnlyTheOwnerExtends

\* A Role that goes takes its assignments with it, and is not the default one.
LEMMA EraseRoleIInv ==
    ASSUME IInv, NEW r \in Requests, EraseRole(r)
    PROVE  IInv'
<1> DEFINE x == task[r].subject
           gone == [u \in Users |-> {x}]
<1>1. /\ role[x] # None
      /\ role' = [role EXCEPT ![x] = None]
      /\ assigned' = [u \in Users |-> assigned[u] \ {x}]
      /\ deleted' = deleted \cup {x}
      /\ Committed(r, gone)
      /\ UNCHANGED <<members, granted, ceiling>>
  BY DEF EraseRole
<1>2. x \in Roles /\ x # Everyone
  BY TaskFacts DEF EraseRole, Checked, OnRole
<1> HIDE DEF x
<1>3. gone \in [Users -> SUBSET Roles]
  BY <1>2
<1> HIDE DEF gone
<1>4. /\ role \in [Roles -> RoleRow \cup {None}]
      /\ Owner \in members /\ members \subseteq Users
      /\ assigned \in [Users -> SUBSET (Roles \ {Everyone})]
      /\ role[Everyone] # None
      /\ \A y \in Roles : role[y] # None => (role[y].position = 0 <=> y = Everyone)
      /\ \A u \in Users : \A y \in assigned[u] : role[y] # None
      /\ \A u \in Users : assigned[u] # {} => u \in members
  BY DEF IInv, GuildOK, GuildIntact, WellFormed
<1>5. /\ role' \in [Roles -> RoleRow \cup {None}]
      /\ \A y \in Roles : role'[y] = IF y = x THEN None ELSE role[y]
  BY <1>1, <1>4
<1>6. /\ assigned' \in [Users -> SUBSET (Roles \ {Everyone})]
      /\ \A u \in Users : assigned'[u] = assigned[u] \ {x}
  BY <1>1, <1>4
<1>7. GuildIntact'
  <2>1. role'[Everyone] # None
    BY <1>2, <1>4, <1>5, GuildAssumption
  <2>2. \A y \in Roles : role'[y] # None => (role'[y].position = 0 <=> y = Everyone)
    BY <1>4, <1>5
  <2>3. \A u \in Users : \A y \in assigned'[u] : role'[y] # None
    BY <1>4, <1>5, <1>6
  <2>4. \A u \in Users : assigned'[u] # {} => u \in members'
    BY <1>1, <1>4, <1>6
  <2> QED BY <1>1, <1>4, <1>5, <1>6, <2>1, <2>2, <2>3, <2>4 DEF GuildIntact, WellFormed
<1>8. /\ granted \subseteq granted' /\ ceiling' \in Position /\ ceiling <= ceiling'
      /\ granted' \subseteq Perms /\ OnlyTheOwnerExtends'
  <2>1. \A y \in Existing' : y \in Existing /\ role'[y] = role[y]
    BY <1>5 DEF Existing
  <2> QED BY <1>1, <2>1, NothingGiven
<1>9. deleted' \subseteq Roles \ Existing'
  BY <1>1, <1>2, <1>5 DEF IInv, GuildOK, Existing
<1>10. assigned' \in [Users -> SUBSET Roles]
  BY <1>6
<1>11. GuildOK'
  BY <1>7, <1>8, <1>9, <1>10 DEF GuildOK
<1>12. TasksOK' /\ started' \in 0..MaxRequests
  BY <1>1, <1>3, <1>8, CommittedOK, TaskFacts DEF Committed
<1> QED BY <1>11, <1>12 DEF IInv

\* The Roles stay as they are; assignments are of existing Roles to Members.
LEMMA MembersChanged ==
    ASSUME IInv, UNCHANGED <<role, deleted, granted, ceiling>>,
           Owner \in members', members' \subseteq Users,
           assigned' \in [Users -> SUBSET (Existing \ {Everyone})],
           \A u \in Users : assigned'[u] # {} => u \in members'
    PROVE  /\ GuildOK'
           /\ granted \subseteq granted' /\ ceiling' \in Position /\ ceiling <= ceiling'
<1>1. Existing' = Existing /\ Existing \subseteq Roles
  BY DEF Existing
<1>2. /\ granted \subseteq granted' /\ ceiling' \in Position /\ ceiling <= ceiling'
      /\ granted' \subseteq Perms /\ OnlyTheOwnerExtends'
  BY <1>1, NothingGiven
<1>3. assigned' \in [Users -> SUBSET (Roles \ {Everyone})]
  BY <1>1
<1>4. \A u \in Users : \A y \in assigned'[u] : role[y] # None
  BY DEF Existing
<1>5. GuildIntact'
  BY <1>3, <1>4 DEF IInv, GuildOK, GuildIntact, WellFormed
<1>6. deleted' \subseteq Roles \ Existing'
  BY <1>1 DEF IInv, GuildOK
<1> QED BY <1>2, <1>3, <1>5, <1>6 DEF GuildOK

\* Members hold existing Roles, and the default one is not assigned.
LEMMA AssignedExist ==
    ASSUME IInv
    PROVE  /\ assigned \in [Users -> SUBSET (Existing \ {Everyone})]
           /\ \A u \in Users : assigned[u] # {} => u \in members
           /\ Owner \in members /\ members \subseteq Users
BY DEF IInv, GuildOK, GuildIntact, WellFormed, Existing

\* A Member is assigned Roles that exist.
LEMMA SetRolesIInv ==
    ASSUME IInv, NEW r \in Requests, SetRoles(r)
    PROVE  IInv'
<1> DEFINE u == task[r].subject
           new == (assigned[u] \ task[r].cleared) \cup task[r].roles
           gone == [Nothing EXCEPT ![u] = task[r].cleared]
<1>1. /\ u \in members
      /\ task[r].roles \subseteq Existing
      /\ assigned' = [assigned EXCEPT ![u] = new]
      /\ Committed(r, gone)
      /\ UNCHANGED <<members, role, deleted, granted, ceiling>>
  BY DEF SetRoles
<1>2. u \in Users /\ Everyone \notin task[r].roles /\ task[r].cleared \in SUBSET Roles
  BY TaskFacts DEF SetRoles, Checked, OnMember, TaskType
<1>3. new \in SUBSET (Existing \ {Everyone})
  BY <1>1, <1>2, AssignedExist
<1>4. gone \in [Users -> SUBSET Roles]
  BY <1>2 DEF Nothing
<1> HIDE DEF u, new, gone
<1>5. /\ assigned' \in [Users -> SUBSET (Existing \ {Everyone})]
      /\ \A v \in Users : assigned'[v] # {} => v \in members
  BY <1>1, <1>2, <1>3, AssignedExist
<1>6. GuildOK' /\ granted \subseteq granted' /\ ceiling' \in Position /\ ceiling <= ceiling'
  BY <1>1, <1>5, AssignedExist, MembersChanged
<1>7. TasksOK' /\ started' \in 0..MaxRequests
  BY <1>1, <1>4, <1>6, CommittedOK, TaskFacts DEF Committed
<1> QED BY <1>6, <1>7 DEF IInv

\* A Member other than the Owner goes, with their assignments.
LEMMA RemovedOK ==
    ASSUME IInv, NEW u \in Users, u # Owner, Removed(u)
    PROVE  /\ GuildOK'
           /\ granted \subseteq granted' /\ ceiling' \in Position /\ ceiling <= ceiling'
           /\ [Nothing EXCEPT ![u] = assigned[u]] \in [Users -> SUBSET Roles]
<1>1. /\ Owner \in members' /\ members' \subseteq Users
      /\ assigned' \in [Users -> SUBSET (Existing \ {Everyone})]
      /\ \A v \in Users : assigned'[v] # {} => v \in members'
  BY AssignedExist DEF Removed
<1>2. [Nothing EXCEPT ![u] = assigned[u]] \in [Users -> SUBSET Roles]
  BY AssignedExist DEF Nothing, Existing
<1> QED BY <1>1, <1>2, MembersChanged DEF Removed

\* A Member who is removed is not the Owner and loses their Roles.
LEMMA RemoveMemberIInv ==
    ASSUME IInv, NEW r \in Requests, RemoveMember(r)
    PROVE  IInv'
<1> DEFINE u == task[r].subject
           gone == [Nothing EXCEPT ![u] = assigned[u]]
<1>1. u \in Users /\ u # Owner
  BY TaskFacts DEF RemoveMember, Checked, OnMember
<1>2. Removed(u) /\ Committed(r, gone)
  BY DEF RemoveMember
<1> HIDE DEF u
<1>3. /\ GuildOK'
      /\ granted \subseteq granted' /\ ceiling' \in Position /\ ceiling <= ceiling'
      /\ gone \in [Users -> SUBSET Roles]
  BY <1>1, <1>2, RemovedOK
<1> HIDE DEF gone
<1>4. TasksOK' /\ started' \in 0..MaxRequests
  BY <1>2, <1>3, CommittedOK, TaskFacts DEF Committed
<1> QED BY <1>3, <1>4 DEF IInv

\* One more request has begun, which was possible.
LEMMA OneMore ==
    ASSUME IInv, started < MaxRequests, started' = started + 1
    PROVE  started' \in 0..MaxRequests
<1>1. started \in 0..MaxRequests
  BY DEF IInv
<1>2. MaxRequests \in Nat
  BY GuildAssumption
<1> QED BY ONLY <1>1, <1>2, started < MaxRequests, started' = started + 1

\* So does one who leaves.
LEMMA LeaveGuildIInv ==
    ASSUME IInv, NEW r \in Requests, NEW u \in Users, LeaveGuild(r, u)
    PROVE  IInv'
<1> DEFINE gone == [Nothing EXCEPT ![u] = assigned[u]]
<1>1. u # Owner /\ Removed(u) /\ task' = Disturbed(gone)
  BY DEF LeaveGuild
<1>2. /\ GuildOK'
      /\ granted \subseteq granted' /\ ceiling' \in Position /\ ceiling <= ceiling'
      /\ gone \in [Users -> SUBSET Roles]
  BY <1>1, RemovedOK
<1> HIDE DEF gone
<1>3. TasksOK'
  BY <1>1, <1>2, CommittedOK
<1>4. started' \in 0..MaxRequests
  BY OneMore DEF LeaveGuild
<1> QED BY <1>2, <1>3, <1>4 DEF IInv

\* A new Member has no Roles but the default one.
LEMMA AcceptInviteIInv ==
    ASSUME IInv, NEW r \in Requests, NEW u \in Users, AcceptInvite(r, u)
    PROVE  IInv'
<1>1. /\ members' = members \cup {u} /\ task' = Disturbed(Nothing)
      /\ UNCHANGED <<role, assigned, deleted, granted, ceiling>>
  BY DEF AcceptInvite
<1>2. GuildOK' /\ granted \subseteq granted' /\ ceiling' \in Position /\ ceiling <= ceiling'
  BY <1>1, AssignedExist, MembersChanged
<1>3. Nothing \in [Users -> SUBSET Roles]
  BY DEF Nothing
<1>4. TasksOK'
  BY <1>1, <1>2, <1>3, CommittedOK
<1>5. started' \in 0..MaxRequests
  BY OneMore DEF AcceptInvite
<1> QED BY <1>2, <1>4, <1>5 DEF IInv
-----------------------------------------------------------------------------
(* The theorems.                                                           *)

\* The Guilds to begin with are in order.
LEMMA InitIInv == Init => IInv
<1> SUFFICES ASSUME Init PROVE IInv
  OBVIOUS
<1>1. GuildIntact
  <2>1. PICK g \in Guilds : members = g.members /\ role = g.role /\ assigned = g.assigned
    BY DEF Init
  <2>2. WellFormed(g.role, g.assigned, g.members)
    BY GuildAssumption
  <2> QED BY <2>1, <2>2 DEF GuildIntact
<1>2. \A x \in Existing : role[x] \in RoleRow
  BY <1>1 DEF GuildIntact, WellFormed, Existing
<1>3. Everyone \in Existing
  BY <1>1, GuildAssumption DEF GuildIntact, WellFormed, Existing
<1> DEFINE S == {role[x].position : x \in Existing}
<1>4. ceiling \in S /\ \A y \in S : y <= ceiling
  <2>1. S \in SUBSET (0..MaxPosition) /\ S # {}
    BY <1>2, <1>3 DEF RoleRow, Position
  <2>2. MaxPosition \in Nat
    BY GuildAssumption
  <2>3. ceiling = Max(S)
    BY DEF Init
  <2> HIDE DEF S
  <2> QED BY <2>1, <2>2, <2>3, MaxPositionOf
<1>5. ceiling \in Position
  BY <1>2, <1>4 DEF RoleRow
<1>6. granted = UNION {role[x].perms : x \in Existing}
  BY DEF Init
<1>7. granted \subseteq Perms /\ OnlyTheOwnerExtends
  BY <1>2, <1>4, <1>6 DEF RoleRow, OnlyTheOwnerExtends
<1>8. assigned \in [Users -> SUBSET Roles] /\ deleted = {}
  BY <1>1 DEF GuildIntact, WellFormed, Init
<1>9. GuildOK
  BY <1>1, <1>5, <1>7, <1>8 DEF GuildOK
<1>10. TasksOK
  <2>1. TaskOK(Idle, granted, ceiling)
    BY <1>5, IdleOK, GuildAssumption DEF Position
  <2> QED BY <2>1 DEF Init, TasksOK, TaskOK
<1>11. started \in 0..MaxRequests
  BY GuildAssumption DEF Init
<1> QED BY <1>9, <1>10, <1>11 DEF IInv

\* Every request begins in order.
LEMMA StartIInv ==
    ASSUME IInv, NEW r \in Requests, NEW u \in Users, Start(r, u)
    PROVE  IInv'
<1>1. CASE Begin(r, u, ManageRoles, "create role", None)
  BY <1>1, BeginIInv DEF Places, OnRole, OnMember
<1>2. ASSUME NEW x \in Roles, Begin(r, u, ManageRoles, "find role to update", x)
      PROVE  IInv'
  BY <1>2, BeginIInv DEF Places, OnMember
<1>3. ASSUME NEW x \in Roles, Begin(r, u, ManageRoles, "find role to delete", x)
      PROVE  IInv'
  BY <1>3, BeginIInv DEF Places, OnMember
<1>4. ASSUME NEW v \in Users, Begin(r, u, ManageRoles, "get member", v)
      PROVE  IInv'
  BY <1>4, BeginIInv DEF Places, OnRole
<1>5. ASSUME NEW v \in Users, Begin(r, u, ManageMembers, "rank removed", v)
      PROVE  IInv'
  BY <1>5, BeginIInv DEF Places, OnRole
<1> QED BY <1>1, <1>2, <1>3, <1>4, <1>5 DEF Start

\* Every step keeps the invariant.
LEMMA NextIInv == IInv /\ [Next]_vars => IInv'
<1> SUFFICES ASSUME IInv, [Next]_vars
             PROVE  IInv'
  OBVIOUS
<1>1. ASSUME NEW r \in Requests, NEW u \in Users,
             Start(r, u) \/ LeaveGuild(r, u) \/ AcceptInvite(r, u)
      PROVE  IInv'
  BY <1>1, StartIInv, LeaveGuildIInv, AcceptInviteIInv
<1>2. ASSUME NEW r \in Requests, NEW perms \in SUBSET Perms,
             CreateRole(r, perms) \/ CreateRoleOnTop(r, perms)
      PROVE  IInv'
  BY <1>2, CreateRoleIInv, CreateRoleOnTopIInv
<1>3. ASSUME NEW r \in Requests, NEW new \in RoleRow, UpdateRole(r, new)
      PROVE  IInv'
  BY <1>3, UpdateRoleIInv
<1>4. ASSUME NEW r \in Requests, NEW next \in SUBSET Roles, AssignRoles(r, next)
      PROVE  IInv'
  BY <1>4, AssignRolesIInv
<1>5. ASSUME NEW r \in Requests,
             DeleteRole(r) \/ GetMember(r) \/ RankMember(r) \/ ClearRoles(r) \/ Fail(r)
      PROVE  IInv'
  BY <1>5, DeleteRoleIInv, GetMemberIInv, RankMemberIInv, ClearRolesIInv, FailIInv
<1>6. ASSUME NEW r \in Requests, Write(r)
      PROVE  IInv'
  BY <1>6, InsertRoleIInv, WriteRoleIInv, EraseRoleIInv, SetRolesIInv, RemoveMemberIInv
     DEF Write
<1>7. CASE UNCHANGED vars
  BY <1>7 DEF vars, guildVars, IInv, GuildOK, TasksOK, GuildIntact, OnlyTheOwnerExtends, Existing
<1> QED BY <1>1, <1>2, <1>3, <1>4, <1>5, <1>6, <1>7 DEF Next

\* The invariant holds throughout.
LEMMA AlwaysIInv == Spec => []IInv
BY InitIInv, NextIInv, PTL DEF Spec

\* Every variable keeps its type.
THEOREM TypeCorrect == Spec => []TypeOK
<1>1. IInv => TypeOK
  BY DEF IInv, GuildOK, TasksOK, TaskType, TypeOK, GuildIntact, WellFormed
<1> QED BY <1>1, AlwaysIInv, PTL

\* However many requests overlap, the Owner is a Member, the default Role exists
\* and stays at the bottom, and only Members hold Roles, which exist.
THEOREM RolesIntact == Spec => []GuildIntact
<1>1. IInv => GuildIntact
  BY DEF IInv, GuildOK
<1> QED BY <1>1, AlwaysIInv, PTL

\* No number of Members, with any number of overlapping requests, puts a permission
\* into a Role that the Owner has not put into one, or places a Role above the
\* Owner's highest.
THEOREM NobodyElseExtends == Spec => []OnlyTheOwnerExtends
<1>1. IInv => OnlyTheOwnerExtends
  BY DEF IInv, GuildOK
<1> QED BY <1>1, AlwaysIInv, PTL
-----------------------------------------------------------------------------
(* What a request that nothing overlapped may change.                      *)

\* What a request that is alone has read still holds, and what it is going to
\* write is within its caller's authority.
Current(k) ==
    /\ k.user \in Users
    /\ k.access = Access(k.user)
    /\ k.at = "insert role" /\ k.user # Owner =>
         k.write.perms \subseteq k.access.perms /\ k.access.top > k.write.position
    /\ k.at = "update role" => MayUpdate(k.access, k.subject, role[k.subject], k.write)
    /\ k.at = "delete role" => k.access.top > role[k.subject].position
    /\ k.at \in {"rank member", "rank removed", "remove member"} => k.subject # k.user
    /\ k.at \in {"assign roles", "clear roles", "set roles"} =>
         k.subject = k.user \/ OutranksMember(k.access, k.subject)
    /\ k.at \in {"rank member", "assign roles"} => k.roles = assigned[k.subject]
    /\ k.at \in {"clear roles", "set roles"} =>
         MayAssign(k.access, assigned[k.subject], k.roles)
    /\ k.at = "set roles" => k.cleared = assigned[k.subject]
    /\ k.at = "remove member" => OutranksMember(k.access, k.subject)

AloneInv == \A r \in Requests : task[r].at # "idle" /\ task[r].alone => Current(task[r])

\* Authority is read from the Guild only.
LEMMA SameAuthority ==
    ASSUME UNCHANGED guildVars
    PROVE  \A u : Access(u)' = Access(u)
BY DEF guildVars, Access, RolesOf

\* So are the checks on a Member and on the Roles to assign.
LEMMA SameChecks ==
    ASSUME UNCHANGED guildVars
    PROVE  /\ \A a, u : OutranksMember(a, u)' <=> OutranksMember(a, u)
           /\ \A a, x, y : MayAssign(a, x, y)' <=> MayAssign(a, x, y)
<1>1. role' = role
  BY DEF guildVars
<1>2. Existing' = Existing
  BY <1>1 DEF Existing
<1>3. \A x : RankOf(x)' = RankOf(x)
  BY <1>1 DEF RankOf
<1> QED BY <1>2, <1>3, SameAuthority DEF OutranksMember, MayAssign
-----------------------------------------------------------------------------
(* Requests that read or decide.                                           *)

\* It is enough that the one request that takes a step is current after it.
LEMMA QuietStep ==
    ASSUME AloneInv, NEW r \in Requests, UNCHANGED guildVars,
           \A q \in Requests \ {r} : task'[q] = task[q],
           task'[r].at # "idle" /\ task'[r].alone => Current(task'[r])
    PROVE  AloneInv'
<1> SUFFICES ASSUME NEW q \in Requests, task'[q].at # "idle", task'[q].alone
             PROVE  Current(task[q])'
  BY DEF AloneInv
<1>1. Current(task'[q])
  <2>1. CASE q = r
    BY <2>1
  <2>2. CASE q # r
    BY <2>2 DEF AloneInv
  <2> QED BY <2>1, <2>2
<1>2. role' = role /\ assigned' = assigned
  BY DEF guildVars
<1> QED BY <1>1, <1>2, SameAuthority, SameChecks DEF Current, MayUpdate

\* A request has read its caller's authority.
LEMMA BeginAlone ==
    ASSUME IInv, AloneInv, NEW r \in Requests, NEW u \in Users, NEW permission, NEW place \in Places,
           NEW subject \in Roles \cup Users \cup {None},
           place \in {"create role", "find role to update", "find role to delete",
                      "get member", "rank removed"},
           place = "rank removed" => subject # u,
           Begin(r, u, permission, place, subject)
    PROVE  AloneInv'
<1>1. /\ task'[r].at = place /\ task'[r].user = u /\ task'[r].access = Access(u)
      /\ task'[r].subject = subject
      /\ \A q \in Requests \ {r} : task'[q] = task[q]
  BY TaskFacts DEF Begin, Idle
<1>2. Current(task'[r])
  BY <1>1 DEF Current
<1> QED BY <1>1, <1>2, QuietStep DEF Begin

\* A caller other than the Owner adds a Role within their authority.
LEMMA CreateRoleAlone ==
    ASSUME IInv, AloneInv, NEW r \in Requests, NEW perms \in SUBSET Perms,
           CreateRole(r, perms) \/ CreateRoleOnTop(r, perms)
    PROVE  AloneInv'
<1>1. PICK row : /\ task' = [task EXCEPT ![r].at = "insert role", ![r].write = row]
                 /\ UNCHANGED guildVars
                 /\ task[r].at = "create role"
                 /\ task[r].user # Owner => /\ row.perms \subseteq task[r].access.perms
                                            /\ task[r].access.top > row.position
  <2>1. CASE CreateRole(r, perms)
    <3> DEFINE row == [perms |-> perms, position |-> 1]
    <3>1. row.perms = perms /\ row.position = 1
      OBVIOUS
    <3>2. task' = [task EXCEPT ![r].at = "insert role", ![r].write = row]
      BY <2>1 DEF CreateRole
    <3> HIDE DEF row
    <3> QED BY <2>1, <3>1, <3>2 DEF CreateRole
  <2>2. CASE CreateRoleOnTop(r, perms)
    BY <2>2 DEF CreateRoleOnTop
  <2> QED BY <2>1, <2>2
<1>2. /\ task'[r].at = "insert role" /\ task'[r].write = row
      /\ task'[r].user = task[r].user /\ task'[r].access = task[r].access
      /\ task'[r].alone = task[r].alone
      /\ \A q \in Requests \ {r} : task'[q] = task[q]
  BY <1>1, TaskFacts DEF TaskType
<1>3. task'[r].alone => Current(task'[r])
  BY <1>1, <1>2 DEF Current, AloneInv
<1> QED BY <1>1, <1>2, <1>3, QuietStep

\* UpdateRole has found the Role and checked the row it is going to write.
LEMMA UpdateRoleAlone ==
    ASSUME IInv, AloneInv, NEW r \in Requests, NEW new \in RoleRow, UpdateRole(r, new)
    PROVE  AloneInv'
<1>1. /\ task'[r].at = "update role" /\ task'[r].write = new
      /\ task'[r].user = task[r].user /\ task'[r].access = task[r].access
      /\ task'[r].subject = task[r].subject
      /\ task'[r].alone = task[r].alone
      /\ \A q \in Requests \ {r} : task'[q] = task[q]
  BY TaskFacts DEF UpdateRole, TaskType
<1>2. task'[r].alone => Current(task'[r])
  BY <1>1 DEF Current, AloneInv, UpdateRole
<1> QED BY <1>1, <1>2, QuietStep DEF UpdateRole

\* What Go keeps.
LEMMA GoFacts ==
    ASSUME IInv, NEW r \in Requests, NEW place, Go(r, place)
    PROVE  /\ task'[r].at = place
           /\ task'[r].user = task[r].user /\ task'[r].access = task[r].access
           /\ task'[r].subject = task[r].subject /\ task'[r].roles = task[r].roles
           /\ task'[r].alone = task[r].alone
           /\ \A q \in Requests \ {r} : task'[q] = task[q]
           /\ UNCHANGED guildVars
BY TaskFacts DEF Go, TaskType

\* DeleteRole has found the Role below the caller.
LEMMA DeleteRoleAlone ==
    ASSUME IInv, AloneInv, NEW r \in Requests, DeleteRole(r)
    PROVE  AloneInv'
<1>1. Go(r, "delete role")
  BY DEF DeleteRole
<1>2. /\ task'[r].at = "delete role"
      /\ task'[r].user = task[r].user /\ task'[r].access = task[r].access
      /\ task'[r].subject = task[r].subject /\ task'[r].roles = task[r].roles
      /\ task'[r].alone = task[r].alone
  BY <1>1, GoFacts
<1>3. task'[r].alone => Current(task[r])
  BY <1>2 DEF AloneInv, DeleteRole
<1>4. task[r].access.top > role[task[r].subject].position
  BY DEF DeleteRole
<1>5. task'[r].alone => Current(task'[r])
  BY <1>2, <1>3, <1>4 DEF Current
<1> QED BY <1>1, <1>5, GoFacts, QuietStep

\* A Member's Roles have been read.
LEMMA GetMemberAlone ==
    ASSUME IInv, AloneInv, NEW r \in Requests, GetMember(r)
    PROVE  AloneInv'
<1>1. /\ task'[r].at = IF task[r].subject = task[r].user THEN "assign roles" ELSE "rank member"
      /\ task'[r].roles = assigned[task[r].subject]
      /\ task'[r].user = task[r].user /\ task'[r].access = task[r].access
      /\ task'[r].subject = task[r].subject
      /\ task'[r].alone = task[r].alone
      /\ \A q \in Requests \ {r} : task'[q] = task[q]
  BY TaskFacts DEF GetMember, TaskType
<1>2. task'[r].alone => Current(task[r])
  BY <1>1 DEF AloneInv, GetMember
<1>3. CASE task[r].subject = task[r].user
  <2>1. task'[r].alone => Current(task'[r])
    BY <1>1, <1>2, <1>3 DEF Current
  <2> QED BY <1>1, <2>1, QuietStep DEF GetMember
<1>4. CASE task[r].subject # task[r].user
  <2>1. task'[r].alone => Current(task'[r])
    BY <1>1, <1>2, <1>4 DEF Current
  <2> QED BY <1>1, <2>1, QuietStep DEF GetMember
<1> QED BY <1>3, <1>4

\* The target ranks below the caller.
LEMMA RankMemberAlone ==
    ASSUME IInv, AloneInv, NEW r \in Requests, RankMember(r)
    PROVE  AloneInv'
<1> DEFINE place == IF task[r].at = "rank member" THEN "assign roles" ELSE "remove member"
<1>1. Go(r, place)
  BY DEF RankMember
<1>2. /\ task'[r].at = place
      /\ task'[r].user = task[r].user /\ task'[r].access = task[r].access
      /\ task'[r].subject = task[r].subject /\ task'[r].roles = task[r].roles
      /\ task'[r].alone = task[r].alone
  BY <1>1, GoFacts
<1>3. task'[r].alone => Current(task[r])
  BY <1>2 DEF AloneInv, RankMember
<1>4. /\ task[r].at \in {"rank member", "rank removed"}
      /\ OutranksMember(task[r].access, task[r].subject)
  BY DEF RankMember
<1>5. CASE task[r].at = "rank member"
  <2>1. task'[r].alone => Current(task'[r])
    BY <1>2, <1>3, <1>4, <1>5 DEF Current
  <2> QED BY <1>1, <2>1, GoFacts, QuietStep
<1>6. CASE task[r].at = "rank removed"
  <2>1. task'[r].alone => Current(task'[r])
    BY <1>2, <1>3, <1>4, <1>6 DEF Current
  <2> QED BY <1>1, <2>1, GoFacts, QuietStep
<1> QED BY <1>4, <1>5, <1>6

\* The Roles to add and to take away rank below the caller.
LEMMA AssignRolesAlone ==
    ASSUME IInv, AloneInv, NEW r \in Requests, NEW next \in SUBSET Roles, AssignRoles(r, next)
    PROVE  AloneInv'
<1>1. /\ task'[r].at = "clear roles" /\ task'[r].roles = next
      /\ task'[r].user = task[r].user /\ task'[r].access = task[r].access
      /\ task'[r].subject = task[r].subject
      /\ task'[r].alone = task[r].alone
      /\ \A q \in Requests \ {r} : task'[q] = task[q]
  BY TaskFacts DEF AssignRoles, TaskType
<1>2. task'[r].alone => Current(task'[r])
  BY <1>1 DEF Current, AloneInv, AssignRoles
<1> QED BY <1>1, <1>2, QuietStep DEF AssignRoles

\* The transaction has deleted all the assignments there are.
LEMMA ClearRolesAlone ==
    ASSUME IInv, AloneInv, NEW r \in Requests, ClearRoles(r)
    PROVE  AloneInv'
<1>1. /\ task'[r].at = "set roles" /\ task'[r].roles = task[r].roles
      /\ task'[r].cleared = assigned[task[r].subject]
      /\ task'[r].user = task[r].user /\ task'[r].access = task[r].access
      /\ task'[r].subject = task[r].subject
      /\ task'[r].alone = task[r].alone
      /\ \A q \in Requests \ {r} : task'[q] = task[q]
  BY TaskFacts DEF ClearRoles, TaskType
<1>2. task'[r].alone => Current(task'[r])
  BY <1>1 DEF Current, AloneInv, ClearRoles
<1> QED BY <1>1, <1>2, QuietStep DEF ClearRoles

\* A request that ends promises nothing.
LEMMA FailAlone ==
    ASSUME IInv, AloneInv, NEW r \in Requests, Fail(r)
    PROVE  AloneInv'
<1>1. /\ task'[r] = Idle
      /\ \A q \in Requests \ {r} : task'[q] = task[q]
  BY TaskFacts DEF Fail
<1> QED BY <1>1, QuietStep DEF Fail, Idle
-----------------------------------------------------------------------------
(* Requests that write.                                                    *)

\* A change of the Guild leaves no other request alone.
LEMMA DisturbedAlone ==
    ASSUME IInv, NEW gone, NEW q \in Requests
    PROVE  Disturbed(gone)[q].at = "idle" \/ ~ Disturbed(gone)[q].alone
BY TaskFacts DEF Disturbed, Idle, TaskType

\* So after a write, the writer's included, no request is alone.
LEMMA WriteAlone ==
    ASSUME IInv, NEW r \in Requests, Write(r)
    PROVE  AloneInv'
<1>1. PICK gone : Committed(r, gone)
  BY DEF Write, InsertRole, WriteRole, EraseRole, SetRoles, RemoveMember
<1>2. ASSUME NEW q \in Requests
      PROVE  task'[q].at = "idle" \/ ~ task'[q].alone
  <2>1. Disturbed(gone) = [p \in Requests |-> Disturbed(gone)[p]]
    BY DEF Disturbed
  <2>2. task' = [Disturbed(gone) EXCEPT ![r] = Idle]
    BY <1>1 DEF Committed
  <2> QED BY <2>1, <2>2, DisturbedAlone DEF Idle
<1> QED BY <1>2 DEF AloneInv

\* Nor after someone has left or joined.
LEMMA JoinLeaveAlone ==
    ASSUME IInv, NEW r \in Requests, NEW u, LeaveGuild(r, u) \/ AcceptInvite(r, u)
    PROVE  AloneInv'
<1>1. PICK gone : task' = Disturbed(gone)
  BY DEF LeaveGuild, AcceptInvite
<1> QED BY <1>1, DisturbedAlone DEF AloneInv
-----------------------------------------------------------------------------
\* No step makes what a request that is alone has read out of date.
LEMMA NextAlone ==
    ASSUME IInv, AloneInv, [Next]_vars
    PROVE  AloneInv'
<1>1. ASSUME NEW r \in Requests, NEW u \in Users, Start(r, u) PROVE AloneInv'
  <2>1. /\ {"create role", "find role to update", "find role to delete", "get member",
            "rank removed"} \subseteq Places
        /\ None \in Roles \cup Users \cup {None}
    BY DEF Places
  <2>2. CASE Begin(r, u, ManageRoles, "create role", None)
    BY <2>1, <2>2, BeginAlone
  <2>3. CASE \E x \in Roles : Begin(r, u, ManageRoles, "find role to update", x)
    BY <2>1, <2>3, BeginAlone
  <2>4. CASE \E x \in Roles : Begin(r, u, ManageRoles, "find role to delete", x)
    BY <2>1, <2>4, BeginAlone
  <2>5. CASE \E v \in Users : Begin(r, u, ManageRoles, "get member", v)
    BY <2>1, <2>5, BeginAlone
  <2>6. CASE \E v \in Users \ {u} : Begin(r, u, ManageMembers, "rank removed", v)
    BY <2>1, <2>6, BeginAlone
  <2> QED BY <1>1, <2>2, <2>3, <2>4, <2>5, <2>6 DEF Start
<1>2. CASE UNCHANGED vars
  BY <1>2, SameAuthority, SameChecks DEF vars, guildVars, AloneInv, Current, MayUpdate
<1>3. CASE Next
  BY <1>1, <1>3, JoinLeaveAlone, CreateRoleAlone, UpdateRoleAlone, AssignRolesAlone,
     DeleteRoleAlone, GetMemberAlone, RankMemberAlone, ClearRolesAlone, FailAlone,
     WriteAlone DEF Next
<1> QED BY <1>2, <1>3

\* AloneInv holds throughout.
LEMMA AlwaysAlone == Spec => []AloneInv
<1>1. Init => AloneInv
  BY DEF Init, AloneInv, Idle
<1>2. IInv /\ AloneInv /\ [Next]_vars => AloneInv'
  BY NextAlone
<1> QED BY <1>1, <1>2, AlwaysIInv, PTL DEF Spec
-----------------------------------------------------------------------------
(* What a request that nothing overlapped writes.                          *)

\* A new Role is below its maker and has only permissions they hold.
LEMMA InsertRoleWithin ==
    ASSUME IInv, NEW r \in Requests, Current(task[r]), task[r].user # Owner,
           NEW x \in Roles, InsertRole(r, x)
    PROVE  Within(task[r].user)
<1>1. /\ role[x] = None
      /\ role' = [role EXCEPT ![x] = task[r].write]
      /\ members' = members /\ assigned' = assigned
  BY DEF InsertRole
<1>2. /\ task[r].write.perms \subseteq Access(task[r].user).perms
      /\ Access(task[r].user).top > task[r].write.position
  BY DEF InsertRole, Current
<1>3. role \in [Roles -> RoleRow \cup {None}]
  BY DEF IInv, GuildOK, GuildIntact, WellFormed
<1> QED BY <1>1, <1>2, <1>3 DEF Within, Toggled

\* A Role that is changed is below its editor before and after.
LEMMA WriteRoleWithin ==
    ASSUME IInv, NEW r \in Requests, Current(task[r]), task[r].user # Owner, WriteRole(r)
    PROVE  Within(task[r].user)
<1> DEFINE x == task[r].subject
           a == Access(task[r].user)
<1>1. /\ role[x] # None
      /\ role' = [role EXCEPT ![x] = task[r].write]
      /\ members' = members /\ assigned' = assigned
  BY DEF WriteRole
<1>2. MayUpdate(a, x, role[x], task[r].write)
  BY DEF WriteRole, Current
<1>3. x \in Roles
  BY TaskFacts DEF WriteRole, Checked, OnRole
<1>4. role \in [Roles -> RoleRow \cup {None}]
  BY DEF IInv, GuildOK, GuildIntact, WellFormed
<1>5. role'[x] = task[r].write /\ \A y \in Roles \ {x} : role'[y] = role[y]
  BY <1>1, <1>3, <1>4
<1> HIDE DEF x, a
<1>6. ASSUME NEW y \in Roles \ {Everyone}, role'[y] # role[y]
      PROVE  role[y].position < a.top /\ role'[y].position < a.top
  BY <1>2, <1>5, <1>6 DEF MayUpdate
<1>7. ASSUME NEW y \in Roles, role'[y] # None
      PROVE  role[y] # None /\ Toggled(y) \subseteq a.perms
  BY <1>1, <1>2, <1>5, <1>7 DEF MayUpdate, Toggled
<1>8. a = Access(task[r].user)
  BY DEF a
<1> QED BY <1>1, <1>6, <1>7, <1>8 DEF Within

\* A Role that is deleted is below.
LEMMA EraseRoleWithin ==
    ASSUME IInv, NEW r \in Requests, Current(task[r]), task[r].user # Owner, EraseRole(r)
    PROVE  Within(task[r].user)
<1> DEFINE x == task[r].subject
<1>1. /\ role[x] # None
      /\ role' = [role EXCEPT ![x] = None]
      /\ x \in Roles
  BY TaskFacts DEF EraseRole, Checked, OnRole
<1>2. Access(task[r].user).top > role[x].position
  BY DEF EraseRole, Current
<1>3. role \in [Roles -> RoleRow \cup {None}]
  BY DEF IInv, GuildOK, GuildIntact, WellFormed
<1>4. role'[x] = None /\ \A y \in Roles \ {x} : role'[y] = role[y]
  BY <1>1, <1>3
<1> HIDE DEF x
<1>5. role' # role
  BY <1>1, <1>4
<1> QED BY <1>2, <1>4, <1>5 DEF Within, Toggled

\* The Roles a Member gains and loses are below, and so is the Member.
LEMMA SetRolesWithin ==
    ASSUME IInv, NEW r \in Requests, Current(task[r]), task[r].user # Owner, SetRoles(r)
    PROVE  Within(task[r].user)
<1> DEFINE w == task[r].subject
           a == Access(task[r].user)
           n == task[r].roles
<1>1. /\ w \in Users
      /\ assigned \in [Users -> SUBSET Roles]
      /\ \A x \in assigned[w] : role[x] # None
  BY TaskFacts DEF SetRoles, Checked, OnMember, IInv, GuildOK, GuildIntact, WellFormed
<1>2. /\ w = task[r].user \/ OutranksMember(a, w)
      /\ MayAssign(a, assigned[w], n)
      /\ task[r].cleared = assigned[w]
  BY DEF SetRoles, Current
<1>3. /\ role' = role /\ members' = members
      /\ assigned' = [assigned EXCEPT ![w] = (assigned[w] \ task[r].cleared) \cup n]
  BY DEF SetRoles
<1>4. assigned'[w] = n /\ \A v \in Users \ {w} : assigned'[v] = assigned[v]
  BY <1>1, <1>2, <1>3
<1>5. \A x \in (assigned[w] \ n) \cup (n \ assigned[w]) : role[x].position < a.top
  BY <1>1, <1>2 DEF MayAssign, RankOf, Existing
<1> HIDE DEF w, a, n
<1>6. a = Access(task[r].user)
  BY DEF a
<1> QED BY <1>2, <1>3, <1>4, <1>5, <1>6 DEF Within, OutranksMember, Toggled

\* A Member who is removed is below.
LEMMA RemoveMemberWithin ==
    ASSUME IInv, NEW r \in Requests, Current(task[r]), task[r].user # Owner, RemoveMember(r)
    PROVE  Within(task[r].user)
<1> DEFINE w == task[r].subject
           a == Access(task[r].user)
<1>1. w # task[r].user /\ OutranksMember(a, w)
  BY DEF RemoveMember, Current
<1>2. /\ role' = role /\ members' = members \ {w}
      /\ assigned' = [assigned EXCEPT ![w] = {}]
  BY DEF RemoveMember, Removed
<1>3. \A v \in Users \ {w} : assigned'[v] = assigned[v]
  BY <1>2 DEF IInv, GuildOK
<1> HIDE DEF w, a
<1>4. a = Access(task[r].user)
  BY DEF a
<1> QED BY <1>1, <1>2, <1>3, <1>4 DEF Within, OutranksMember, Toggled

\* A Member whose request nothing overlapped changes only Roles below their own
\* highest one, grants and revokes only permissions they hold, and changes the Roles
\* or the membership only of Members below them.
THEOREM AloneWithinAuthority == Spec => WithinAuthority
<1>1. ASSUME IInv, AloneInv, NEW r \in Requests,
             Write(r), task[r].alone, task[r].user # Owner
      PROVE  Within(task[r].user)
  <2>1. task[r].at # "idle"
    BY <1>1 DEF Write, InsertRole, WriteRole, EraseRole, SetRoles, RemoveMember
  <2>2. Current(task[r])
    BY <1>1, <2>1 DEF AloneInv
  <2> QED BY <1>1, <2>2, InsertRoleWithin, WriteRoleWithin, EraseRoleWithin, SetRolesWithin,
             RemoveMemberWithin DEF Write
<1>2. IInv /\ AloneInv =>
        (\A r \in Requests :
           Write(r) /\ task[r].alone /\ task[r].user # Owner => Within(task[r].user))
  BY <1>1
<1> QED BY <1>2, AlwaysIInv, AlwaysAlone, PTL DEF WithinAuthority
=============================================================================
