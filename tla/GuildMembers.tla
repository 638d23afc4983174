---------------------------- MODULE GuildMembers ----------------------------
(***************************************************************************)
(* The Members of one Guild: what Invites and GuildEvents share, each with *)
(* its own view of how they come and go (guild_members, internal/chat's    *)
(* members_postgres.go).                                                   *)
(***************************************************************************)
CONSTANTS
    Users,
    Owner,
    None

ASSUME OwnerAssumption == Owner \in Users

VARIABLE
    member         \* guild_members

\* CreateGuild makes the Owner a Member; others have joined since.
SomeMembers == \E others \in SUBSET Users : member = others \cup {Owner}

\* RemoveMember and LeaveGuild; neither removes the Owner.
DropMember(u) ==
    /\ u \in member /\ u # Owner
    /\ member' = member \ {u}
=============================================================================
