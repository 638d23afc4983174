----------------------------- MODULE MCGuildRoles -----------------------------
(* Small instances of GuildRoles for TLC.                                  *)
EXTENDS GuildRoles, TLC

Row(perms, position) == [perms |-> perms, position |-> position]

\* A moderator above a Member who can remove Members, and a moderator and a User
\* who has not joined.
MCGuilds ==
    {[members |-> {"owner", "a", "b"},
      role |-> [everyone |-> Row({}, 0), high |-> Row({"MANAGE_ROLES"}, 2),
                low |-> Row({"MANAGE_MEMBERS"}, 1)],
      assigned |-> [owner |-> {}, a |-> {"high"}, b |-> {"low"}]],
     [members |-> {"owner", "a"},
      role |-> [everyone |-> Row({"MANAGE_MEMBERS"}, 0), high |-> Row({"MANAGE_ROLES"}, 2),
                low |-> None],
      assigned |-> [owner |-> {}, a |-> {"high"}, b |-> {}]]}

Symmetry == Permutations(Requests)
=============================================================================
