\* Three requests, two at a time, that overlap in every way, in two Guilds.
CONSTANTS
    Users = {"owner", "a", "b"}
    Owner = "owner"
    Roles = {"everyone", "high", "low"}
    Everyone = "everyone"
    Perms = {"MANAGE_ROLES", "MANAGE_MEMBERS"}
    ManageRoles = "MANAGE_ROLES"
    ManageMembers = "MANAGE_MEMBERS"
    MaxPosition = 3
    Requests = {r1, r2}
    MaxRequests = 3
    None = None
    Guilds <- MCGuilds
SPECIFICATION Spec
SYMMETRY Symmetry
CHECK_DEADLOCK FALSE
INVARIANT GuildIntact
INVARIANT OnlyTheOwnerExtends
PROPERTY WithinAuthority
