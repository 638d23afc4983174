\* Three requests with two invites: races for the last use, of one User through
\* both invites, with removals, a revocation, an expiry and the Guild's deletion.
CONSTANTS
    Users = {o, a, b}
    Owner = o
    InviteIds = {i1, i2}
    Requests = {r1, r2, r3}
    None = None
    MaxUses = 1
SPECIFICATION InvitesSpec
SYMMETRY Symmetry
CHECK_DEADLOCK FALSE
INVARIANT OnlyOneselfCollides
PROPERTY JoinsAreCounted
