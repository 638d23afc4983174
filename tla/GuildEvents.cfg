\* Three Users and three changes that overlap.
CONSTANTS
    Users = {o, a, b}
    Owner = o
    None = None
    Calls = {c1, c2, c3}
SPECIFICATION EventsSpec
SYMMETRY Symmetry
CHECK_DEADLOCK FALSE
INVARIANT SettledIsKnown
INVARIANT TheRemovedAreTold
