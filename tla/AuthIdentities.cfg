SPECIFICATION Spec
CONSTANTS
    Users = {u1, u2}
    Addresses = {e1, e2}
    Subjects = {g1, g2}
    Attempts = {a1, a2}
    Requests = {r1, r2}
    None = None
SYMMETRY Symmetry
CHECK_DEADLOCK FALSE
INVARIANT CodeServesItsPurpose NoSignInByAddress
PROPERTY ImplementsAccounts
