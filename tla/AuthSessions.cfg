\* Two sessions, four token pairs and two mailed codes of one User.
CONSTANTS
    Users = {u1}
    Sessions = {s1, s2}
    Pairs = {p1, p2, p3, p4}
    Codes = {k1, k2}
    Requests = {r1}
    None = None
    MaxResets = 1
SPECIFICATION Spec
SYMMETRY Symmetry
INVARIANT OnePairPerSession
INVARIANT ReplayEndsSession
INVARIANT OneCodeWorks
INVARIANT ResetSignsOut
PROPERTY EndedIsFinal
