\* Two Users, two Session ids, clients with and without the message intents:
\* limits, retention, foreign resumes, publishes that reach several Sessions.
CONSTANTS
    Users = {u1, u2}
    Sessions = {s1, s2}
    Conns = {c1, c2}
    None = None
    IntentSets <- MixedIntentSets
    Published = {"MESSAGE"}
    EventBufferSize = 1
    QueueSlack = 2
    MaxSessions = 2
    MaxSessionsPerUser = 1
    MaxSequence = 1
    MaxPendingAcks = 1
SPECIFICATION Spec
SYMMETRY Symmetry
INVARIANT NoLeakedSession
INVARIANT ServedIsAttached
INVARIANT WithinCapacity
PROPERTY ImplementsSessions
