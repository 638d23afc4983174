\* One Session over reconnections, under the fairness of the runtime: a buffer of
\* one event that slides, queues that overflow, takeovers and late detaches.
CONSTANTS
    Users = {u1}
    Sessions = {s1}
    Conns = {c1, c2}
    None = None
    IntentSets <- MCIntentSets
    Published = {"MESSAGE"}
    EventBufferSize = 1
    QueueSlack = 2
    MaxSessions = 1
    MaxSessionsPerUser = 1
    MaxSequence = 3
    MaxPendingAcks = 1
SPECIFICATION FairSpec
INVARIANT WritesInOrder
INVARIANT ReplayFits
PROPERTY ImplementsStream
PROPERTY DeadPeerIsForgotten
PROPERTY DispatchIsWritten
