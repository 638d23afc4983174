\* Three requests and three updates of read positions, two of each at a time.
CONSTANTS
    Users = {u1, u2}
    Channels = {text, category, c1, c2}
    text = text
    category = category
    MaxMessages = 2
    MaxPosition = 3
    Requests = {r1, r2}
    MaxRequests = 3
    Readers = {k1, k2}
    MaxReads = 3
    None = None
    Guild <- MCGuild
SPECIFICATION ReadSpec
SYMMETRY Symmetry
CHECK_DEADLOCK FALSE
INVARIANT ReferencesHold
INVARIANT PositionsDiffer
INVARIANT OneDirectChannel
PROPERTY AloneReadsForward
