\* Two updates of one read position overlap.
CONSTANTS
    Users = {u1}
    Channels = {text, category}
    text = text
    category = category
    MaxMessages = 2
    MaxPosition = 1
    Requests = {r1}
    MaxRequests = 2
    Readers = {k1, k2}
    MaxReads = 2
    None = None
    Guild <- MCGuild
SPECIFICATION ReadSpec
CHECK_DEADLOCK FALSE
PROPERTY ReadsForward
