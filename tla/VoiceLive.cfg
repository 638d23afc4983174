\* One User with two overlapping requests, a userGone and changing permissions.
CONSTANTS
    Users = {u1}
    Channels = {ch1, ch2}
    Flags = {f1}
    VoiceIds = {v1, v2}
    Requests = {r1, r2}
    Callbacks = {k1}
    None = None
    Sessions = {g1}
    MaxSessionsPerUser = 1
    MaxGoneCalls = 1
SPECIFICATION FairSpec
INVARIANT NoResurrection
INVARIANT EndsOnce
PROPERTY GoneLeavesVoice
PROPERTY GoneIsCleared
