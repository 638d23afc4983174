\* Two uploads of a User and a message: claims, the quota, expiry, deletions and
\* the Janitor's passes, through failing statements and restarts.
CONSTANTS
    Users = {u1}
    Attachments = {a1, a2}
    Messages = {m1}
    None = None
    MaxUnused = 1
    BatchSize = 1
SPECIFICATION FairSpec
INVARIANT ReadyHasObject
INVARIANT OnlyTheDeletedAreQueued
INVARIANT WithinQuota
PROPERTY MessageKeepsAttachments
PROPERTY NothingLingers
