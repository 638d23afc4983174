----------------------------- MODULE Attachments -----------------------------
(***************************************************************************)
(* The life of an attachment (internal/chat/attachments.go, its Postgres   *)
(* store and the triggers of migration 10) and of its Object, which        *)
(* clients upload straight to the Object Storage and the Janitor           *)
(* (internal/media/janitor.go) removes once the row is gone.               *)
(*                                                                         *)
(* One SQL statement or transaction is one step.  Between two of them      *)
(* other requests run, and the server may stop: the rows, the queue of     *)
(* storage_deletions and the Objects survive, requests and the Janitor's   *)
(* pass do not.                                                            *)
(***************************************************************************)
EXTENDS Integers, Sequences, FiniteSets, SequencesExt

CONSTANTS
    Users,
    Attachments,       \* attachment ids; the Object's key holds the id
    Messages,          \* message ids
    None,
    MaxUnused,         \* maxUnusedAttachments (25)
    BatchSize          \* deletionBatchSize (100)

ASSUME AttachmentsAssumption ==
    /\ MaxUnused \in Nat
    /\ BatchSize \in Nat \ {0}
    /\ IsFiniteSet(Attachments)
    /\ None \notin Users \cup Attachments \cup Messages

VARIABLES
    row,          \* the attachment's row: none yet, PENDING, READY or deleted
    owner,        \* uploader_id
    onMessage,    \* message_id
    age,          \* time since the intent, see Tick
    author,       \* author of each message in the database, None for no message
    spent,        \* message ids used so far
    objects,      \* keys that exist in the Object Storage
    deletions,    \* storage_deletions, oldest first
    finalizing,   \* FinalizeAttachment requests between Stat and the update
    place,        \* where the Janitor's pass stands
    batch         \* keys it has listed and not yet handled

janitorVars == <<place, batch>>
vars == <<row, owner, onMessage, age, author, spent, objects, deletions,
          finalizing, janitorVars>>

Rows == {a \in Attachments : row[a] \in {"PENDING", "READY"}}
Unused(u) == {a \in Rows : owner[a] = u /\ onMessage[a] = None}

Init ==
    /\ row = [a \in Attachments |-> "none"]
    /\ owner = [a \in Attachments |-> None]
    /\ onMessage = [a \in Attachments |-> None]
    /\ age = [a \in Attachments |-> "uploadable"]
    /\ author = [m \in Messages |-> None]
    /\ spent = {}
    /\ objects = {}
    /\ deletions = << >>
    /\ finalizing = {}
    /\ place = "expire"
    /\ batch = << >>

\* The trigger attachments_enqueue_deletion queues the key of every deleted row;
\* the rows of one statement have the same queued_at.
DeleteRows(gone) ==
    /\ row' = [a \in Attachments |-> IF a \in gone THEN "deleted" ELSE row[a]]
    /\ \E order \in SetToSeqs(gone) : deletions' = deletions \o order
-----------------------------------------------------------------------------
(* Requests.                                                               *)

\* CreateAttachmentIntent: the count and the insert hold the uploader's row lock.
QuotaReachedOffByOne(u) == Cardinality(Unused(u)) > MaxUnused
QuotaReached(u) == Cardinality(Unused(u)) >= MaxUnused
CreateIntent(u, a) ==
    /\ row[a] = "none"
    /\ ~ QuotaReached(u)
    /\ row' = [row EXCEPT ![a] = "PENDING"]
    /\ owner' = [owner EXCEPT ![a] = u]
    /\ UNCHANGED <<onMessage, age, author, spent, objects, deletions, finalizing,
                   janitorVars>>

\* The client PUTs the Object; the signed URL is all the storage looks at.
Put(a) ==
    /\ row[a] # "none"
    /\ age[a] = "uploadable"
    /\ objects' = objects \cup {a}
    /\ UNCHANGED <<row, owner, onMessage, age, author, spent, deletions, finalizing,
                   janitorVars>>

\* FinalizeAttachment reads the row, then asks the storage; a missing or
\* mismatching Object, and a READY row, change nothing.
FinalizeStatSkipped(a) ==
    /\ row[a] = "PENDING"
    /\ finalizing' = finalizing \cup {a}
    /\ UNCHANGED <<row, owner, onMessage, age, author, spent, objects, deletions,
                   janitorVars>>
FinalizeStat(a) ==
    /\ row[a] = "PENDING"
    /\ a \in objects
    /\ finalizing' = finalizing \cup {a}
    /\ UNCHANGED <<row, owner, onMessage, age, author, spent, objects, deletions,
                   janitorVars>>

\* MarkAttachmentReady, by then perhaps without a row to update.
FinalizeMarkUpsert(a) ==
    /\ a \in finalizing
    /\ finalizing' = finalizing \ {a}
    /\ row' = [row EXCEPT ![a] = "READY"]
    /\ UNCHANGED <<owner, onMessage, age, author, spent, objects, deletions,
                   janitorVars>>
FinalizeMark(a) ==
    /\ a \in finalizing
    /\ finalizing' = finalizing \ {a}
    /\ row' = [row EXCEPT ![a] = IF a \in Rows THEN "READY" ELSE @]
    /\ UNCHANGED <<owner, onMessage, age, author, spent, objects, deletions,
                   janitorVars>>

\* The transaction of CreateMessage: every attachment named must be the author's,
\* finalized and unused, or nothing is inserted.
Claimable(u, a) == row[a] = "READY" /\ owner[a] = u /\ onMessage[a] = None
CreateMessage(u, m, claimed) ==
    /\ m \notin spent
    /\ \A a \in claimed : Claimable(u, a)
    /\ spent' = spent \cup {m}
    /\ author' = [author EXCEPT ![m] = u]
    /\ onMessage' = [a \in Attachments |-> IF a \in claimed THEN m ELSE onMessage[a]]
    /\ UNCHANGED <<row, owner, age, objects, deletions, finalizing, janitorVars>>

\* DeleteAttachment: only the uploader's, and only while unused.
DeleteAttachment(u, a) ==
    /\ a \in Unused(u)
    /\ DeleteRows({a})
    /\ UNCHANGED <<owner, onMessage, age, author, spent, objects, finalizing, janitorVars>>

\* DeleteMessage cascades to the rows of its attachments.
DeleteMessage(m) ==
    /\ author[m] # None
    /\ author' = [author EXCEPT ![m] = None]
    /\ DeleteRows({a \in Rows : onMessage[a] = m})
    /\ UNCHANGED <<owner, onMessage, age, spent, objects, finalizing, janitorVars>>

\* DeleteChannel or DeleteGuild cascades to every message and attachment in it.
DeleteChannel ==
    /\ Rows # {}
    /\ author' = [m \in Messages |-> None]
    /\ DeleteRows(Rows)
    /\ UNCHANGED <<owner, onMessage, age, spent, objects, finalizing, janitorVars>>
-----------------------------------------------------------------------------
(* The Janitor: Sweep, once a minute.                                      *)

\* pendingUploadLifetime is an hour, unusedUploadLifetime a day.
ExpiredAlsoUsed(a) ==
    \/ row[a] = "PENDING" /\ age[a] \in {"hour", "day"}
    \/ row[a] = "READY" /\ age[a] = "day"
Expired(a) ==
    /\ onMessage[a] = None
    /\ \/ row[a] = "PENDING" /\ age[a] \in {"hour", "day"}
       \/ row[a] = "READY" /\ age[a] = "day"
ExpireAttachments ==
    /\ place = "expire"
    /\ place' = "list"
    /\ DeleteRows({a \in Rows : Expired(a)})
    /\ UNCHANGED <<owner, onMessage, age, author, spent, objects, finalizing, batch>>

\* A failing expiry is logged and the pass goes on.
ExpireFails ==
    /\ place = "expire"
    /\ place' = "list"
    /\ UNCHANGED <<row, owner, onMessage, age, author, spent, objects, deletions,
                   finalizing, batch>>

\* PendingStorageDeletions; the pass also ends here if the listing fails.
ListDeletions ==
    /\ place = "list"
    /\ deletions # << >>
    /\ place' = "delete"
    /\ batch' = SubSeq(deletions, 1, IF Len(deletions) < BatchSize
                                     THEN Len(deletions) ELSE BatchSize)
    /\ UNCHANGED <<row, owner, onMessage, age, author, spent, objects, deletions,
                   finalizing>>
EndOfPass ==
    /\ \/ place = "list"
       \/ place = "delete" /\ batch = << >>
    /\ place' = "expire"
    /\ UNCHANGED <<row, owner, onMessage, age, author, spent, objects, deletions,
                   finalizing, batch>>

\* A key whose deletion or completion fails waits for the next pass.
DeleteObject(key) ==
    /\ place = "delete"
    /\ batch # << >> /\ Head(batch) = key
    /\ objects' = objects \ {key}
    /\ place' = "complete"
    /\ UNCHANGED <<row, owner, onMessage, age, author, spent, deletions, finalizing,
                   batch>>
DeleteFailsUnnoticed ==
    /\ place \in {"delete", "complete"}
    /\ batch # << >>
    /\ place' = "delete"
    /\ batch' = Tail(batch)
    /\ deletions' = SelectSeq(deletions, LAMBDA k : k # Head(batch))
    /\ UNCHANGED <<row, owner, onMessage, age, author, spent, objects, finalizing>>
DeleteFails ==
    /\ place \in {"delete", "complete"}
    /\ batch # << >>
    /\ place' = "delete"
    /\ batch' = Tail(batch)
    /\ UNCHANGED <<row, owner, onMessage, age, author, spent, objects, deletions,
                   finalizing>>
CompleteDeletionNotAtAll(key) ==
    /\ place = "complete"
    /\ Head(batch) = key
    /\ place' = "delete"
    /\ batch' = Tail(batch)
    /\ UNCHANGED <<row, owner, onMessage, age, author, spent, objects, deletions,
                   finalizing>>
CompleteDeletion(key) ==
    /\ place = "complete"
    /\ Head(batch) = key
    /\ \E i \in DOMAIN deletions :
         deletions[i] = key /\ deletions' = RemoveAt(deletions, i)
    /\ place' = "delete"
    /\ batch' = Tail(batch)
    /\ UNCHANGED <<row, owner, onMessage, age, author, spent, objects, finalizing>>
-----------------------------------------------------------------------------
(* Time and restarts.                                                      *)

\* 15 minutes: the upload URL ends.  One hour.  One day.
Later(t) == CASE t = "uploadable" -> "url expired"
              [] t = "url expired" -> "hour"
              [] OTHER -> "day"
Tick(a) ==
    /\ row[a] # "none"
    /\ age[a] # "day"
    /\ age' = [age EXCEPT ![a] = Later(@)]
    /\ UNCHANGED <<row, owner, onMessage, author, spent, objects, deletions, finalizing,
                   janitorVars>>

\* The process ends and starts again: what it kept in memory is lost.
Restart ==
    /\ finalizing' = {}
    /\ place' = "expire"
    /\ batch' = << >>
    /\ UNCHANGED <<row, owner, onMessage, age, author, spent, objects, deletions>>

Next ==
    \/ \E u \in Users, a \in Attachments : CreateIntent(u, a) \/ DeleteAttachment(u, a)
    \/ \E a \in Attachments : Put(a) \/ FinalizeStat(a) \/ FinalizeMark(a) \/ Tick(a)
    \/ \E u \in Users, m \in Messages, claimed \in SUBSET Attachments :
         CreateMessage(u, m, claimed)
    \/ \E m \in Messages : DeleteMessage(m)
    \/ DeleteChannel
    \/ ExpireAttachments
    \/ ExpireFails
    \/ ListDeletions
    \/ EndOfPass
    \/ \E key \in Attachments : DeleteObject(key) \/ CompleteDeletion(key)
    \/ DeleteFails
    \/ Restart

Spec == Init /\ [][Next]_vars

\* The clock advances and a pass runs every minute.  A statement that is tried
\* for ever succeeds some day, although any single try may fail and the server
\* may stop in between.
Fairness ==
    /\ \A a \in Attachments : WF_vars(Tick(a))
    /\ SF_vars(ExpireAttachments)
    /\ SF_vars(ListDeletions)
    /\ WF_vars(EndOfPass)
    /\ WF_vars(DeleteFails)
    /\ \A a \in Attachments : SF_vars(DeleteObject(a)) /\ SF_vars(CompleteDeletion(a))

FairSpec == Spec /\ Fairness
-----------------------------------------------------------------------------
(* Properties.                                                             *)

TypeOK ==
    /\ row \in [Attachments -> {"none", "PENDING", "READY", "deleted"}]
    /\ owner \in [Attachments -> Users \cup {None}]
    /\ \A a \in Attachments : owner[a] = None <=> row[a] = "none"
    /\ onMessage \in [Attachments -> Messages \cup {None}]
    /\ age \in [Attachments -> {"uploadable", "url expired", "hour", "day"}]
    /\ author \in [Messages -> Users \cup {None}]
    /\ spent \subseteq Messages
    /\ objects \subseteq Attachments
    /\ deletions \in Seq(Attachments)
    /\ finalizing \subseteq Attachments
    /\ place \in {"expire", "list", "delete", "complete"}
    /\ batch \in Seq(Attachments)

\* The Janitor and every deletion leave the Objects of readable attachments
\* alone: a READY attachment can be downloaded, whatever overlaps its
\* finalization (FinalizeAttachment, Sweep).
ReadyHasObject == \A a \in Attachments : row[a] = "READY" => a \in objects

\* A row and its place in the deletion queue exclude each other, and the Janitor
\* handles only keys whose row is gone.
OnlyTheDeletedAreQueued ==
    \A a \in Rows : a \notin ToSet(deletions) \cup ToSet(batch)

\* Intents, expiry and claims of one User never leave more unused attachments
\* than the quota (CreateAttachment's lock).
WithinQuota == \A u \in Users : Cardinality(Unused(u)) <= MaxUnused

\* What a message shows is its own author's and never changes: an attachment is
\* not moved to another message, and disappears only with its message
\* (CreateMessage, DeleteAttachment, ExpireAttachments).
MessageKeepsAttachments ==
    [][\A a \in Rows : onMessage[a] # None =>
          /\ author[onMessage[a]] = owner[a]
          /\ onMessage'[a] = onMessage[a]
          /\ a \in Rows' \/ author'[onMessage[a]] = None]_vars

\* What nobody uses does not stay: every upload ends up on a message, or its row
\* and its place in the queue go, through failing statements and restarts; so do
\* those of a message that is deleted.  And the queue forgets a key only after its
\* Object was removed, which then is gone for good, wherever a pass is cut off (Sweep,
\* the deletion triggers).  What a URL that is still valid uploads after the removal
\* is not meant.
Removed(a) == place = "complete" /\ Head(batch) = a
NothingLingers ==
    \A a \in Attachments :
        /\ (row[a] \in {"PENDING", "READY"} \/ a \in ToSet(deletions))
             ~> \/ row[a] = "READY" /\ onMessage[a] # None
                \/ row[a] = "deleted" /\ a \notin ToSet(deletions)
        /\ (a \in ToSet(deletions) /\ age[a] # "uploadable" /\ ~ Removed(a))
             ~> [](a \notin objects)
=============================================================================
