------------------------------- MODULE Channels -------------------------------
(***************************************************************************)
(* The Channels, Threads and Messages of one Guild and the direct Channels *)
(* of its Members (internal/chat/service.go and its Postgres store).       *)
(*                                                                         *)
(* A request checks what it acts on and then writes: other requests write  *)
(* in between, and what still stands in the way of a mistake then is in    *)
(* the statement itself, in the foreign keys and in the unique indexes.    *)
(* Statements that other statements can be seen to overlap are two actions.*)
(* Who may do what is GuildRoles' subject and left out; so are names,      *)
(* topics and contents.                                                    *)
(***************************************************************************)
EXTENDS Integers, FiniteSets, FiniteSetsExt

CONSTANTS
    Users,
    Channels,           \* Channel ids, each issued at most once
    MaxMessages,        \* bound of the model on the Messages posted
    MaxPosition,        \* bound of the model on positions
    Requests,           \* HTTP handlers that may run at the same time
    MaxRequests,        \* bound of the model on the requests of a behaviour
    None,
    Guild               \* the Channels to begin with

Messages == 1..MaxMessages      \* in the order of their times and ids
Position == 0..MaxPosition
Pairs == {p \in SUBSET Users : Cardinality(p) = 2}
TextLike == {"TEXT", "THREAD", "DIRECT"}
Listed == {"TEXT", "VOICE", "CATEGORY"}
Row == [type : TextLike \cup Listed, parent : Channels \cup {None}, position : Position,
        starter : Messages \cup {None}, pair : Pairs \cup {{}}]

ASSUME ChannelsAssumption ==
    /\ MaxMessages \in Nat /\ MaxPosition \in Nat /\ MaxRequests \in Nat
    /\ None \notin Channels \cup Row \cup Messages
    /\ Guild \in [Channels -> Row \cup {None}]
    /\ \A c \in Channels : Guild[c] # None =>
         Guild[c].type \in {"TEXT", "CATEGORY"} /\ Guild[c].parent = None /\ Guild[c].starter = None
    /\ \A c, d \in Channels :
         Guild[c] # None /\ Guild[d] # None /\ Guild[c].position = Guild[d].position => c = d

VARIABLES
    channel,      \* channels and dm_participants
    message,      \* messages: the Channel of each
    used,         \* the Channel ids issued
    posted,       \* the number of Messages given an id and a time
    task,         \* the requests
    started,      \* how many there were
    moved,        \* Channels given a position by UpdateChannel (history)
    opened        \* the Channels that opening each pair's has answered (history)

rows == <<channel, message>>
vars == <<channel, message, used, posted, task, started, moved, opened>>

Is(c, types) == c \in Channels /\ channel[c] # None /\ channel[c].type \in types

Fields == {"position", "parent"}
Idle == [at |-> "idle", id |-> None, row |-> None, fields |-> {}, seen |-> {}, message |-> None]

Init ==
    /\ channel = Guild
    /\ message = [m \in Messages |-> None]
    /\ used = {c \in Channels : Guild[c] # None}
    /\ posted = 0
    /\ task = [r \in Requests |-> Idle]
    /\ started = 0
    /\ moved = {}
    /\ opened = [p \in Pairs |-> {}]

\* A request has read what it needs and goes on with k.
Begin(r, k) ==
    /\ task[r] = Idle
    /\ started < MaxRequests
    /\ task' = [task EXCEPT ![r] = k]
    /\ started' = started + 1

\* It is refused, finds nothing, or a statement fails and is rolled back.
Fail(r) ==
    /\ task[r] # Idle
    /\ task' = [task EXCEPT ![r] = Idle]
    /\ UNCHANGED <<rows, used, posted, started, moved, opened>>

Go(r, k) ==
    /\ task' = [task EXCEPT ![r] = k]
    /\ UNCHANGED <<rows, started, moved, opened>>
Done(r) ==
    /\ task' = [task EXCEPT ![r] = Idle]
    /\ UNCHANGED started

\* The references a row makes exist when it is written (REFERENCES).
ReferencesUnchecked(row) == TRUE
ReferencesExist(row) ==
    /\ row.parent # None => channel[row.parent] # None
    /\ row.starter # None => message[row.starter] # None
-----------------------------------------------------------------------------
(* CreateChannel and UpdateChannel.                                        *)

\* checkCategory: a parent is a Category, which has no parent itself.
ParentAllowed(type, parent) ==
    parent # None => type # "CATEGORY" /\ Is(parent, {"CATEGORY"})

CreateChannel(r, type, parent) ==
    /\ ParentAllowed(type, parent)
    /\ Begin(r, [Idle EXCEPT !.at = "lock guild",
                             !.row = [type |-> type, parent |-> parent, position |-> 0,
                                      starter |-> None, pair |-> {}]])
    /\ UNCHANGED <<rows, used, posted, moved, opened>>

\* The transaction locks the Guild's row and reads the next position ...
Taken == {channel[c].position : c \in {d \in Channels : Is(d, Listed)}}
NextPosition == IF Taken = {} THEN 0 ELSE Max(Taken) + 1
GuildUnlocked == FALSE
GuildLocked == \E q \in Requests : task[q].at = "insert channel"
LockGuild(r) ==
    /\ task[r].at = "lock guild"
    /\ ~ GuildLocked
    /\ NextPosition # MaxPosition + 1
    /\ Go(r, [task[r] EXCEPT !.at = "insert channel", !.row.position = NextPosition])
    /\ UNCHANGED <<used, posted>>

\* ... inserts the Channel and commits.
InsertChannel(r, c) ==
    /\ task[r].at = "insert channel"
    /\ c \notin used
    /\ ReferencesExist(task[r].row)
    /\ channel' = [channel EXCEPT ![c] = task[r].row]
    /\ used' = used \cup {c}
    /\ Done(r)
    /\ UNCHANGED <<message, posted, moved, opened>>

\* UpdateChannel sets a position, a parent, or both; of a Thread only the name can
\* be changed, and a direct Channel cannot be changed at all.
UpdateChannel(r, c, fields, position, parent) ==
    /\ Is(c, Listed)
    /\ "parent" \in fields => ParentAllowed(channel[c].type, parent)
    /\ Begin(r, [Idle EXCEPT !.at = "update channel", !.id = c, !.fields = fields,
                             !.row = [channel[c] EXCEPT
                                        !.position = IF "position" \in fields THEN position ELSE @,
                                        !.parent = IF "parent" \in fields THEN parent ELSE @]])
    /\ UNCHANGED <<rows, used, posted, moved, opened>>

\* The statement keeps what the fields do not name as it is by then.
WriteChannel(r) ==
    LET k == task[r]
    IN  /\ k.at = "update channel"
        /\ channel[k.id] # None
        /\ "parent" \in k.fields => ReferencesExist(k.row)
        /\ channel' = [channel EXCEPT
             ![k.id].position = IF "position" \in k.fields THEN k.row.position ELSE @,
             ![k.id].parent = IF "parent" \in k.fields THEN k.row.parent ELSE @]
        /\ moved' = IF "position" \in k.fields THEN moved \cup {k.id} ELSE moved
        /\ Done(r)
        /\ UNCHANGED <<message, used, posted, opened>>
-----------------------------------------------------------------------------
(* DeleteChannel.                                                          *)

DeleteChannel(r, c) ==
    /\ Is(c, Listed \cup {"THREAD"})
    /\ Begin(r, [Idle EXCEPT !.at = "delete channel", !.id = c])
    /\ UNCHANGED <<rows, used, posted, moved, opened>>

\* The statement's snapshot: the Channel and the Threads under it.
ThreadsOf(c) == {t \in Channels : Is(t, {"THREAD"}) /\ channel[t].parent = c}
SeeChannels(r) ==
    LET c == task[r].id
    IN  /\ task[r].at = "delete channel"
        /\ Go(r, [task[r] EXCEPT !.at = "erase channels",
                                 !.seen = {x \in {c} \cup ThreadsOf(c) : channel[x] # None}])
        /\ UNCHANGED <<used, posted>>

\* It deletes those that are still there; with them go their Messages (CASCADE)
\* and all references to them and to those Messages (SET NULL).
Without(row, gone, lost) ==
    IF row = None THEN None
    ELSE [row EXCEPT !.parent = IF @ \in gone THEN None ELSE @,
                     !.starter = IF @ \in lost THEN None ELSE @]
Erased(gone, lost) ==
    /\ channel' = [x \in Channels |-> IF x \in gone THEN None ELSE Without(channel[x], gone, lost)]
    /\ message' = [m \in Messages |-> IF m \in lost THEN None ELSE message[m]]
Going(r) ==
    {x \in task[r].seen : channel[x] # None
                          /\ (x = task[r].id \/ channel[x].parent = task[r].id)}
EraseChannels(r) ==
    /\ task[r].at = "erase channels"
    /\ Going(r) # {}
    /\ Erased(Going(r), {m \in Messages : message[m] \in Going(r)})
    /\ Done(r)
    /\ UNCHANGED <<used, posted, moved, opened>>
-----------------------------------------------------------------------------
(* CreateThread.                                                           *)

CreateThread(r, parent, starter) ==
    /\ Is(parent, {"TEXT"})
    /\ starter # None => message[starter] = parent
    /\ Begin(r, [Idle EXCEPT !.at = "insert thread",
                             !.row = [type |-> "THREAD", parent |-> parent, position |-> 0,
                                      starter |-> starter, pair |-> {}]])
    /\ UNCHANGED <<rows, used, posted, moved, opened>>

\* One Thread for a starter Message (channels_starter_message_idx).  The reference
\* to the Guild waits for a transaction that has locked its row.
NoThreadFrom(m) == m # None => \A c \in Channels : channel[c] # None => channel[c].starter # m
InsertThread(r, c) ==
    /\ task[r].at = "insert thread"
    /\ ~ GuildLocked
    /\ c \notin used
    /\ ReferencesExist(task[r].row)
    /\ NoThreadFrom(task[r].row.starter)
    /\ channel' = [channel EXCEPT ![c] = task[r].row]
    /\ used' = used \cup {c}
    /\ Done(r)
    /\ UNCHANGED <<message, posted, moved, opened>>
-----------------------------------------------------------------------------
(* OpenDirectChannel.                                                      *)

OpenDirectChannel(r, pair) ==
    /\ Begin(r, [Idle EXCEPT !.at = "insert direct",
                             !.row = [type |-> "DIRECT", parent |-> None, position |-> 0,
                                      starter |-> None, pair |-> pair]])
    /\ UNCHANGED <<rows, used, posted, moved, opened>>

DirectsOf(pair) == {c \in Channels : Is(c, {"DIRECT"}) /\ channel[c].pair = pair}
Answer(pair, c) == opened' = [opened EXCEPT ![pair] = @ \cup {c}]

\* INSERT ... ON CONFLICT DO NOTHING: it waits for a transaction that has inserted
\* the same key and not committed.
InsertDirectUnkeyed(r, c) ==
    /\ task[r].at = "insert direct"
    /\ DirectsOf(task[r].row.pair) = {}
    /\ c \notin used
    /\ used' = used \cup {c}
    /\ Go(r, [task[r] EXCEPT !.at = "commit direct", !.id = c])
    /\ UNCHANGED posted
InsertDirect(r, c) ==
    /\ task[r].at = "insert direct"
    /\ DirectsOf(task[r].row.pair) = {}
    /\ \A q \in Requests : task[q].at = "commit direct" => task[q].row.pair # task[r].row.pair
    /\ c \notin used
    /\ used' = used \cup {c}
    /\ Go(r, [task[r] EXCEPT !.at = "commit direct", !.id = c])
    /\ UNCHANGED posted
CommitDirect(r) ==
    LET k == task[r]
    IN  /\ k.at = "commit direct"
        /\ channel' = [channel EXCEPT ![k.id] = k.row]
        /\ Answer(k.row.pair, k.id)
        /\ Done(r)
        /\ UNCHANGED <<message, used, posted, moved>>
\* The Channel is there already: the next statement finds it by its key.
FindDirect(r, c) ==
    LET k == task[r]
    IN  /\ k.at = "insert direct"
        /\ c \in DirectsOf(k.row.pair)
        /\ Answer(k.row.pair, c)
        /\ Done(r)
        /\ UNCHANGED <<rows, used, posted, moved>>
-----------------------------------------------------------------------------
(* Messages.                                                               *)

\* The id and the time of a Message are taken before it is inserted.
CreateMessage(r, c) ==
    /\ Is(c, TextLike)
    /\ posted < MaxMessages
    /\ posted' = posted + 1
    /\ Begin(r, [Idle EXCEPT !.at = "insert message", !.id = c, !.message = posted'])
    /\ UNCHANGED <<rows, used, moved, opened>>
InsertMessage(r) ==
    /\ task[r].at = "insert message"
    /\ channel[task[r].id] # None
    /\ message' = [message EXCEPT ![task[r].message] = task[r].id]
    /\ Done(r)
    /\ UNCHANGED <<channel, used, posted, moved, opened>>

\* DeleteMessage is one statement; a Thread that began at the Message keeps going.
DeleteMessage(r, m) ==
    /\ task[r] = Idle
    /\ started < MaxRequests
    /\ message[m] # None
    /\ Erased({}, {m})
    /\ started' = started + 1
    /\ UNCHANGED <<used, posted, task, moved, opened>>
-----------------------------------------------------------------------------
Next ==
    \/ \E r \in Requests, type \in Listed, parent \in Channels \cup {None} :
         CreateChannel(r, type, parent)
    \/ \E r \in Requests, c \in Channels :
         InsertChannel(r, c) \/ DeleteChannel(r, c) \/ InsertThread(r, c)
           \/ InsertDirect(r, c) \/ FindDirect(r, c) \/ CreateMessage(r, c)
    \/ \E r \in Requests, c \in Channels, fields \in SUBSET Fields \ {{}},
          position \in Position, parent \in Channels \cup {None} :
         UpdateChannel(r, c, fields, position, parent)
    \/ \E r \in Requests, c \in Channels, starter \in Messages \cup {None} :
         CreateThread(r, c, starter)
    \/ \E r \in Requests, pair \in Pairs : OpenDirectChannel(r, pair)
    \/ \E r \in Requests, m \in Messages : DeleteMessage(r, m)
    \/ \E r \in Requests : LockGuild(r) \/ WriteChannel(r) \/ SeeChannels(r) \/ EraseChannels(r)
                             \/ CommitDirect(r) \/ InsertMessage(r) \/ Fail(r)

Spec == Init /\ [][Next]_vars
-----------------------------------------------------------------------------
(* Properties.                                                             *)

Places == {"idle", "lock guild", "insert channel", "update channel",
           "delete channel", "erase channels", "insert thread", "insert direct",
           "commit direct", "insert message"}
ChannelsTypeOK ==
    /\ channel \in [Channels -> Row \cup {None}]
    /\ message \in [Messages -> Channels \cup {None}]
    /\ used \subseteq Channels /\ moved \subseteq Channels
    /\ posted \in 0..MaxMessages /\ started \in 0..MaxRequests
    /\ task \in [Requests -> [at : Places, id : Channels \cup {None}, row : Row \cup {None},
                              fields : SUBSET Fields, seen : SUBSET Channels, message : Messages \cup {None}]]
    /\ opened \in [Pairs -> SUBSET Channels]

\* Whatever is deleted meanwhile, a Channel's parent is a Category, a Thread's a
\* text Channel, to which the Thread's starter belongs, no two Threads share a
\* starter, and every Message is in a Channel for texts (checkCategory, CreateThread,
\* CreateMessage, DeleteChannel and the foreign keys).
ReferencesHold ==
    /\ \A c \in Channels : channel[c] # None /\ channel[c].parent # None =>
         IF channel[c].type = "THREAD" THEN Is(channel[c].parent, {"TEXT"})
         ELSE channel[c].type \in {"TEXT", "VOICE"} /\ Is(channel[c].parent, {"CATEGORY"})
    /\ \A c, d \in Channels :
         channel[c] # None /\ channel[d] # None /\ channel[c].starter # None =>
           /\ channel[c].type = "THREAD"
           /\ message[channel[c].starter] = channel[c].parent
           /\ channel[d].starter = channel[c].starter => c = d
    /\ \A m \in Messages : message[m] # None => Is(message[m], TextLike)

\* Channels created at the same time get different positions, which only
\* UpdateChannel can make equal (the lock of CreateChannel).
PositionsDiffer ==
    \A c, d \in Channels \ moved :
        Is(c, Listed) /\ Is(d, Listed) /\ channel[c].position = channel[d].position => c = d

\* A pair of Users is answered the same Channel whenever and by whomever it is
\* opened, and the Channel stays theirs (OpenDirectChannel, DeleteChannel,
\* UpdateChannel).
OneDirectChannel ==
    \A p \in Pairs : \A c, d \in opened[p] : c = d /\ Is(c, {"DIRECT"}) /\ channel[c].pair = p
=============================================================================
