# aster-server in TLA+

Formal models of [aster-server](../src), the Go server of the Aster chat service
(REST API, WebSocket Gateway, voice, attachments, accounts; state in PostgreSQL
and in process memory). The models are checked with TLC on small instances, and
every safety property and refinement that a passing run checks is
proved with TLAPS for every value of the constants.

Contents: [1 Inventory](#1-inventory) - [2 Modules](#2-modules) -
[3 How the models correspond to the code](#3-how-the-models-correspond-to-the-code) -
[4 Runs](#4-runs) - [5 Fairness](#5-fairness) - [6 Proofs](#6-proofs) -
[7 Findings](#7-findings) - [8 What is not modelled](#8-what-is-not-modelled) -
[9 Plan](#9-plan)

## 1 Inventory

Paths are below `src/internal/` unless they start with another directory.

| Component | State | Operations | What makes it correct |
| --- | --- | --- | --- |
| Gateway hub (`gateway/hub.go`) | process memory under one mutex: Sessions by id and by User, each with sequence, replay buffer, client, time of disconnection | identify, resume, detach, the publish functions, prune | a client that resumes sees the Session's events once, in order, without a gap; limits hold; every User who loses the last Session is reported gone once |
| Gateway connections (`gateway/service.go`) | per connection: a goroutine (ServeHTTP), a write goroutine, a bounded queue, a `done` channel | IDENTIFY, RESUME, HEARTBEAT, write, terminate | dead peers are noticed and detached; a takeover does not disturb the new connection |
| Voice (`voice/service.go`) | process memory: one entry per User | Join, UpdateState, Leave, Evict | a voice session ends once and never comes back |
| Presence and userGone (`chat/presence.go`, `httpapi/voice.go`) | process memory: status per User | SetPresence, ClearPresence, userGone | a User who is gone leaves Voice and becomes OFFLINE |
| Attachments (`chat/attachments*.go`, migration 10) | rows, deletion queue (a trigger fills it), Objects in S3 | intent, upload, finalize, claim by a Message, delete and cascade | what a Message shows is there and stays; nothing is left behind |
| Janitor (`media/janitor.go`) | its pass | expire, list, delete, complete | every deleted row's Object goes, through failures and restarts |
| Sessions and tokens (`auth/service.go`, `auth/postgres.go`) | users, identities, sessions, refresh tokens | Register, Login, Refresh, Logout, Authenticate | one usable pair of tokens per session; a replay ends the session; what has ended stays ended |
| Mailed codes (`auth/account*.go`) | email_tokens | verify, reset password, link, unlink | one code works; a reset signs out |
| Google sign-in (`auth/google*.go`) | login attempts, identities | start, callback, exchange, link | one User per Google account; no login without a method |
| Roles and permissions (`chat/roles*.go`, `chat/permissions.go`) | guild_roles, guild_member_roles | create, update, delete, assign | nobody acts above their rank or beyond their permissions |
| Members and invites (`chat/members*.go`) | guild_members, guild_invites | invite, accept, leave, remove, update | only Members hold Roles; an invite is used at most so often |
| Guilds, Channels, Threads, direct channels (`chat/service.go`, `chat/channels_postgres.go`) | guilds, channels | create, update, delete | nothing points to what is deleted; one direct Channel per pair |
| Messages and reactions (`chat/postgres.go`) | messages, message_reactions | create, edit, delete, list, react | events follow what was committed |
| Read states (`chat/readstate*.go`) | read_states | mark, list | a marker never moves backward |
| HTTP API (`httpapi/`) | a limiter's windows | decode, authenticate, call a service, publish | each committed change is published to the right Users |
| Voice provider, mail, Object Storage, configuration, process | external or constant | | |

How they interact. An HTTP handler authenticates its caller (`auth`), calls
`chat` or `voice`, and *after* the transaction has committed it asks `chat` for
the recipients and calls a publish function of the Gateway, which appends to
each Session's buffer and to its connection's queue. The hub calls `userGone`
in a goroutine of its own when a User's last Session is dropped; `userGone`
calls `voice.Evict` and `chat.ClearPresence`, which publish again. `voice` asks
`chat` (the database) for permissions between two of its critical sections.
Deleted attachment rows reach the Janitor through a table, and the client and
the Janitor meet only in the Object Storage.

What is hard: goroutines of one connection against hub operations of others;
results of a query used after others have written (nothing in `chat` locks what
it checks, apart from the few `FOR UPDATE`s); work a crash interrupts between
two stores (database and S3); callbacks that run late; bounded queues and
buffers. `PROJECT.json` lists these hazards, each at its line, with the
properties that watch it.

## 2 Modules

| Module | Models | Composes |
| --- | --- | --- |
| `GatewayHub` | the hub and all its connections | refines `SessionStream` and `GatewaySessions` |
| `SessionStream` | abstract: each Session is a log, each connection reads it without gap, duplicate or change | |
| `GatewaySessions` | abstract: which Sessions each User has, and the onUserGone calls started | |
| `VoicePresence` | voice states, Presence, userGone | takes the Gateway as `GatewaySessions` |
| `Attachments` | rows, Objects, the deletion queue, the Janitor, restarts | |
| `AuthSessions` | sessions, token rotation, mailed codes, password reset | |
| `AuthIdentities` | Google login attempts, sign-in, link and unlink | refines `Accounts` |
| `Accounts` | abstract: the authentication methods of every User, changed atomically | |
| `GuildRoles` | Roles, Members and permissions of one Guild | |
| `GuildMembers` | who is a Member of one Guild | |
| `Invites` | invites and Members of one Guild, and its deletion | extends `GuildMembers` |
| `Channels` | Channels, Threads, direct Channels and Messages of one Guild | |
| `ReadStates` | read positions | extends `Channels`, whose steps are its environment |
| `GuildEvents` | changes of a Message, its reactions and the Members, and the events that announce them | extends `GuildMembers`; hands events to the hub, which keeps their order (`GatewayHub`) |
| `RequestLimiter` | the fixed window limiter | |
| `Listing` | reading a collection page by page | extends `RequestLimiter`, which every request passes |
| `GatewayHubProofs`, `VoicePresenceProofs`, `AttachmentsProofs`, `AuthSessionsProofs`, `AuthIdentitiesProofs`, `GuildRolesProofs`, `ReadStatesProofs` | theorems about the module of that name (the last also about `Channels`) | |
| `ChatProofs` | theorems about `Invites`, `GuildEvents`, `RequestLimiter` and `Listing` | |
| `MC*` | instances for TLC | |

`GatewaySessions` is the joint of the composition: `GatewayHub` is checked to
implement it (`ImplementsSessions`), and `VoicePresence` uses its actions as the
environment of voice states and Presence, so what is shown there holds for the
hub without carrying queues and buffers along.

Definitions that stand before another one and vary its name (`ResumableGap` before
`Resumable`, `GuildUnlocked` before `GuildLocked`) are not part of any
specification. Each is the form a plausible bug would give the definition, and
`PROJECT.json` pairs it with the property that must then fail.

## 3 How the models correspond to the code

### GatewayHub

Every function of the hub holds `hub.mu` from its first line to its last, so it
is one action: `Identify`, `IdentifyRefused`, `Resume`, `ResumeRefused`,
`ResumeFails`, `Publish`, `Detach` (inside `Return`), `Sweep`. A pruning at the
start of each of them is `live' = Retained` together with `CallUserGone`. What
runs without the lock interleaves: ServeHTTP's loop (`Connect`, `GiveUp`,
`Heartbeat`, `LeaveLoop`, `Return`), `writeLoop` (`WriteLoop`, `WriteFails`) and
the callbacks (`RunUserGone`).

- `client.enqueue` selects between `done` and a send on a buffered channel. Go
  takes either ready case, so a terminated connection with room may accept or
  refuse (`MayAccept`, `MayRefuse`). A refusal terminates the connection, and the
  hub detaches the Session.
- A connection whose ServeHTTP has returned becomes `free` and its variables are
  reset; a later `Connect` of the same value is a new connection.
- A Session's id is never reused (`issued`); `user`, `intents` and so on keep
  their value after it is pruned.
- Time appears only as `disconnectedAt`: nil, `recent`, or `expired` once the
  retention period is over (`RetentionElapses`).
- Payloads are abstracted to the event's name and to whether a Message's content
  is included (`messageEventPayload`). The publish functions differ in intent and
  payload only and are one action; `publishToUser` ignores intents
  (`READ_STATE`).
- The Token a HEARTBEAT carries is not followed: an expired one is one of the ways
  `LeaveLoop` is taken. The payloads a failing RESUME has already
  queued may still be written before the connection closes; they are followed
  by INVALID_SESSION and the connection is closed with them in
  `ResumeFails`. The deferred detach and terminate of ServeHTTP are one step.
- Errors of `uuid.NewV7` and `json.Marshal` are left out.

`log`, `pos` and `got` are history: what each Session dispatched and what each
connection was last sent. No action's guard reads them.

### VoicePresence

The two maps are locked for one read or one write. A goroutine's `at` says
where it stands between two of them. `AuthorizeVoice` is answered
nondeterministically, because permissions change at any time: go on, refuse, or
fail; UpdateState evicts on every error, one of a failing database included.
`Evict` takes out the entry the User has *by then*. Closing the Provider's
session changes nothing in the server. A restart empties all of this state and
is not a separate action.

`ended`, `leaves`, `lateStatus` and `lateVoice` are history, which no guard reads.
SetPresence and Join write after a wait, when the User's last Session may be gone and
userGone over: `lateStatus` and `lateVoice` hold the Users whose status or voice session
was stored then, until one is stored in time. `GoneIsCleared` excepts these Users and no
others; what the code does there contradicts the server's README, see
[Findings](#7-findings).

### Attachments

One SQL statement or one transaction that locks what it reads is one step.
`FinalizeAttachment` is two (Stat, then MarkAttachmentReady), a Janitor pass is
one per statement and per call to the storage, and any of them may fail.
`Restart` drops what is in memory. Ages are four classes: the upload URL is
valid (15 minutes), it is not, an hour, a day. The storage stores an Object only
if it matches what was declared (the signed checksum), so a mismatch is "no
change". An upload is atomic and ends before its URL does. One Channel is
modelled, so `DeleteChannel` deletes every row. The order of the deletion queue
is commit order; in the code it is the start time of the transaction.

### AuthSessions

A pair is the access and the refresh token issued together. `RotateSession`,
`RevokeSession` and `ResetPassword` lock the rows they read and are one step;
`Login` verifies a password and opens the session in two. `expiry` goes fresh,
access token expired, both expired. A password is its version. `opened`, the
password's version when a session was opened, and `replayed` are history. A User
whose Password identity was unlinked (`unlinked`) cannot log in with it, and a reset
code they still hold is spent without any other effect (`ResetFindsNone`).

### AuthIdentities and Accounts

A row of `oauth_logins` goes from begun over claimed (the callback has used its
state) to granted (an Exchange Code has been issued); `AttemptFails` is a User who
refuses, a failing exchange with Google or the end of the code's minute. Google may
name any account with any verified address, and another address the next time. The
Exchange Code is consumed by one UPDATE (`Consumable`, `Spend`) before the handler
does anything else. `SignInGoogle` then looks for the identity without a lock
(`FindIdentity`), and inserts User and identity later (`SignInNew`); the unique
indexes on `normalized_email` and on provider and subject decide a race there
(`SignInRefused`), which the loser sees as "link required" or as an internal error.
`LinkGoogle` and `UnlinkAuthenticationMethod` lock the User's row and hold the lock
from their check to their commit (`Locked`). A request that inserts a key which
another transaction has inserted waits for that transaction, so an insertion and its
commit are one step. A password identity is its address. `uses`, `origin` and
`sessions` are history. `Accounts` says what this amounts to: a User opens with one
method, adds at most one Google account, removes a method unless it is the last, and
no method has two Users.

### GuildRoles

A request reads the caller's authority (`GetAccess`), then the Role or Member it
is about, decides, and writes; each is a statement of its own and nothing is
locked in between, so each is a step. `SetMemberRoles` is a transaction of
several statements under READ COMMITTED: `ClearRoles` fixes which assignments
its DELETE sees, `SetRoles` is the commit. If two such transactions delete the
same rows, the second finds them gone, and what the first inserted stays: two
overlapping assignments may leave the union of both (`kept`). A duplicate key, a
Role or a Member that is gone, fail the transaction. `alone` is history: nothing
else has changed the Guild since the request began. `granted` and `ceiling` are
history too. The Owner is fixed (nothing transfers a Guild), permissions are a
set, names, colors and nicknames carry no authority.

### Invites

`AcceptInvite` is a transaction of three statements: `LockInvite` locks the invite's
row and answers what needs no write, `InsertMember` inserts the membership, and
`CommitAccept` counts the use and commits, after which the answer may be lost
(`"unheard"`). The row lock keeps other accepts of the invite and its revocation out
in between, and nothing else: Members leave and are removed, the clock advances, the
same User accepts another invite. An uncommitted membership makes a second INSERT of
it wait. DeleteGuild locks the Guild's row first (`LockGuild`), which a new membership
refers to, and cascades to the invites when no accept holds them. The request's own
clock, read on arrival, decides about the expiry (`late`). Who may create or revoke is
the subject of `GuildRoles`: a permission that was checked may be lost by the time of
the write.

### GuildEvents

A handler commits, asks the database who is to be told (`AskAudience`, under a
context of its own that the client cannot cancel), and calls the hub (`Publish`). The
hub gives events to Sessions in the order of the calls, which is what `GatewayHub` is
about, so one client that has every intent and applies each event as it comes stands
for the receivers: `view` is the Owner's knowledge of the Message and the Members,
`own` each User's of their own membership. What the client makes of an event (`Shown`)
is the protocol's meaning of it and not code of this repository. A reaction is a
transaction that changes a row and counts (`CountReactions`) before it commits; its
uncommitted row makes a second change by the same User and the deletion of the Message
wait (`RowHeld`). `AnnouncementFails` is everything that leaves a committed change
unannounced: reading the result back after the commit, the query for the audience, or
the process going away. `torn` is history: the subjects of changes that overlapped or
went unannounced. Deleting a Guild announces nothing, so nothing is claimed then. One
Message, one emoji; messages are versions.

### RequestLimiter and Listing

The limiter holds its mutex in `Take` and `Reset`; both are one action, time passes in
ticks. An entry whose window is over stays in the table until its key is used or the
full table is purged by an unknown key (`Remaining`). `admitted` is history: a key's
requests of the last window's length.

`Listing` is a client that goes from page to page through one of the seven keyset
queries. They differ in what the properties tell apart in two ways only: whether a row
that stays can change its place in the order (a Channel's position, a Thread's or
direct Channel's last Message, a membership renewed), and where the caller's access is
checked (before the query, when it is empty, or not at all because the list is the
caller's own). Each request passes `Take` first; one row more than the page is read
to see whether there is another page; the cursor is the place of the last row
returned. Meanwhile rows appear, vanish and move. `steady` is history: the rows
that have been there, unmoved, from the start.

### Channels and ReadStates

A request checks (one step, one or more reads) and then writes; what it has read
may be gone by then. One statement is one step, except where a statement or a
transaction of several can be seen from outside: CreateChannel holds the lock of
the Guild's row between reading the next position and committing, and inserting
a Thread waits for that lock, because its reference to the Guild does;
DeleteChannel fixes by its snapshot which Threads it will delete (`SeeChannels`),
and re-examines the rows when it gets to them (`EraseChannels`);
OpenDirectChannel holds its new key until it commits, and any other INSERT of the
key waits. The foreign keys are enforced when a row is written
(`ReferencesExist`) and when one goes (`Erased`: SET NULL for parents and
starters, CASCADE for Messages and read positions). `Fail` is every refusal,
missing row, violated constraint and failing statement: the handler answers an
error and nothing is written. `fields` are the fields the body of an UpdateChannel
has; names and topics are left out, so an update of these alone changes nothing.
`moved` and `opened` are history. A Message is the number of its time and id.

UpdateReadState is a transaction of three statements under READ COMMITTED.
`SELECT ... FOR UPDATE OF rs` finds no row and locks nothing, or locks the row, or
waits for another transaction that has locked it (`WaitForRow`). After waiting
(`GetRow`) Postgres takes the newest version of the *locked* row and joins it with the
Message row it found before: if the position has changed, they do not match, the LEFT
JOIN gives no time, and the code takes the position for one whose Message was
deleted. `alone` is history: no other update of the same position was written since
this one began.

## 4 Runs

All bounds are in the `.cfg` files. The number of distinct states is from a run
to completion.

| Run | Question | Bounds | States |
| --- | --- | --- | --- |
| `gateway_stream` | Is a Session's stream intact over reconnections, are events written and dead peers forgotten? | 1 Session, 2 connections, a buffer of 1, 3 events | 184,546 |
| `gateway_sessions` | Do limits, attachments and onUserGone survive several Users? | 2 Users, 2 ids, 2 connections | 393,406 |
| `voice_live` | Do voice sessions end once, and do the gone leave? | 2 Channels, 2 voice ids, 2 requests, 1 callback | 323,593 |
| `attachments` | Are rows, Objects and queue consistent, and is what is abandoned removed? | 1 User, 2 attachments, 1 Message, a quota of 1 | 37,398 |
| `auth_sessions` | Do tokens, replays, codes and resets do what they promise? | 2 sessions, 4 pairs, 2 codes | 244,813 |
| `identities` | Does every User keep a way in, and every Google account one User? | 2 Users, 2 addresses, 2 Google accounts, 2 attempts, 2 requests | 43,363 |
| `guild_roles` | Does anyone gain authority, however requests overlap? | 3 Users, 3 Roles, 2 permissions, 3 requests, 2 at a time | 1,116,901 |
| `invites` | Is each membership counted once, within max_uses? | 3 Users, 2 invites, 3 accepts, max_uses none or 1 | 2,796,416 |
| `guild_events` | Do clients know what is stored where changes did not overlap? | 3 Users, 3 changes | 728,245 |
| `read_states` | Do references, positions, direct Channels and read positions stay right? | 4 Channels, 2 Messages, 3 requests, 2 at a time, 3 read updates, 2 at a time | 233,463 |
| `listing` | Is nothing skipped or repeated, and does the limiter limit? | 3 rows, 2 places, pages of 1, 2 keys in a table of 1, 1 request in 2 ticks | 403,594 |
| `reads_back` | expected violation, see [Findings](#7-findings) | 1 Channel's position, 2 updates | |

Why the bounds are enough to reach what matters:

- `gateway_stream`: three numbered events (READY among them) through a buffer of
  one let the window slide past a disconnected client, so RESUME is refused, replays
  the last event, or has nothing to replay; two connections take the Session from
  each other with a late detach pending; one acknowledgement and a slack of two make
  queues overflow during a publish.
  A larger buffer, of which RESUME replays a part, is what the theorems below are
  about: all but liveness is proved for every size (`ReplayFits` for every slack of
  two or more).
- `gateway_sessions`: two Users and two ids with one Session per User reach a
  refused IDENTIFY, a prune that makes room for the same IDENTIFY, a RESUME of
  somebody else's Session, and publishes to several Sessions.
- `voice_live`: two voice ids are a Join over a Join (in the same or another
  Channel); two requests and a callback are every pair of overlapping operations
  together with userGone.
- `attachments`: two attachments and a batch of one make a pass leave work behind;
  the quota of one is reached and freed again; one attachment is on the Message while
  the other is finalized, expires or is deleted. What takes two Users or two Messages
  is proved for any number (`AttachmentsProofs`).
- `auth_sessions`: a chain of three rotations in one session beside another
  session; two codes per purpose and address.
- `identities`: two attempts are a sign-in against a sign-in, a link against a
  sign-in or two links, of one Google account or two, by one User or two; two requests
  overlap in every pair of handlers. More of each is covered by the proofs.
- `invites`: three accepts are a race for the last use after an earlier one, and one
  User through two invites.
- `guild_events`: three changes are a pair that overlaps and one before, between or
  after; three Users are the author, another who reacts, and one who leaves.
- `listing`: pages of one put every row at a page's end; two places for three rows
  force equal keys; a table of one is full as soon as the other key is in it.
- `guild_roles`: two overlapping requests after or before a third, in two Guilds
  chosen so that every operation succeeds for someone who is not the Owner. The
  positions stop at 3 (`MaxPosition`).
- `read_states`: two requests overlap after or before a third, on a text Channel, a
  Category and two more Channels of any type: a creation against a deletion of
  the parent, two creations, two opens of one direct Channel, a Thread from a
  Message that is deleted. Two updates of one position overlap after a third, before,
  after and while Messages and the Channel are deleted.

Symmetry is used in safety runs only, and only over values nothing tells apart;
`voice_live`, `gateway_stream`, `attachments` and `listing` check liveness and use
none. Deadlock is checked, except in the `guild_roles`, `guild_events`, `invites`,
`identities`, `read_states` and `reads_back` runs, where the number of requests or
attempts is bounded and the instance stops when they are used up.

The properties, by run:

- `gateway_stream`. `WritesInOrder`: whatever a connection writes next
  continues its Session's stream. `ReplayFits`: a queue of
  `EventBufferSize + 8` always has room for a whole replay. `ImplementsStream`:
  refinement of `SessionStream`. `DeadPeerIsForgotten`: a peer that vanishes is
  detached and its Session dropped once its connection has ended. `DispatchIsWritten`:
  what was dispatched is written or given up with the Session.
- `gateway_sessions`. `NoLeakedSession`, `ServedIsAttached`, `WithinCapacity`,
  and `ImplementsSessions`: refinement of `GatewaySessions`.
- `voice_live`. `NoResurrection`, `EndsOnce`. `GoneLeavesVoice`: the voice session held
  when the User is reported gone ends. `GoneIsCleared`: a User who stays without a
  Session becomes OFFLINE and leaves Voice *and stays so*, unless a status or a voice
  session was stored when nothing was left that would end it.
- `attachments`. `ReadyHasObject`, `OnlyTheDeletedAreQueued`, `WithinQuota`,
  `MessageKeepsAttachments`. `NothingLingers`: what nobody uses expires, and what is
  deleted leaves the queue; and the Object of a queued key leaves the storage for good,
  except for what a URL that is still valid uploads once it was removed.
- `auth_sessions`. `OnePairPerSession`, `ReplayEndsSession`, `EndedIsFinal`,
  `OneCodeWorks`, and `ResetSignsOut`: a session open at a password reset never works
  again.
- `identities`. `CodeServesItsPurpose`: an Exchange Code is good for one sign-in, or
  for one link to the User who began it. `NoSignInByAddress`: Google opens a session
  for the User it created or who linked it, never for the owner of the address.
  `ImplementsAccounts`: refinement of `Accounts`.
- `invites`. `JoinsAreCounted`: every new Member is one use of one open invite within
  max_uses. `OnlyOneselfCollides`: no accept fails on the CHECK of the database, and on
  its primary key only if the User has come in through another invite.
- `guild_events`. `SettledIsKnown`: a Message's text, who has reacted, how many have and
  who is a Member are known as stored, once changes that did not overlap are announced.
  `TheRemovedAreTold`: one who leaves or is removed learns it, although no longer
  listed.
- `listing`. `NothingIsSkipped`: what was there and kept its place is returned exactly
  once. `LimitHolds`: a key is admitted fewer than twice the limit in any window's
  length, and the table keeps its bound. `ListingEnds`: a client that goes on asking is
  answered to the end, unless other keys keep the table full for ever.
- `guild_roles`. `GuildIntact`: the keys and checks keep Roles, assignments and
  memberships consistent. `OnlyTheOwnerExtends`: no coalition of Members, however
  their requests overlap, puts a permission into a Role that the Owner never put
  into one, or raises a Role above the Owner's highest. `WithinAuthority`: a
  request nothing overlapped stays within its caller's rank and permissions.
- `read_states`. `ReferencesHold`: whatever is deleted meanwhile, parents, starters
  and Messages refer to what exists and is of the right type. `PositionsDiffer`:
  Channels never moved have different positions. `OneDirectChannel`: a pair is
  answered the same Channel, always. `AloneReadsForward`: a read update nothing came
  between moves the position forward.

Every type invariant is proved (section 6).

## 5 Fairness

- Gateway. Goroutines are scheduled: a read on a terminated connection returns
  (`LeaveLoop` when `done`), deferred calls run (`Return`), `writeLoop` writes or
  its 5 second deadline fails it, callbacks run. The clock advances
  (`RetentionElapses`), and `main.go` sweeps every 15 seconds. Nothing is assumed
  of clients; a peer that has vanished is still `Served` until the read deadline
  ends `LeaveLoop`, which the model does not force.
- Voice. Each step of a started task is taken, and a waiting callback starts once
  a goroutine is there for it (strong, because `Callbacks` bounds goroutines the
  code does not bound).
- Attachments. The clock advances, passes go on, and a statement tried for
  ever succeeds some day (strong fairness of each success): a database or storage
  that never answers again is outside these properties. Restarts may happen for
  ever.

- Listing. The client asks until it is answered, time passes, and the handler answers.
  Admission is strongly fair: other requests may find the limiter's table first for a
  while, not whenever this client asks. That they may do so for ever is the premise
  `ListingEnds` excludes.

## 6 Proofs

`GatewayHubProofs` proves, for any sets of Users, Sessions and connections, any
buffer size, slack and limits (`ConstantsAssumption`, and for `ReplayFitsQueue` also
`QueueSlack >= 2`; the code has 8):

| Theorem | Property |
| --- | --- |
| `TypeCorrect` | `TypeOK` |
| `BufferCorrect` | `BufferIsWindow` |
| `DeliveryInOrder` | `WritesInOrder` |
| `NothingIsMissed` | `AttachedMissesNothing` |
| `NoSessionLeaks` | `NoLeakedSession` |
| `ServedStaysAttached` | `ServedIsAttached` |
| `StreamImplemented` | `ImplementsStream` |
| `ReplayFitsQueue` | `ReplayFits` |
| `CapacityKept` | `WithinCapacity` |
| `SessionsImplemented` | `ImplementsSessions` |

The inductive invariant is

    IInv == TypeOK /\ AttachInv /\ ConnInv /\ BufferIsWindow /\ StreamInv /\ FreshInv

`WritesInOrder` speaks of the head of a queue only and is not inductive:
`StreamInv` says of the *whole* queue that its dispatches continue the stream
from `pos` in increasing order without a gap (`QueueOK`), and, of the connection
a Session is attached to, that nothing up to `sequence` is missing (`Complete`).
`Complete` is what lets a publish append the next number; it rests on
`AttachInv` (Session and connection point at each other, or the retention clock
runs) and `ConnInv` (what is bound, and what an unbound connection holds).
`BufferIsWindow` makes the replay of a RESUME a suffix of the window, and with the
guard of `Resumable` the one that begins right after the client's position
(`ReplayIsSuffix`, `ReplayInOrder`). `FreshInv` gives IDENTIFY an empty log. Each
action has a lemma; `NextIInv` combines them. The refinement maps each step of the
hub to growth of logs (`LogStep`) and one step or stutter per connection
(`ReaderStep`).

A connection that has not identified has at most HELLO in its queue (`HelloOnly`), so
two places beyond the buffer, for HELLO and RESUMED, are enough for any replay; with
one, a client that resumes before HELLO is written could be refused. `SessionsStep`
says what every action does to the live Sessions: nothing, or drop the expired ones and
start the calls due, or the same and open one Session for a User with room. Both
remaining theorems use only that: `CapacityInv` is the limit of the hub and of each User
together with the finiteness of `live`, and each case of `SessionsStep` is one `Change`
of `GatewaySessions` or a stutter (`GatewayStep`); a call that runs is its `Run`.

`GuildRolesProofs` proves, for any Users, Roles,
permissions and positions, any number of overlapping requests and any well-formed
Guild to begin with (`GuildAssumption` only):

| Theorem | Property |
| --- | --- |
| `TypeCorrect` | `TypeOK` |
| `RolesIntact` | `GuildIntact` |
| `NobodyElseExtends` | `OnlyTheOwnerExtends` |
| `AloneWithinAuthority` | `WithinAuthority` |

The invariants speak of the rows only; what makes them inductive is what a request
carries between its statements. `Checked` says what it has verified by the place
it has reached (the Role to delete is not the default one, the Member to remove
is not the Owner, a new row is above the bottom). `Bounded` says that what anyone
but the Owner has read, however long ago, and what they are going to write, is
within `granted` and `ceiling`: both only grow, so stale reads stay bounded, which
is why no interleaving extends authority. Rows written, deletions and new
assignments then keep `GuildOK`, one lemma per statement. That the highest
position of a set of Roles exists is `MaxPositionOf`, from the well-foundedness of
the natural numbers. For `WithinAuthority` a second invariant, `AloneInv`, says of
a request that nothing overlapped that all it has read is still so (`Current`);
each kind of write then has a lemma that it stays `Within` the caller's authority.

`VoicePresenceProofs`, for any Users, Channels, voice ids and any number of overlapping
operations (`VoiceAssumption`):

| Theorem | Property |
| --- | --- |
| `TypeCorrect` | `TypeOK` |
| `NeverComesBack` | `NoResurrection` |
| `ToldOnce` | `EndsOnce` |
| `OnlineWatched` | `OnlineIsWatched` |
| `VoiceWatched` | `VoiceIsWatched` |

Its invariant adds what each goroutine carries (`TaskOK`) and `SessionsOK`: a voice
session is the entry of one User, or it has ended and one goroutine is about to tell, or
it has been told. Two goroutines never hold the same ended session, because taking
an entry out of the map and marking it ended is one critical section. `OnlineIsWatched`
and `VoiceIsWatched` say that whoever is ONLINE, or in Voice, has a Session or a userGone
that has yet to end it, or is one of the late; they are the safety half of
`GoneIsCleared`, and no run checks them by themselves. They rest on `PInv`: the step that
drops a User's last Session starts the call, the goroutine takes the call's place, and
`GoneOK` says that a userGone stands at a place from which only `Clear` ends it,
whichever voice session it found.

`AttachmentsProofs`, for any Users, attachments, Messages, quota and batch size
(`AttachmentsAssumption`):

| Theorem | Property |
| --- | --- |
| `TypeCorrect` | `TypeOK` |
| `ReadyIsStored` | `ReadyHasObject` |
| `QueuedAreDeleted` | `OnlyTheDeletedAreQueued` |
| `QuotaHolds` | `WithinQuota` |
| `MessagesKeepTheirs` | `MessageKeepsAttachments` |

`QueueOK` says that the queue and the Janitor's batch hold only keys whose row was
deleted, so no Object of a live row is removed; `Stored` extends `ReadyHasObject` to the
requests between Stat and MarkAttachmentReady, as long as the row is there. The quota is
a fact about the cardinality of a set that one action extends, under the lock.

`AuthSessionsProofs`, for any Users, sessions, pairs and codes (`AuthAssumption`):

| Theorem | Property |
| --- | --- |
| `TypeCorrect` | `TypeOK` |
| `OnePair` | `OnePairPerSession` |
| `ReplayEnds` | `ReplayEndsSession` |
| `ResetEnds` | `ResetSignsOut` |
| `OneCode` | `OneCodeWorks` |
| `EndedStays` | `EndedIsFinal` |

What is inductive is `Chained`: the pairs of a session are its current one, which is
unconsumed, and older ones, whose refresh tokens are consumed. A replay is then a
pair that is not the current one, and its revocation is never undone.

`AuthIdentitiesProofs`, for any Users, addresses, Google accounts, attempts and
overlapping requests (`IdentitiesAssumption`):

| Theorem | Property |
| --- | --- |
| `TypeCorrect` | `TypeOK` |
| `CodeServes` | `CodeServesItsPurpose` |
| `SignInByIdentity` | `NoSignInByAddress` |
| `Refines` | `ImplementsAccounts` |

`RequestOK` is what a handler has established by the step it has reached, and `Apart`
what two handlers cannot both have: the same spent code, or the lock of the same User.
From the lock follows that between the check and the write of an unlink the User keeps
the other method, which is what the refinement needs of `DeleteIdentity`; a link's
insertion maps to `Add` because the unique index and the lock say the same at that
moment. `Known` ties every Google account to the sign-in or link it came from.

`ChatProofs`, for `Invites` with any Users, invites, accepts and max_uses
(`InvitesAssumption`), for `GuildEvents` with any Users and calls, and for
`RequestLimiter` and `Listing` with any keys, limits, windows, table sizes, rows and
page sizes:

| Theorem | Property |
| --- | --- |
| `InvitesTypeCorrect` | `InvitesTypeOK` |
| `CollisionsExplained` | `OnlyOneselfCollides` |
| `JoinsCounted` | `JoinsAreCounted` |
| `SettledKnown` | `SettledIsKnown` |
| `RemovedTold` | `TheRemovedAreTold` |
| `LimitKept` | `LimitHolds` |
| `NothingSkipped` | `NothingIsSkipped` |

For invites, again `Apart`: the lock of an invite and an uncommitted membership have one
holder each, so what `LockInvite` found about the uses is still so at the commit
(`AcceptOK`); whoever has become a Member in between has come through another invite
(`CollisionOK`).

What a client knows is stored truth only between calls, so the invariant behind
`SettledKnown` and `RemovedTold` says for every place a call can be at what it still
owes the client:

    EventsIInv == CallsInv /\ StoredInv /\ ApartInv /\ AgreeInv

`ApartInv` holds that a subject not torn has at most one call about it; `AgreeInv`, one
part per subject, that without a call client and store agree, and with one they differ
by exactly what that call will announce: the text it has committed, the count its
transaction has read (`CountFor`, which is right because a change of the count that
overlapped would have torn it), its own reaction, its own membership. The Owner is
never removed, so the audience of every event contains the client whose view is
modelled (`StoredInv`). Each part has a lemma for every action (`MessageStep`,
`CountStep`, `ReactionStep`, `MembershipStep`).

`LimiterIInv` splits a key's requests at the opening of its window. `WindowOK` bounds
those since (by the entry's count) and those before (below the limit); without a window,
what is left is below the limit (`RestOK`), so the request that opens the next one starts
with room. Ageing moves requests across that boundary and out of the range
(`SpentAged`, `WindowAges`), a purge removes only entries that no longer count.

For `Listing`, `SeenInv` says that a row that keeps its place has been returned once if
it is at or before the cursor and not at all if it is after. `CursorAdvances` gives the
page its meaning: the rows of the page are exactly those between the old cursor and the
new one. It rests on the ranks of the rows in a finite order (`RankGrows`,
`FirstAndLast`): the page is the rows of the lowest ranks, at most as many as were asked
for (`FirstOfLimits`). `MoreOrAll` is the other half: when no further page is promised, the page
was everything.

`ReadStatesProofs`, for any Users, Channels, Messages and positions, any number of
overlapping requests and of updates of read positions, and any Guild of parentless
TEXT Channels and CATEGORYs with different positions to begin with
(`ChannelsAssumption`, `ReadsAssumption`):

| Theorem | Property |
| --- | --- |
| `TypeCorrect` | `TypeOK` |
| `ReferencesKept` | `ReferencesHold` |
| `PositionsKept` | `PositionsDiffer` |
| `OneForAPair` | `OneDirectChannel` |
| `ReadForward` | `AloneReadsForward` |

Checks and writes of these requests are different statements, so the invariant says
what a check is still worth when the write comes. `Carries` is what each request has
established: the parent it read was a CATEGORY, and, because ids are never issued
again and no statement changes a type, it is one as long as it is there (`Born`,
`Stays`; `Sent` for Messages); that it is there at the moment of the write is left to
the foreign key. `Reserves` and `Apart` are what only one request can hold: the next
position under the Guild lock, the id and the pair of an uncommitted direct Channel, a
Message not yet inserted. A read position rests on all of that, since `<` compares
Messages only while the old one exists: `Steady` states what every step of `Channels`
keeps, and with it `ReaderOK`, that what an update found stays below what it writes
unless another update or a deletion came between, survives each of them.

Only model-checked: liveness, for fairness and ENABLED are out of the prover's reach
(`DeadPeerIsForgotten`, `DispatchIsWritten`, `GoneLeavesVoice`, `GoneIsCleared`,
`NothingLingers`, `ListingEnds`). Every other property of a passing run is proved.

## 7 Findings

`reads_back` is a run whose single property is violated; `PROJECT.json` quotes the
lines. Two updates of one read position that overlap may leave the older one: the
first ones lock nothing, and one that had to wait for the lock is not compared with
what it waited for (`ReadsForward`).

A second disagreement is excepted by name from `GoneIsCleared` (`voice_live`). The
server's README says that a User of whom no Gateway Session is left is made OFFLINE
automatically (line 86), and leaves Voice as well once the retention is over (line 108).
SetPresence (`presence.go:75`) and Join (`service.go:106`) wait for the database and then
store without looking at the Sessions. In the model, as in the code: a User has a
Session; `StartPresence` or `JoinAuthorized`; the Session is dropped; `StartGone`,
`Evict` and `Clear` run to the end; then `SetPresence` or `JoinCommit` stores. The User
stays ONLINE, or in Voice, without a Session and with nothing under way that would
change it, until a later Session is lost or the server restarts (in Voice, also until
they leave or an update finds a permission lost). A request sent without any Session
does the same. `OnlineIsWatched` and `VoiceIsWatched` show that this is the only way.

Other behaviours worth knowing are reached in the models and have no run of their own:

- The callback for a User without a Session does not look again when it runs: a User
  who has connected meanwhile loses the voice state or the Presence of the new Session
  (`VoicePresence`, `Clear`).
- A Login that verified the old password before a reset opens its session after it
  (`AuthSessions`, `LoginCommit`).
- UpdateRole writes back the whole Role it read: a Member's edit of a Role undoes a
  concurrent change of a permission the Member does not hold. The same shape makes two
  overlapping SetMemberRoles leave the union of both sets of Roles (`GuildRoles`).
- The upload URL of an attachment outlives its row: an upload that ends after the
  Janitor has removed the key leaves an Object nothing refers to, although migration 10
  says that deleting a row never does (`Attachments`, `Put`).
- A Thread inserted after the snapshot of the statement that deletes its parent stays,
  without a parent, although the README and the comment on DeleteChannel say that
  Threads go with it (`Channels`, `InsertThread` between `SeeChannels` and
  `EraseChannels`).
- Two first sign-ins with one Google account whose address differs between them: the
  slower one ends in an internal error and works when repeated (`AuthIdentities`,
  `SignInRefused`).
- Events of overlapping changes to one Message, or of two reactions to it, may arrive
  in the other order than they were committed, and clients keep the older text or
  count until they reload; the deletion of a Guild is not announced
  (`GuildEvents`).

## 8 What is not modelled

- Replies, which are one nullable reference; the events of voice states, Presence,
  typing and read positions; MEMBER_UPDATE, whose content no property is about.
- Nicknames, names, topics, formatting, validation, the encoding of cursors: data no
  property is about. Password hashing, token signing, URL signing and the check of
  Google's ID tokens: pure.
- `UpdateGuild` and `UpdateMember`'s nickname: one row written in one statement.
- The branch of `VerifyEmail` for an address that "changed after the token was sent":
  no statement changes `users.normalized_email` and no User is deleted, so the UPDATE
  always finds the row. The like branch of `ResetPassword` is modelled, since the
  Password identity can be unlinked (`ResetFindsNone`).
- SMTP, LiveKit and S3 beyond "a call that may fail" and the set of keys.
- Deletion of Users, which the server does not offer; the deletion of the Guild in
  `Channels`, where all Users are Members of the one Guild and remain so; at most ten attachments per Message;
  deadlocks of database transactions, which Postgres resolves with an error, a
  branch every request has anyway.

## 9 Plan

Done: the Gateway (first, as every client depends on it), then what hangs on it
(voice, Presence), then the components with state in two places (attachments),
then accounts and authority, Channels and read positions, and last what handlers do
around a commit (invites, identities, events, listing and the limiter), with the
theorems for every safety property and refinement.

What is left, in this order:

1. Theorems that compose: what `Accounts` promises (every User keeps a method) as an
   invariant of the handlers through the refinement, and what `SessionStream` promises
   of two connections of one Session.
2. The safety half of the other liveness properties, as `OnlineIsWatched` and
   `VoiceIsWatched` are of `GoneIsCleared`: what is left to do while an Object has no row
   (`NothingLingers`).
3. Replies, and the events of read positions and Presence in `GuildEvents`.
