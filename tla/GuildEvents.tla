----------------------------- MODULE GuildEvents -----------------------------
(***************************************************************************)
(* Changes to the messages, reactions and Members of a Guild and the       *)
(* events that announce them (internal/httpapi/chat.go and members.go over *)
(* internal/chat's service and Postgres store).                            *)
(*                                                                         *)
(* A handler commits its change, asks the database who is to be told and   *)
(* hands the event to the Gateway's hub, which gives it to those Users'    *)
(* Sessions in the order of the calls (GatewayHub); then it answers.  The  *)
(* three are separate steps, so two handlers may announce in another order *)
(* than they committed, and a failure after the commit leaves a change     *)
(* unannounced.  Beside the stored state stands what a client knows that   *)
(* applies every event it is sent: the Owner's of the message and the      *)
(* Members, and every User's of their own membership.                      *)
(***************************************************************************)
EXTENDS GuildMembers, Integers, FiniteSets

CONSTANTS
    Calls          \* requests that change messages or Members, each used once

ASSUME GuildEventsAssumption == None \notin Calls \cup {"old"}

VARIABLES
    exists,        \* whether the Guild does
    text,          \* the message's version: None before creation and after deletion
    author,
    posted,        \* whether the message's id has been used
    reacted,       \* Users with a committed reaction row (of one emoji)
    call,          \* where a call stands
    op,            \* what it does
    by,            \* who sent it, or who joins or leaves
    changed,       \* reaction changes that found something to change
    tally,         \* the count a reaction change has read
    audience,      \* whom a call is about to tell
    view,          \* what the Owner's client knows
    own,           \* Users whose own client shows the Guild
    torn           \* subjects of overlapping or unannounced changes

guildVars == <<exists, member>>
messageVars == <<text, author, posted, reacted>>
callVars == <<call, op, by, changed, tally>>
noticeVars == <<audience, view, own, torn>>
eventVars == <<guildVars, messageVars, callVars, noticeVars>>

Busy(c) == call[c] \notin {"idle", "done"}

\* What a change is about.  A message's creation and deletion are about its
\* reactions too; the count is about all of them together.
Message == <<"message", Owner>>
Count == <<"count", Owner>>
Reaction(u) == <<"reaction", u>>
Membership(u) == <<"member", u>>
Subjects == {Message, Count} \cup {Reaction(u) : u \in Users} \cup {Membership(u) : u \in Users}
About(o, u) ==
    CASE o \in {"create", "delete"} -> {Message, Count} \cup {Reaction(w) : w \in Users}
      [] o = "update" -> {Message}
      [] o \in {"add", "remove"} -> {Reaction(u), Count}
      [] o \in {"join", "leave"} -> {Membership(u)}
      [] OTHER -> {}
Underway == UNION {About(op[c], by[c]) : c \in {x \in Calls : Busy(x)}}

EventsInit ==
    /\ exists = TRUE
    /\ SomeMembers
    /\ text \in {None, "old"}
    /\ author = Owner
    /\ posted = (text # None)
    /\ reacted \in IF posted THEN SUBSET Users ELSE {{}}
    /\ call = [c \in Calls |-> "idle"]
    /\ op = [c \in Calls |-> "none"]
    /\ by = [c \in Calls |-> Owner]
    /\ changed = {}
    /\ tally = [c \in Calls |-> 0]
    /\ audience = [c \in Calls |-> {}]
    /\ view = [text |-> text, who |-> reacted, count |-> Cardinality(reacted), members |-> member]
    /\ own = member
    /\ torn = {}
-----------------------------------------------------------------------------
(* The changes.                                                            *)

\* A call begins; from here to its announcement another change of the same
\* subject overlaps it.
Begin(c, o, u, place) ==
    /\ call[c] = "idle"
    /\ call' = [call EXCEPT ![c] = place]
    /\ op' = [op EXCEPT ![c] = o]
    /\ by' = [by EXCEPT ![c] = u]
    /\ torn' = torn \cup (About(o, u) \cap Underway)
    /\ UNCHANGED <<tally, audience, view, own>>

\* A handler returns; what it held is forgotten.
Return(c) ==
    /\ call' = [call EXCEPT ![c] = "done"]
    /\ op' = [op EXCEPT ![c] = "none"]
    /\ by' = [by EXCEPT ![c] = Owner]
    /\ changed' = changed \ {c}
    /\ tally' = [tally EXCEPT ![c] = 0]
    /\ audience' = [audience EXCEPT ![c] = {}]

CreateMessage(c, u) ==
    /\ u \in member
    /\ ~ posted
    /\ Begin(c, "create", u, "due")
    /\ text' = c
    /\ author' = u
    /\ posted' = TRUE
    /\ UNCHANGED <<guildVars, reacted, changed>>

\* UpdateMessage reads the message to find its author, then writes it.
ReadMessage(c, u) ==
    /\ u \in member
    /\ text # None /\ author = u
    /\ Begin(c, "update", u, "update")
    /\ UNCHANGED <<guildVars, messageVars, changed>>
UpdateMessage(c) ==
    /\ call[c] = "update"
    /\ text # None
    /\ text' = c
    /\ call' = [call EXCEPT ![c] = "due"]
    /\ UNCHANGED <<guildVars, author, posted, reacted, op, by, changed, tally, noticeVars>>
UpdateFindsNone(c) ==
    /\ call[c] = "update"
    /\ text = None
    /\ Return(c)
    /\ UNCHANGED <<guildVars, messageVars, view, own, torn>>

\* A reaction row that a transaction has inserted or deleted and not committed.
InTransaction(c) == call[c] \in {"count", "commit"}
RowHeld(u) == \E c \in changed : InTransaction(c) /\ by[c] = u

\* The author's or a moderator's (here the Owner's) DELETE cascades to the
\* reactions and waits for those that are being changed.
DeleteMessage(c, u) ==
    /\ u \in member
    /\ text # None /\ u \in {author, Owner}
    /\ \A w \in Users : ~ RowHeld(w)
    /\ Begin(c, "delete", u, "due")
    /\ text' = None
    /\ reacted' = {}
    /\ UNCHANGED <<guildVars, author, posted, changed>>

\* changeMessageReaction: INSERT ... ON CONFLICT DO NOTHING waits for an
\* uncommitted row of the same User, DELETE for one it can see.
AddReaction(c, u) ==
    /\ u \in member /\ text # None
    /\ ~ RowHeld(u)
    /\ Begin(c, "add", u, "count")
    /\ changed' = IF u \in reacted THEN changed ELSE changed \cup {c}
    /\ UNCHANGED <<guildVars, messageVars>>
RemoveReaction(c, u) ==
    /\ u \in member /\ text # None
    /\ u \in reacted => ~ RowHeld(u)
    /\ Begin(c, "remove", u, "count")
    /\ changed' = IF u \in reacted THEN changed \cup {c} ELSE changed
    /\ UNCHANGED <<guildVars, messageVars>>

\* The count sees what is committed and the transaction's own change.
WithOwnChange(c) ==
    IF c \notin changed THEN reacted
    ELSE IF op[c] = "add" THEN reacted \cup {by[c]} ELSE reacted \ {by[c]}
CountReactionsBefore(c) ==
    /\ call[c] = "count"
    /\ tally' = [tally EXCEPT ![c] = Cardinality(reacted)]
    /\ call' = [call EXCEPT ![c] = "commit"]
    /\ UNCHANGED <<guildVars, messageVars, op, by, changed, noticeVars>>
CountReactions(c) ==
    /\ call[c] = "count"
    /\ tally' = [tally EXCEPT ![c] = Cardinality(WithOwnChange(c))]
    /\ call' = [call EXCEPT ![c] = "commit"]
    /\ UNCHANGED <<guildVars, messageVars, op, by, changed, noticeVars>>
CommitReaction(c) ==
    /\ call[c] = "commit"
    /\ reacted' = WithOwnChange(c)
    /\ call' = [call EXCEPT ![c] = "due"]
    /\ UNCHANGED <<guildVars, text, author, posted, op, by, changed, tally, noticeVars>>
RollbackReaction(c) ==
    /\ InTransaction(c)
    /\ Return(c)
    /\ UNCHANGED <<guildVars, messageVars, view, own, torn>>

\* AcceptInvite that admits a User; RemoveMember and LeaveGuild.
Join(c, u) ==
    /\ exists
    /\ u \notin member
    /\ member' = member \cup {u}
    /\ Begin(c, "join", u, "due")
    /\ UNCHANGED <<exists, messageVars, changed>>
Leave(c, u) ==
    /\ DropMember(u)
    /\ Begin(c, "leave", u, "due")
    /\ UNCHANGED <<exists, messageVars, changed>>

\* DeleteGuild cascades to everything and waits for uncommitted reactions; no
\* event announces it.
EraseGuild ==
    /\ exists
    /\ \A w \in Users : ~ RowHeld(w)
    /\ exists' = FALSE
    /\ member' = {}
    /\ text' = None
    /\ reacted' = {}
    /\ UNCHANGED <<author, posted, callVars, noticeVars>>
-----------------------------------------------------------------------------
(* The announcements.                                                      *)

\* ChannelAudience or ListGuildMemberIDs, with a deadline of its own: the
\* client's hanging up does not cancel it.  A removed User is told as well.
Announces(c) == op[c] \in {"add", "remove"} => c \in changed
ToldWithoutTheRemoved(c) == member
Told(c) == IF op[c] = "leave" THEN member \cup {by[c]} ELSE member

AskAudience(c) ==
    /\ call[c] = "due"
    /\ Announces(c)
    /\ audience' = [audience EXCEPT ![c] = Told(c)]
    /\ call' = [call EXCEPT ![c] = "publish"]
    /\ UNCHANGED <<guildVars, messageVars, op, by, changed, tally, view, own, torn>>

\* A reaction that was there already, or not there, is not announced.
NothingToAnnounce(c) ==
    /\ call[c] = "due"
    /\ ~ Announces(c)
    /\ Return(c)
    /\ UNCHANGED <<guildVars, messageVars, view, own, torn>>

\* The change is committed and nobody is told: its answer does not arrive,
\* reading the result back fails (populateMessageReactions), or the query does.
AnnouncementFails(c) ==
    /\ call[c] = "due"
    /\ Announces(c)
    /\ torn' = torn \cup About(op[c], by[c])
    /\ Return(c)
    /\ UNCHANGED <<guildVars, messageVars, view, own>>

\* What a client makes of an event; it knows nothing of a message it has not
\* been told of.
Shown(c) ==
    LET u == by[c] known == view.text # None IN
    CASE op[c] = "create" -> [view EXCEPT !.text = c, !.who = {}, !.count = 0]
      [] op[c] = "update" /\ known -> [view EXCEPT !.text = c]
      [] op[c] = "delete" -> [view EXCEPT !.text = None, !.who = {}, !.count = 0]
      [] op[c] = "add" /\ known -> [view EXCEPT !.who = @ \cup {u}, !.count = tally[c]]
      [] op[c] = "remove" /\ known -> [view EXCEPT !.who = @ \ {u}, !.count = tally[c]]
      [] op[c] = "join" -> [view EXCEPT !.members = @ \cup {u}]
      [] op[c] = "leave" -> [view EXCEPT !.members = @ \ {u}]
      [] OTHER -> view

Publish(c) ==
    /\ call[c] = "publish"
    /\ view' = IF Owner \in audience[c] THEN Shown(c) ELSE view
    /\ own' = IF by[c] \notin audience[c] THEN own
              ELSE IF op[c] = "join" THEN own \cup {by[c]}
              ELSE IF op[c] = "leave" THEN own \ {by[c]}
              ELSE own
    /\ Return(c)
    /\ UNCHANGED <<guildVars, messageVars, torn>>
-----------------------------------------------------------------------------
EventsNext ==
    \/ EraseGuild
    \/ \E c \in Calls, u \in Users :
         \/ CreateMessage(c, u)
         \/ ReadMessage(c, u)
         \/ DeleteMessage(c, u)
         \/ AddReaction(c, u)
         \/ RemoveReaction(c, u)
         \/ Join(c, u)
         \/ Leave(c, u)
    \/ \E c \in Calls :
         \/ UpdateMessage(c)
         \/ UpdateFindsNone(c)
         \/ CountReactions(c)
         \/ CommitReaction(c)
         \/ RollbackReaction(c)
         \/ AskAudience(c)
         \/ NothingToAnnounce(c)
         \/ AnnouncementFails(c)
         \/ Publish(c)

EventsSpec == EventsInit /\ [][EventsNext]_eventVars
-----------------------------------------------------------------------------
(* Properties.                                                             *)

\* Whatever overlaps it, a subject whose own changes were announced and did not
\* overlap one another is known as it is stored once they are announced: the
\* message's text, who has reacted, how many have, and who is a Member
\* (publishMessage, publishMessageReaction, publishMember).
Settled(s) == exists /\ s \notin torn \cup Underway
SettledIsKnown ==
    /\ Settled(Message) => view.text = text
    /\ Settled(Count) => view.count = Cardinality(reacted)
    /\ \A u \in Users :
         /\ Settled(Reaction(u)) => (u \in view.who <=> u \in reacted)
         /\ Settled(Membership(u)) => (u \in view.members <=> u \in member)

\* A User's own client shows the Guild as long as they are a Member: one who
\* leaves or is removed is told although no longer listed (publishMemberLeave).
TheRemovedAreTold ==
    \A u \in Users : Settled(Membership(u)) => (u \in own <=> u \in member)
=============================================================================
