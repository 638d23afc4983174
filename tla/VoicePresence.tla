---------------------------- MODULE VoicePresence ----------------------------
(***************************************************************************)
(* Voice states (internal/voice/service.go) and Presence (internal/chat/   *)
(* presence.go), both kept in process memory, and userGone (internal/      *)
(* httpapi/voice.go), which clears them once the Gateway reports that a    *)
(* User has no Session left.                                               *)
(*                                                                         *)
(* The lock of each map is held for one read or write only: between two    *)
(* of them a request asks the database for permissions (which change at    *)
(* any time, so each answer is open), closes the Provider's session and    *)
(* publishes events.  A task is the goroutine of one request or of one     *)
(* userGone; its "at" is the place it stopped at.                          *)
(* The Gateway is its abstract specification GatewaySessions, which        *)
(* GatewayHub implements.                                                  *)
(***************************************************************************)
EXTENDS Integers, FiniteSets

CONSTANTS
    Users,
    Channels,             \* Voice Channels
    Flags,                \* values of the self mute, deaf, video and stream flags
    VoiceIds,             \* voice session ids, each issued at most once
    Requests,             \* HTTP handlers that may run at the same time
    Callbacks,            \* onUserGone goroutines that may run at the same time
    None,
    Sessions,             \* of the Gateway
    MaxSessionsPerUser,   \* of the Gateway
    MaxGoneCalls          \* bound of the model on callbacks waiting to run

ASSUME VoiceAssumption ==
    /\ Requests \cap Callbacks = {}
    /\ MaxGoneCalls \in Nat
    /\ None \notin Users \cup Channels \cup VoiceIds

VARIABLES
    held,         \* the Gateway Sessions of each User (GatewaySessions)
    goneCalls,    \* started onUserGone goroutines (GatewaySessions)
    entries,      \* voice.Service.entries
    presence,     \* chat.presenceTracker.entries
    task,         \* the goroutines
    ended,        \* voice sessions that were replaced or evicted (history)
    leaves,       \* leave events published for each voice session (history)
    lateStatus,   \* Users whose status was recorded, and
    lateVoice     \* whose voice session was stored, when neither a Gateway Session
                  \* nor a userGone was left that would end it (history)

gatewayVars == <<held, goneCalls>>
presenceVars == <<presence, lateStatus>>
vars == <<gatewayVars, presenceVars, entries, task, ended, leaves, lateVoice>>

Gateway == INSTANCE GatewaySessions

Tasks == Requests \cup Callbacks
Entry == [session : VoiceIds, channel : Channels, flag : Flags]
Idle  == [at |-> "idle", op |-> "none", user |-> None, channel |-> None,
          entry |-> None]

Init ==
    /\ Gateway!Init
    /\ entries = [u \in Users |-> None]
    /\ presence = [u \in Users |-> "OFFLINE"]
    /\ task = [t \in Tasks |-> Idle]
    /\ ended = {}
    /\ leaves = [v \in VoiceIds |-> 0]
    /\ lateStatus = {}
    /\ lateVoice = {}

Go(t, place) == task' = [task EXCEPT ![t].at = place]
Finish(t) == task' = [task EXCEPT ![t] = Idle]

\* The voice sessions in the map, and the one a step takes out of it.
Current == {entries[w].session : w \in {x \in Users : entries[x] # None}}
End(e) == ended' = IF e = None THEN ended ELSE ended \cup {e.session}

\* Whether a userGone of u waits, or runs and has yet to clear the status, or to evict:
\* it clears the status when it ends and evicts when it begins.
Clearing(u) == goneCalls[u] > 0 \/ \E t \in Tasks : task[t].op = "gone" /\ task[t].user = u
Evicting(u) ==
    \/ goneCalls[u] > 0
    \/ \E t \in Tasks : /\ task[t].op = "gone" /\ task[t].user = u
                        /\ task[t].at = "evicting"

\* Who is recorded as late, when u has just been recorded.
Late(late, u, ending) ==
    IF held[u] # {} \/ ending THEN late \ {u} ELSE late \cup {u}
-----------------------------------------------------------------------------
(* Join.                                                                   *)

\* AuthorizeVoice and IssueSession succeed; a refusal changes nothing.
JoinAuthorized(t, u, ch) ==
    /\ t \in Requests
    /\ task[t] = Idle
    /\ task' = [task EXCEPT ![t] = [Idle EXCEPT !.at = "joining", !.op = "join",
                                                !.user = u, !.channel = ch]]
    /\ UNCHANGED <<gatewayVars, entries, presenceVars, ended, leaves, lateVoice>>

\* The swap under the lock.  A join of another channel is a move: the previous
\* session is closed and its leave event published before the join event.
JoinCommit(t, v, flag) ==
    LET u == task[t].user
        previous == entries[u]
        moved == previous # None /\ previous.channel # task[t].channel
        mine == [session |-> v, channel |-> task[t].channel, flag |-> flag]
    IN  /\ task[t].at = "joining"
        /\ v \notin ended \cup Current
        /\ entries' = [entries EXCEPT ![u] = mine]
        /\ End(previous)
        /\ IF moved
           THEN task' = [task EXCEPT ![t].at = "leaving", ![t].entry = previous]
           ELSE Finish(t)
        /\ lateVoice' = Late(lateVoice, u, Evicting(u))
        /\ UNCHANGED <<gatewayVars, presenceVars, leaves>>

\* closeProvider, whose failure is only logged, then the leave event.  The join
\* and update events that end Join and UpdateState change nothing kept here.
TellLeftThenReturn(t) ==
    /\ task[t].at = "leaving"
    /\ leaves' = [leaves EXCEPT ![task[t].entry.session] = @ + 1]
    /\ Finish(t)
    /\ UNCHANGED <<gatewayVars, entries, presenceVars, ended, lateVoice>>
TellLeft(t) ==
    /\ task[t].at = "leaving"
    /\ leaves' = [leaves EXCEPT ![task[t].entry.session] = @ + 1]
    /\ IF task[t].op = "gone" THEN Go(t, "clearing") ELSE Finish(t)
    /\ UNCHANGED <<gatewayVars, entries, presenceVars, ended, lateVoice>>
-----------------------------------------------------------------------------
(* UpdateState.                                                            *)

UpdateRead(t, u) ==
    /\ t \in Requests
    /\ task[t] = Idle
    /\ entries[u] # None
    /\ task' = [task EXCEPT ![t] = [Idle EXCEPT !.at = "authorizing", !.op = "update",
                                                !.user = u, !.entry = entries[u]]]
    /\ UNCHANGED <<gatewayVars, entries, presenceVars, ended, leaves, lateVoice>>

\* AuthorizeVoice may answer: go on; a flag needs STREAM, which is missing; or
\* fail, for a lost permission, a failing database or a cancelled request: every
\* error evicts.
UpdateAuthorized(t) ==
    /\ task[t].at = "authorizing"
    /\ Go(t, "applying") \/ Finish(t) \/ Go(t, "evicting")
    /\ UNCHANGED <<gatewayVars, entries, presenceVars, ended, leaves, lateVoice>>

\* The second critical section: the session read first must still be current.
UpdateApplyUnchecked(t, flag) ==
    LET u == task[t].user
    IN  /\ task[t].at = "applying"
        /\ entries' = [entries EXCEPT ![u] = [task[t].entry EXCEPT !.flag = flag]]
        /\ Finish(t)
        /\ UNCHANGED <<gatewayVars, presenceVars, ended, leaves, lateVoice>>
UpdateApply(t, flag) ==
    LET u == task[t].user
        now == entries[u]
    IN  /\ task[t].at = "applying"
        /\ IF now # None /\ now.session = task[t].entry.session
           THEN entries' = [entries EXCEPT ![u].flag = flag]
           ELSE UNCHANGED entries
        /\ Finish(t)
        /\ UNCHANGED <<gatewayVars, presenceVars, ended, leaves, lateVoice>>
-----------------------------------------------------------------------------
(* Leave and Evict.                                                        *)

StartLeave(t, u) ==
    /\ t \in Requests
    /\ task[t] = Idle
    /\ task' = [task EXCEPT ![t] = [Idle EXCEPT !.at = "evicting", !.op = "leave",
                                                !.user = u]]
    /\ UNCHANGED <<gatewayVars, entries, presenceVars, ended, leaves, lateVoice>>

\* Evict takes out whatever entry the User has now, not the one its caller saw.
EvictStale(t) ==
    LET u == task[t].user
        previous == IF task[t].op = "update" THEN task[t].entry ELSE entries[u]
    IN  /\ task[t].at = "evicting"
        /\ entries' = [entries EXCEPT ![u] = None]
        /\ End(entries[u])
        /\ IF previous # None
           THEN task' = [task EXCEPT ![t].at = "leaving", ![t].entry = previous]
           ELSE IF task[t].op = "gone" THEN Go(t, "clearing") ELSE Finish(t)
        /\ UNCHANGED <<gatewayVars, presenceVars, leaves, lateVoice>>
Evict(t) ==
    LET u == task[t].user
        previous == entries[u]
    IN  /\ task[t].at = "evicting"
        /\ entries' = [entries EXCEPT ![u] = None]
        /\ End(previous)
        /\ IF previous # None
           THEN task' = [task EXCEPT ![t].at = "leaving", ![t].entry = previous]
           ELSE IF task[t].op = "gone" THEN Go(t, "clearing") ELSE Finish(t)
        /\ UNCHANGED <<gatewayVars, presenceVars, leaves, lateVoice>>
-----------------------------------------------------------------------------
(* userGone and Presence.                                                  *)

\* The goroutine started by the hub begins: Evict, then ClearPresence.
StartGoneClearOnly(t, u) ==
    /\ t \in Callbacks
    /\ task[t] = Idle
    /\ Gateway!Run(u)
    /\ task' = [task EXCEPT ![t] = [Idle EXCEPT !.at = "clearing", !.op = "gone",
                                                !.user = u]]
    /\ UNCHANGED <<entries, presenceVars, ended, leaves, lateVoice>>
StartGone(t, u) ==
    /\ t \in Callbacks
    /\ task[t] = Idle
    /\ Gateway!Run(u)
    /\ task' = [task EXCEPT ![t] = [Idle EXCEPT !.at = "evicting", !.op = "gone",
                                                !.user = u]]
    /\ UNCHANGED <<entries, presenceVars, ended, leaves, lateVoice>>

\* ClearPresence; the events it leads to are not followed here.
Clear(t) ==
    /\ task[t].at = "clearing"
    /\ presence' = [presence EXCEPT ![task[t].user] = "OFFLINE"]
    /\ Finish(t)
    /\ UNCHANGED <<gatewayVars, entries, lateStatus, ended, leaves, lateVoice>>

\* SetPresence lists the User's Guilds first and records the status afterwards.
StartPresence(t, u) ==
    /\ t \in Requests
    /\ task[t] = Idle
    /\ task' = [task EXCEPT ![t] = [Idle EXCEPT !.at = "setting", !.op = "presence",
                                                !.user = u]]
    /\ UNCHANGED <<gatewayVars, entries, presenceVars, ended, leaves, lateVoice>>

SetPresence(t) ==
    LET u == task[t].user
    IN  /\ task[t].at = "setting"
        /\ presence' = [presence EXCEPT ![u] = "ONLINE"]
        /\ lateStatus' = Late(lateStatus, u, Clearing(u))
        /\ Finish(t)
        /\ UNCHANGED <<gatewayVars, entries, ended, leaves, lateVoice>>
-----------------------------------------------------------------------------
(* The environment: Gateway Sessions open and expire.                      *)

GatewayChanges(dropped, u, opened) ==
    /\ \A w \in Users : goneCalls[w] < MaxGoneCalls
    /\ Gateway!Change(dropped, u, opened)
    /\ UNCHANGED <<entries, presenceVars, task, ended, leaves, lateVoice>>

\* A task under way takes its next step.
Step(t) ==
    \/ \E v \in VoiceIds, flag \in Flags : JoinCommit(t, v, flag)
    \/ TellLeft(t)
    \/ UpdateAuthorized(t)
    \/ \E flag \in Flags : UpdateApply(t, flag)
    \/ Evict(t)
    \/ Clear(t)
    \/ SetPresence(t)

Next ==
    \/ \E t \in Tasks : Step(t)
    \/ \E t \in Tasks, u \in Users :
         \/ \E ch \in Channels : JoinAuthorized(t, u, ch)
         \/ UpdateRead(t, u)
         \/ StartLeave(t, u)
         \/ StartPresence(t, u)
         \/ StartGone(t, u)
    \/ \E u \in Users, dropped, opened \in SUBSET Sessions :
         GatewayChanges(dropped, u, opened)

Spec == Init /\ [][Next]_vars

\* Goroutines are scheduled; whether a request is sent is up to the client.
Fairness ==
    /\ \A t \in Tasks : WF_vars(Step(t))
    /\ \A u \in Users : SF_vars(\E t \in Callbacks : StartGone(t, u))

FairSpec == Spec /\ Fairness
-----------------------------------------------------------------------------
(* Properties.                                                             *)

Places == {"idle", "joining", "leaving", "authorizing", "applying",
           "evicting", "clearing", "setting"}
TypeOK ==
    /\ goneCalls \in [Users -> Nat]
    /\ entries \in [Users -> Entry \cup {None}]
    /\ presence \in [Users -> {"OFFLINE", "ONLINE"}]
    /\ task \in [Tasks ->
                   [at : Places,
                    op : {"none", "join", "update", "leave", "gone", "presence"},
                    user : Users \cup {None}, channel : Channels \cup {None},
                    entry : Entry \cup {None}]]
    /\ ended \subseteq VoiceIds
    /\ leaves \in [VoiceIds -> Nat]
    /\ lateStatus \subseteq Users /\ lateVoice \subseteq Users

\* A voice session that was replaced or evicted never comes back: an UpdateState
\* that read it, waited for the database and then wrote would bring a User back
\* into a channel they have left (UpdateState's second check).
NoResurrection ==
    \A u \in Users : entries[u] # None => entries[u].session \notin ended

\* Every voice session is ended by one operation only, whatever Joins, Leaves,
\* UpdateStates and userGones overlap, so its Guild is told at most once that it
\* ended, and never while it is current (the deletes and swaps of Join and Evict).
Leaving(v) == {t \in Tasks : task[t].at = "leaving" /\ task[t].entry.session = v}
EndsOnce ==
    \A v \in VoiceIds :
        /\ leaves[v] + Cardinality(Leaving(v)) <= 1
        /\ v \notin ended => leaves[v] = 0 /\ Leaving(v) = {}

\* A voice session that a User has when the Gateway reports them gone is ended,
\* unless nothing is left of it already (userGone).
GoneLeavesVoice ==
    \A u \in Users, v \in VoiceIds :
        (goneCalls[u] > 0 /\ entries[u] # None /\ entries[u].session = v) ~> v \in ended

\* A User shown ONLINE has a Session, or a userGone that will clear the status,
\* whatever Sessions came and went and whatever voice session the userGone found:
\* unless the status was recorded when neither was left (pruneExpiredLocked,
\* userGone, SetPresence).
OnlineIsWatched ==
    \A u \in Users :
        presence[u] = "ONLINE" => held[u] # {} \/ Clearing(u) \/ u \in lateStatus

\* A User in Voice has a Session, or a userGone that has yet to evict them, whatever
\* Joins and UpdateStates wait meanwhile: unless a Join stored the voice session when
\* neither was left (pruneExpiredLocked, userGone, Join, UpdateState).
VoiceIsWatched ==
    \A u \in Users :
        entries[u] # None => held[u] # {} \/ Evicting(u) \/ u \in lateVoice

\* A User who stays without a Session becomes OFFLINE and leaves Voice, and stays so,
\* although other requests of the User go on, with the same exceptions (userGone).
GoneIsCleared ==
    \A u \in Users :
        <>[](held[u] = {} /\ u \notin lateStatus \cup lateVoice)
            => <>[](presence[u] = "OFFLINE" /\ entries[u] = None)
=============================================================================
