----------------------------- MODULE GatewayHub -----------------------------
(***************************************************************************)
(* The Gateway of aster-server: the hub of Sessions (internal/gateway/     *)
(* hub.go) and the WebSocket connections served by ServeHTTP and writeLoop *)
(* (internal/gateway/service.go).                                          *)
(*                                                                         *)
(* A Session outlives its connection: the hub numbers the Session's events *)
(* 0, 1, 2, ..., keeps the last EventBufferSize of them, and replays them  *)
(* to the connection that RESUMEs.  A Session that stays disconnected past *)
(* the retention period is pruned; the User's last one calls onUserGone.   *)
(*                                                                         *)
(* Every hub operation runs under hub.mu, so it is one step; the goroutine *)
(* of a connection (ServeHTTP) and its writeLoop interleave with them.     *)
(***************************************************************************)
EXTENDS Integers, Sequences, FiniteSets, FiniteSetsExt

CONSTANTS
    Users,
    Sessions,             \* Session ids identify may issue, each at most once
    Conns,                \* client objects; a returned ServeHTTP frees its own
    IntentSets,           \* the intent sets a client may IDENTIFY with
    Published,            \* the kinds of events the application publishes
    None,                 \* a nil pointer
    EventBufferSize,      \* Config.EventBufferSize
    QueueSlack,           \* what newClient's queue has beyond the buffer (8)
    MaxSessions,          \* maxSessions (10 000)
    MaxSessionsPerUser,   \* maxSessionsPerUser (10)
    MaxSequence,          \* bound of the model on a Session's sequence
    MaxPendingAcks        \* bound of the model on the HEARTBEAT_ACKs in a queue

ASSUME ConstantsAssumption ==
    /\ EventBufferSize \in Nat \ {0}
    /\ QueueSlack \in Nat
    /\ MaxSessions \in Nat
    /\ MaxSessionsPerUser \in Nat
    /\ MaxSequence \in Nat
    /\ MaxPendingAcks \in Nat
    /\ Published \subseteq {"MESSAGE", "REACTION", "READ_STATE"}
    /\ IntentSets \subseteq SUBSET {"GUILD_MESSAGES", "MESSAGE_CONTENT", "REACTIONS"}
    /\ None \notin Users \cup Sessions \cup Conns

VARIABLES
    \* the hub
    live,             \* ids in h.sessions (h.sessionsByUser is its index by user)
    issued,           \* ids uuid.NewV7 has returned so far
    user,             \* session.userID
    intents,          \* session.intents
    sequence,         \* session.sequence
    events,           \* session.events
    client,           \* session.client
    disconnectedAt,   \* session.disconnectedAt: nil, recent, or older than
                      \* the retention period
    goneCalls,        \* goroutines of onUserGone(u) not yet run
    \* the connections
    phase,            \* where ServeHTTP stands
    bound,            \* ServeHTTP's sessionID
    queue,            \* client.send
    done,             \* client.done is closed
    writing,          \* connections whose writeLoop has not returned on an error
    \* what the peers observe (history, read by the properties only)
    log,              \* every payload ever dispatched on a Session, in order
    pos,              \* sequence of the last dispatch written to a connection
    got               \* payload of that dispatch

hubVars  == <<live, issued, user, intents, sequence, events, client,
              disconnectedAt, goneCalls>>
connVars == <<phase, bound, queue, done, writing>>
histVars == <<log, pos, got>>
vars     == <<hubVars, connVars, histVars>>

-----------------------------------------------------------------------------
(* Events.  A payload is abstracted to what tells two payloads apart: the  *)
(* event name, and for a message whether its content is included.          *)

Payloads  == {"READY", "RESUMED", "MESSAGE", "MESSAGE_NO_CONTENT", "REACTION",
              "READ_STATE"}
Intents   == {"GUILD_MESSAGES", "MESSAGE_CONTENT", "REACTIONS"}
Event     == [seq : Nat, payload : Payloads]

\* HELLO and HEARTBEAT_ACK travel in the same queue but carry no sequence.
Control == [seq |-> -1, payload |-> "CONTROL"]
IsDispatch(m) == m.seq >= 0

QueueCapNoSlack == EventBufferSize + 1
QueueCap == EventBufferSize + QueueSlack

\* The intent filter of each publish function: messages, reactions, and
\* publishToUser, which ignores intents.
Subscribed(s, e) ==
    CASE e = "MESSAGE"    -> "GUILD_MESSAGES" \in intents[s]
      [] e = "REACTION"   -> "REACTIONS" \in intents[s]
      [] e = "READ_STATE" -> TRUE

\* messageEventPayload drops the content unless the Session asked for it.
PayloadFor(s, e) ==
    IF e = "MESSAGE" /\ "MESSAGE_CONTENT" \notin intents[s]
    THEN "MESSAGE_NO_CONTENT" ELSE e

AppendEvent(buffer, e) ==
    LET longer == Append(buffer, e)
    IN  IF Len(longer) > EventBufferSize
        THEN SubSeq(longer, Len(longer) - EventBufferSize + 1, Len(longer))
        ELSE longer

\* The buffered events with a sequence above n, oldest first.
EventsAfterAll(buffer, n) == buffer
EventsAfter(buffer, n) ==
    LET later == {i \in DOMAIN buffer : buffer[i].seq > n}
    IN  IF later = {} THEN << >> ELSE SubSeq(buffer, Min(later), Len(buffer))
ReplayAfter(s, n) == EventsAfter(events[s], n)

-----------------------------------------------------------------------------
(* client.enqueue: Go picks either ready case of the select, so a queue    *)
(* with room whose connection is already terminated may accept or refuse.  *)
(* A refusal leaves the connection terminated.                             *)

MayAccept(c, k) == Len(queue[c]) + k <= QueueCap
MayRefuse(c, k) == done[c] \/ Len(queue[c]) + k > QueueCap

\* pruneLocked and removeLocked.
Retained == {s \in live : disconnectedAt[s] # "expired"}
Holds(u, S) == \E s \in S : user[s] = u
NewlyGone == {u \in Users : Holds(u, live) /\ ~ Holds(u, Retained)}
CallUserGone ==
    goneCalls' = [u \in Users |-> goneCalls[u] + IF u \in NewlyGone THEN 1 ELSE 0]
-----------------------------------------------------------------------------
Init ==
    /\ live = {}
    /\ issued = {}
    /\ user = [s \in Sessions |-> None]
    /\ intents = [s \in Sessions |-> {}]
    /\ sequence = [s \in Sessions |-> 0]
    /\ events = [s \in Sessions |-> << >>]
    /\ client = [s \in Sessions |-> None]
    /\ disconnectedAt = [s \in Sessions |-> "nil"]
    /\ goneCalls = [u \in Users |-> 0]
    /\ phase = [c \in Conns |-> "free"]
    /\ bound = [c \in Conns |-> None]
    /\ queue = [c \in Conns |-> << >>]
    /\ done = [c \in Conns |-> FALSE]
    /\ writing = {}
    /\ log = [s \in Sessions |-> << >>]
    /\ pos = [c \in Conns |-> -1]
    /\ got = [c \in Conns |-> "CONTROL"]

\* ServeHTTP up to its first read: upgrade, start writeLoop, enqueue HELLO.
Connect(c) ==
    /\ phase[c] = "free"
    /\ phase' = [phase EXCEPT ![c] = "greeted"]
    /\ queue' = [queue EXCEPT ![c] = <<Control>>]
    /\ writing' = writing \cup {c}
    /\ UNCHANGED <<hubVars, bound, done, histVars>>

\* ServeHTTP returns: its deferred terminate closes done and the socket, which
\* ends writeLoop too.  What was queued is lost and the object is garbage.
CloseConn(c) ==
    /\ phase' = [phase EXCEPT ![c] = "free"]
    /\ bound' = [bound EXCEPT ![c] = None]
    /\ queue' = [queue EXCEPT ![c] = << >>]
    /\ done' = [done EXCEPT ![c] = FALSE]
    /\ writing' = writing \ {c}
    /\ pos' = [pos EXCEPT ![c] = -1]
    /\ got' = [got EXCEPT ![c] = "CONTROL"]

\* No valid IDENTIFY or RESUME in time, or Authenticate refuses the token.
GiveUp(c) ==
    /\ phase[c] = "greeted"
    /\ CloseConn(c)
    /\ UNCHANGED <<hubVars, log>>

AtCapacityOffByOne(u) ==
    \/ Cardinality(Retained) > MaxSessions
    \/ Cardinality({s \in Retained : user[s] = u}) > MaxSessionsPerUser
AtCapacity(u) ==
    \/ Cardinality(Retained) >= MaxSessions
    \/ Cardinality({s \in Retained : user[s] = u}) >= MaxSessionsPerUser

IdentifyRefused(c, u) ==
    /\ phase[c] = "greeted"
    /\ AtCapacity(u)
    /\ live' = Retained
    /\ CallUserGone
    /\ CloseConn(c)
    /\ UNCHANGED <<issued, user, intents, sequence, events, client,
                   disconnectedAt, log>>

\* hub.identify: a fresh Session at sequence 0 whose first event is READY.  If
\* the connection is already terminated, READY may be refused: the Session
\* then starts out detached.
Identify(c, u, wanted, s) ==
    /\ phase[c] = "greeted"
    /\ ~ AtCapacity(u)
    /\ s \notin issued
    /\ issued' = issued \cup {s}
    /\ live' = Retained \cup {s}
    /\ CallUserGone
    /\ user' = [user EXCEPT ![s] = u]
    /\ intents' = [intents EXCEPT ![s] = wanted]
    /\ sequence' = [sequence EXCEPT ![s] = 0]
    /\ LET ready == [seq |-> 0, payload |-> "READY"]
       IN  /\ events' = [events EXCEPT ![s] = AppendEvent(<< >>, ready)]
           /\ log' = [log EXCEPT ![s] = <<"READY">>]
           /\ \/ /\ MayAccept(c, 1)
                 /\ queue' = [queue EXCEPT ![c] = Append(@, ready)]
                 /\ client' = [client EXCEPT ![s] = c]
                 /\ UNCHANGED <<disconnectedAt, done>>
              \/ /\ MayRefuse(c, 1)
                 /\ done' = [done EXCEPT ![c] = TRUE]
                 /\ disconnectedAt' = [disconnectedAt EXCEPT ![s] = "recent"]
                 /\ UNCHANGED <<queue, client>>
    /\ phase' = [phase EXCEPT ![c] = "serving"]
    /\ bound' = [bound EXCEPT ![c] = s]
    /\ UNCHANGED <<writing, pos, got>>
-----------------------------------------------------------------------------
(* hub.resume.                                                             *)

ResumableGap(s, u, n) ==
    /\ s \in Retained
    /\ user[s] = u
    /\ n <= sequence[s]
    /\ events[s] # << >> => n >= events[s][1].seq - 2
Resumable(s, u, n) ==
    /\ s \in Retained
    /\ user[s] = u
    /\ n <= sequence[s]
    /\ events[s] # << >> => n >= events[s][1].seq - 1

ResumeRefused(c, u, s, n) ==
    /\ phase[c] = "greeted"
    /\ ~ Resumable(s, u, n)
    /\ live' = Retained
    /\ CallUserGone
    /\ CloseConn(c)
    /\ UNCHANGED <<issued, user, intents, sequence, events, client,
                   disconnectedAt, log>>

\* The connection the Session had, if any, is terminated.
TakenOver(s) == {client[s]} \ {None}

\* dispatchLocked's effect on the Session itself: next number, into the buffer.
Numbered(s, payload) == [seq |-> sequence[s] + 1, payload |-> payload]

\* Every missed event and RESUMED fit in the queue.
Resume(c, u, s, n) ==
    /\ phase[c] = "greeted"
    /\ Resumable(s, u, n)
    /\ sequence[s] < MaxSequence
    /\ MayAccept(c, Len(ReplayAfter(s, n)) + 1)
    /\ live' = Retained
    /\ CallUserGone
    /\ LET resumed == Numbered(s, "RESUMED")
       IN  /\ sequence' = [sequence EXCEPT ![s] = resumed.seq]
           /\ events' = [events EXCEPT ![s] = AppendEvent(@, resumed)]
           /\ log' = [log EXCEPT ![s] = Append(@, "RESUMED")]
           /\ queue' = [queue EXCEPT ![c] = Append(@ \o ReplayAfter(s, n), resumed)]
    /\ client' = [client EXCEPT ![s] = c]
    /\ disconnectedAt' = [disconnectedAt EXCEPT ![s] = "nil"]
    /\ done' = [d \in Conns |-> done[d] \/ d \in TakenOver(s)]
    /\ phase' = [phase EXCEPT ![c] = "serving"]
    /\ bound' = [bound EXCEPT ![c] = s]
    /\ pos' = [pos EXCEPT ![c] = n]
    /\ UNCHANGED <<issued, user, intents, writing, got>>

\* The queue refuses a replayed event, or RESUMED after it has been numbered:
\* the Session is left detached and ServeHTTP answers INVALID_SESSION.
ResumeFails(c, u, s, n) ==
    /\ phase[c] = "greeted"
    /\ Resumable(s, u, n)
    /\ live' = Retained
    /\ CallUserGone
    /\ \/ /\ ReplayAfter(s, n) # << >>
          /\ MayRefuse(c, Len(ReplayAfter(s, n)))
          /\ UNCHANGED <<sequence, events, log>>
       \/ /\ sequence[s] < MaxSequence
          /\ MayAccept(c, Len(ReplayAfter(s, n)))
          /\ MayRefuse(c, Len(ReplayAfter(s, n)) + 1)
          /\ sequence' = [sequence EXCEPT ![s] = @ + 1]
          /\ events' = [events EXCEPT ![s] = AppendEvent(@, Numbered(s, "RESUMED"))]
          /\ log' = [log EXCEPT ![s] = Append(@, "RESUMED")]
    /\ client' = [client EXCEPT ![s] = None]
    /\ disconnectedAt' = [disconnectedAt EXCEPT ![s] = "recent"]
    /\ phase' = [phase EXCEPT ![c] = "free"]
    /\ done' = [d \in Conns |-> d # c /\ (done[d] \/ d \in TakenOver(s))]
    /\ queue' = [queue EXCEPT ![c] = << >>]
    /\ writing' = writing \ {c}
    /\ UNCHANGED <<issued, user, intents, bound, pos, got>>
-----------------------------------------------------------------------------
(* The publish functions: one dispatch to every subscribed Session of the  *)
(* recipients.  A Session whose connection refuses the event is detached,  *)
(* the event stays in its buffer.                                          *)

Targets(recipients, e) ==
    {s \in Retained : user[s] \in recipients /\ Subscribed(s, e)}

Publish(recipients, e) ==
    LET targets == Targets(recipients, e)
        attached == {s \in targets : client[s] # None}
    IN  /\ \A s \in targets : sequence[s] < MaxSequence
        /\ live' = Retained
        /\ CallUserGone
        /\ sequence' = [s \in Sessions |->
                          IF s \in targets THEN sequence[s] + 1 ELSE sequence[s]]
        /\ events' = [s \in Sessions |->
                        IF s \in targets
                        THEN AppendEvent(events[s], Numbered(s, PayloadFor(s, e)))
                        ELSE events[s]]
        /\ log' = [s \in Sessions |->
                     IF s \in targets THEN Append(log[s], PayloadFor(s, e)) ELSE log[s]]
        /\ \E refused \in SUBSET attached :
             /\ \A s \in refused : MayRefuse(client[s], 1)
             /\ \A s \in attached \ refused : MayAccept(client[s], 1)
             /\ queue' = [c \in Conns |->
                            IF bound[c] \in attached \ refused /\ client[bound[c]] = c
                            THEN Append(queue[c], Numbered(bound[c], PayloadFor(bound[c], e)))
                            ELSE queue[c]]
             /\ done' = [c \in Conns |->
                           done[c] \/ (bound[c] \in refused /\ client[bound[c]] = c)]
             /\ client' = [s \in Sessions |-> IF s \in refused THEN None ELSE client[s]]
             /\ disconnectedAt' = [s \in Sessions |->
                                     IF s \in refused THEN "recent" ELSE disconnectedAt[s]]
        /\ UNCHANGED <<issued, user, intents, phase, bound, writing, pos, got>>
-----------------------------------------------------------------------------
(* The heartbeat loop of ServeHTTP and its deferred calls.                 *)

\* A HEARTBEAT with a still valid token is acknowledged.
Heartbeat(c) ==
    /\ phase[c] = "serving"
    /\ Cardinality({i \in DOMAIN queue[c] : ~ IsDispatch(queue[c][i])}) < MaxPendingAcks
    /\ \/ /\ MayAccept(c, 1)
          /\ queue' = [queue EXCEPT ![c] = Append(@, Control)]
          /\ UNCHANGED <<phase, done>>
       \/ /\ MayRefuse(c, 1)
          /\ phase' = [phase EXCEPT ![c] = "returning"]
          /\ done' = [done EXCEPT ![c] = TRUE]
          /\ UNCHANGED queue
    /\ UNCHANGED <<hubVars, bound, writing, histVars>>

\* The loop ends: the read fails (closed by the peer, the deadline of two
\* heartbeat intervals, terminated by the hub) or closeWith ends it (protocol
\* error, token expired or revoked) and terminates the connection.
LeaveLoop(c) ==
    /\ phase[c] = "serving"
    /\ phase' = [phase EXCEPT ![c] = "returning"]
    /\ done' \in {done, [done EXCEPT ![c] = TRUE]}
    /\ UNCHANGED <<hubVars, bound, queue, writing, histVars>>

\* detachLocked: only the connection the Session still has detaches it.
DetachAnyway(s, c) ==
    IF s \in live
    THEN /\ client' = [client EXCEPT ![s] = None]
         /\ disconnectedAt' = [disconnectedAt EXCEPT ![s] = "recent"]
    ELSE UNCHANGED <<client, disconnectedAt>>
DetachNoClock(s, c) ==
    IF s \in live /\ client[s] = c
    THEN client' = [client EXCEPT ![s] = None] /\ UNCHANGED disconnectedAt
    ELSE UNCHANGED <<client, disconnectedAt>>
DetachForgotten(s, c) == UNCHANGED <<client, disconnectedAt>>
Detach(s, c) ==
    IF s \in live /\ client[s] = c
    THEN /\ client' = [client EXCEPT ![s] = None]
         /\ disconnectedAt' = [disconnectedAt EXCEPT ![s] = "recent"]
    ELSE UNCHANGED <<client, disconnectedAt>>

\* The deferred hub.detach, then the deferred terminate.
Return(c) ==
    /\ phase[c] = "returning"
    /\ Detach(bound[c], c)
    /\ CloseConn(c)
    /\ UNCHANGED <<live, issued, user, intents, sequence, events, goneCalls,
                   log>>

\* writeLoop writes the next payload.  terminate closes done before it closes
\* the socket, so a payload may still be written after done is closed.
WriteLoop(c) ==
    /\ c \in writing
    /\ queue[c] # << >>
    /\ queue' = [queue EXCEPT ![c] = Tail(@)]
    /\ IF IsDispatch(Head(queue[c]))
       THEN /\ pos' = [pos EXCEPT ![c] = Head(queue[c]).seq]
            /\ got' = [got EXCEPT ![c] = Head(queue[c]).payload]
       ELSE UNCHANGED <<pos, got>>
    /\ UNCHANGED <<hubVars, phase, bound, done, writing, log>>

\* The write fails or times out: writeLoop terminates the connection and ends;
\* nothing reads its queue any more.
WriteFailsSilently(c) ==
    /\ c \in writing
    /\ queue[c] # << >>
    /\ queue' = [queue EXCEPT ![c] = << >>]
    /\ writing' = writing \ {c}
    /\ UNCHANGED <<hubVars, phase, bound, done, histVars>>
WriteFails(c) ==
    /\ c \in writing
    /\ queue[c] # << >>
    /\ queue' = [queue EXCEPT ![c] = << >>]
    /\ done' = [done EXCEPT ![c] = TRUE]
    /\ writing' = writing \ {c}
    /\ UNCHANGED <<hubVars, phase, bound, histVars>>
-----------------------------------------------------------------------------
(* Time, the periodic sweep and the onUserGone goroutines.                 *)

RetentionElapses(s) ==
    /\ s \in live
    /\ disconnectedAt[s] = "recent"
    /\ disconnectedAt' = [disconnectedAt EXCEPT ![s] = "expired"]
    /\ UNCHANGED <<live, issued, user, intents, sequence, events, client,
                   goneCalls, connVars, histVars>>

SweepSilently ==
    /\ live' = Retained
    /\ UNCHANGED <<issued, user, intents, sequence, events, client,
                   disconnectedAt, goneCalls, connVars, histVars>>
Sweep ==
    /\ live' = Retained
    /\ CallUserGone
    /\ UNCHANGED <<issued, user, intents, sequence, events, client,
                   disconnectedAt, connVars, histVars>>

RunUserGone(u) ==
    /\ goneCalls[u] > 0
    /\ goneCalls' = [goneCalls EXCEPT ![u] = @ - 1]
    /\ UNCHANGED <<live, issued, user, intents, sequence, events, client,
                   disconnectedAt, connVars, histVars>>

ConnStep(c) ==
    \/ Connect(c)
    \/ GiveUp(c)
    \/ \E u \in Users : IdentifyRefused(c, u)
    \/ \E u \in Users, wanted \in IntentSets, s \in Sessions : Identify(c, u, wanted, s)
    \/ \E u \in Users, s \in Sessions, n \in 0..MaxSequence :
         \/ ResumeRefused(c, u, s, n)
         \/ Resume(c, u, s, n)
         \/ ResumeFails(c, u, s, n)
    \/ Heartbeat(c)
    \/ LeaveLoop(c)
    \/ Return(c)
    \/ WriteLoop(c)
    \/ WriteFails(c)

Next ==
    \/ \E c \in Conns : ConnStep(c)
    \/ \E recipients \in SUBSET Users, e \in Published : Publish(recipients, e)
    \/ \E s \in Sessions : RetentionElapses(s)
    \/ Sweep
    \/ \E u \in Users : RunUserGone(u)

Spec == Init /\ [][Next]_vars

\* What the runtime guarantees: goroutines are scheduled (a read on a terminated
\* connection returns, deferred calls run, writeLoop writes or fails, spawned
\* callbacks run), the clock advances, and main sweeps every 15 seconds.
\* Clients guarantee nothing.
Fairness ==
    /\ \A c \in Conns : WF_vars(done[c] /\ LeaveLoop(c))
    /\ \A c \in Conns : WF_vars(Return(c))
    /\ \A c \in Conns : WF_vars(WriteLoop(c) \/ WriteFails(c))
    /\ \A s \in Sessions : WF_vars(RetentionElapses(s))
    /\ \A u \in Users : WF_vars(RunUserGone(u))
    /\ WF_vars(Sweep)

FairSpec == Spec /\ Fairness
-----------------------------------------------------------------------------
(* Properties.                                                             *)

TypeOK ==
    /\ live \subseteq issued
    /\ issued \subseteq Sessions
    /\ user \in [Sessions -> Users \cup {None}]
    /\ intents \in [Sessions -> SUBSET Intents]
    /\ sequence \in [Sessions -> Nat]
    /\ events \in [Sessions -> Seq(Event)]
    /\ client \in [Sessions -> Conns \cup {None}]
    /\ disconnectedAt \in [Sessions -> {"nil", "recent", "expired"}]
    /\ goneCalls \in [Users -> Nat]
    /\ phase \in [Conns -> {"free", "greeted", "serving", "returning"}]
    /\ bound \in [Conns -> Sessions \cup {None}]
    /\ queue \in [Conns -> Seq(Event \cup {Control})]
    /\ done \in [Conns -> BOOLEAN]
    /\ writing \subseteq Conns
    /\ log \in [Sessions -> Seq(Payloads)]
    /\ pos \in [Conns -> Nat \cup {-1}]
    /\ got \in [Conns -> Payloads \cup {"CONTROL"}]

\* The replay buffer of a Session is the window of its last events: it ends at
\* the current sequence, has no hole, never exceeds EventBufferSize, and each
\* entry still holds the payload dispatched under its number, whatever mixture
\* of publishes, resumes and failed resumes filled it (dispatchLocked,
\* appendEventLocked).
IsWindow(buffer, top, lg) ==
    /\ Len(buffer) \in 1..EventBufferSize
    /\ Len(lg) = top + 1
    /\ Len(buffer) <= Len(lg)
    /\ \A i \in DOMAIN buffer :
         /\ buffer[i].seq = top - Len(buffer) + i
         /\ buffer[i].payload = lg[buffer[i].seq + 1]
BufferIsWindow == \A s \in issued : IsWindow(events[s], sequence[s], log[s])

\* Whatever a connection is about to write is the next event of the stream it
\* identified for or resumed: no gap, no duplicate, no reordering, and the
\* payload the Session dispatched under that number, even after the Session has
\* been taken over, detached for a full queue, or pruned (enqueue, writeLoop,
\* resume).
WritesInOrder ==
    \A c \in Conns :
        queue[c] # << >> /\ IsDispatch(Head(queue[c])) /\ c \in writing =>
            /\ bound[c] \in issued
            /\ Head(queue[c]).seq = pos[c] + 1
            /\ Head(queue[c]).payload = log[bound[c]][pos[c] + 2]

\* The hub and its connections implement the reliable stream of SessionStream:
\* buffering, replay, takeover, slow consumers and lost connections are
\* invisible except that a connection may stop.
Stream == INSTANCE SessionStream WITH NoPayload <- "CONTROL"
ImplementsStream == Stream!Spec

\* The connection a Session is attached to will not miss anything: everything
\* after what it has written is still in its queue (dispatchLocked detaches as
\* soon as one event is refused).
AttachedMissesNothing ==
    \A s \in live :
        client[s] # None /\ client[s] \in writing =>
            \A n \in (pos[client[s]] + 1)..sequence[s] :
                \E i \in DOMAIN queue[client[s]] : queue[client[s]][i].seq = n

\* A Session is never attached to a connection whose ServeHTTP will not detach
\* it: such a Session would count against the limits and never be pruned.  And
\* a detached Session always has its retention clock running.
NoLeakedSession ==
    \A s \in live :
        IF client[s] # None
        THEN /\ bound[client[s]] = s
             /\ phase[client[s]] \in {"serving", "returning"}
             /\ disconnectedAt[s] = "nil"
        ELSE disconnectedAt[s] # "nil"

\* A connection that is being served and has not been terminated is the one its
\* Session dispatches to, and that Session is still in the hub: a takeover
\* terminates the old connection and the old one's late detach leaves the new
\* one attached (resume, detachLocked, pruneLocked).
ServedIsAttached ==
    \A c \in Conns :
        phase[c] = "serving" /\ ~ done[c] =>
            bound[c] \in live /\ client[bound[c]] = c

\* The limits of identify hold whatever is pruned and resumed in between.
WithinCapacity ==
    /\ Cardinality(live) <= MaxSessions
    /\ \A u \in Users : Cardinality({s \in live : user[s] = u}) <= MaxSessionsPerUser

\* Seen from the rest of the server, the hub is GatewaySessions: Sessions are
\* opened by IDENTIFY within the limit, dropped only by retention, and onUserGone
\* is started exactly when a User's last Session is dropped, also when the same
\* critical section then opens a new one.
GatewayView ==
    INSTANCE GatewaySessions WITH held <- [u \in Users |-> {s \in live : user[s] = u}]
ImplementsSessions == GatewayView!Spec

\* A fresh connection has room for HELLO, a whole buffer and RESUMED (newClient's
\* queue is eventBufferSize+8), so a Resume inside the window is never refused
\* for a full queue.
ReplayFits ==
    \A c \in Conns, s \in live :
        phase[c] = "greeted" => Len(queue[c]) + Len(events[s]) + 1 <= QueueCap

\* A Session is served while ServeHTTP reads from the connection it is attached
\* to.  A Session that is not served any more leaves the hub, unless it is
\* resumed: nothing stays in h.sessions for ever on behalf of a dead peer.
Served(s) ==
    /\ client[s] # None
    /\ bound[client[s]] = s
    /\ phase[client[s]] = "serving"
    /\ ~ done[client[s]]
DeadPeerIsForgotten ==
    \A s \in Sessions : (s \in live /\ ~ Served(s)) ~> (s \notin live \/ Served(s))

\* Every event dispatched to an attached Session is written to its connection,
\* unless the connection ends first.
DispatchIsWritten ==
    \A s \in Sessions, c \in Conns : \A n \in 0..MaxSequence :
        (s \in live /\ client[s] = c /\ sequence[s] >= n) ~>
            (pos[c] >= n \/ done[c] \/ phase[c] \in {"free", "returning"})
=============================================================================
