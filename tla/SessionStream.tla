---------------------------- MODULE SessionStream ----------------------------
(***************************************************************************)
(* What the Gateway promises its clients, without buffers, queues or       *)
(* retention: every Session is an append-only log, and a connection bound  *)
(* to a Session reads that log from the position it started at, one entry  *)
(* at a time, skipping, repeating and altering nothing.  The entry with    *)
(* sequence n is log[s][n + 1].                                            *)
(***************************************************************************)
EXTENDS Integers, Sequences

CONSTANTS Sessions, Conns, None, Payloads, NoPayload

VARIABLES
    log,     \* what each Session has dispatched
    bound,   \* the Session each connection reads, or None
    pos,     \* sequence of the last entry the connection was sent
    got      \* that entry

vars == <<log, bound, pos, got>>

Init ==
    /\ log = [s \in Sessions |-> << >>]
    /\ bound = [c \in Conns |-> None]
    /\ pos = [c \in Conns |-> -1]
    /\ got = [c \in Conns |-> NoPayload]

\* A Session's log only grows, by at most one entry in a step.
Grow(s) ==
    \/ log'[s] = log[s]
    \/ \E p \in Payloads : log'[s] = Append(log[s], p)

\* IDENTIFY reads a new log from its first entry; RESUME continues after an
\* entry the Session has dispatched.
Start(c) ==
    /\ bound[c] = None
    /\ bound'[c] \in Sessions
    /\ \/ log[bound'[c]] = << >> /\ pos'[c] = -1
       \/ pos'[c] \in 0..(Len(log[bound'[c]]) - 1)
    /\ got'[c] = NoPayload

Receive(c) ==
    /\ bound[c] # None
    /\ bound'[c] = bound[c]
    /\ pos'[c] = pos[c] + 1
    /\ pos'[c] < Len(log[bound[c]])
    /\ got'[c] = log[bound[c]][pos'[c] + 1]

Stop(c) ==
    /\ bound'[c] = None
    /\ pos'[c] = -1
    /\ got'[c] = NoPayload

Idle(c) == bound'[c] = bound[c] /\ pos'[c] = pos[c] /\ got'[c] = got[c]

Next ==
    /\ DOMAIN log' = Sessions
    /\ DOMAIN bound' = Conns /\ DOMAIN pos' = Conns /\ DOMAIN got' = Conns
    /\ \A s \in Sessions : Grow(s)
    /\ \A c \in Conns : Start(c) \/ Receive(c) \/ Stop(c) \/ Idle(c)

Spec == Init /\ [][Next]_vars
=============================================================================
