--------------------------- MODULE GatewaySessions ---------------------------
(***************************************************************************)
(* What the rest of the server sees of the Gateway: which Sessions each    *)
(* User has, connected or retained for RESUME, and the onUserGone calls    *)
(* the hub has started.  One call is started each time a User's last       *)
(* Session is dropped, and only then; the call runs at any later time.     *)
(***************************************************************************)
EXTENDS Integers, FiniteSets

CONSTANTS Users, Sessions, MaxSessionsPerUser

VARIABLES
    held,        \* the Sessions of each User
    goneCalls    \* onUserGone(u) goroutines started and not yet run

gatewayVars == <<held, goneCalls>>

Init ==
    /\ held = [u \in Users |-> {}]
    /\ goneCalls = [u \in Users |-> 0]

\* The hub drops the expired Sessions in dropped, then may open one for u.
Change(dropped, u, opened) ==
    /\ Cardinality(opened) <= 1
    /\ opened \cap UNION {held[v] : v \in Users} = {}
    /\ held' = [v \in Users |->
                  (held[v] \ dropped) \cup (IF v = u THEN opened ELSE {})]
    /\ opened # {} => Cardinality(held'[u]) <= MaxSessionsPerUser
    /\ goneCalls' = [v \in Users |->
                       goneCalls[v] +
                       IF held[v] # {} /\ held[v] \subseteq dropped THEN 1 ELSE 0]

Run(u) ==
    /\ goneCalls[u] > 0
    /\ goneCalls' = [goneCalls EXCEPT ![u] = @ - 1]
    /\ UNCHANGED held

Next ==
    \E u \in Users :
        \/ \E dropped, opened \in SUBSET Sessions : Change(dropped, u, opened)
        \/ Run(u)

Spec == Init /\ [][Next]_gatewayVars
=============================================================================
