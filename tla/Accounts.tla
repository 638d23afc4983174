------------------------------- MODULE Accounts -------------------------------
(***************************************************************************)
(* What aster-server promises about the authentication methods of an       *)
(* Account: one exists from its first method on, never loses its last one, *)
(* holds at most one Google account, and shares no method with another.    *)
(***************************************************************************)
EXTENDS FiniteSets

CONSTANTS Users, Addresses, Subjects

VARIABLE methods            \* of a User: addresses with a Password, Google accounts

AccountsInit == methods = [u \in Users |-> {}]

Unclaimed(m) == \A u \in Users : m \notin methods[u]

Open(u, m) ==
    /\ methods[u] = {}
    /\ Unclaimed(m)
    /\ methods' = [methods EXCEPT ![u] = {m}]

Add(u, s) ==
    /\ methods[u] # {}
    /\ methods[u] \cap Subjects = {}
    /\ Unclaimed(s)
    /\ methods' = [methods EXCEPT ![u] = @ \cup {s}]

Remove(u, m) ==
    /\ m \in methods[u]
    /\ methods[u] # {m}
    /\ methods' = [methods EXCEPT ![u] = @ \ {m}]

AccountsNext ==
    \E u \in Users :
        \/ \E m \in Addresses \cup Subjects : Open(u, m) \/ Remove(u, m)
        \/ \E s \in Subjects : Add(u, s)

AccountsSpec == AccountsInit /\ [][AccountsNext]_methods
=============================================================================
