----------------------------- MODULE MCReadStates -----------------------------
(* Small instances of Channels and ReadStates for TLC.                     *)
EXTENDS ReadStates, TLC

CONSTANTS text, category
Created(type, position) ==
    [type |-> type, parent |-> None, position |-> position, starter |-> None, pair |-> {}]

\* A text Channel and a Category; the other ids are issued to what is created.
MCGuild == [c \in Channels |-> CASE c = text -> Created("TEXT", 0)
                                 [] c = category -> Created("CATEGORY", 1)
                                 [] OTHER -> None]

Symmetry == Permutations(Users) \cup Permutations(Requests) \cup Permutations(Readers)
              \cup Permutations(Channels \ {text, category})
=============================================================================
