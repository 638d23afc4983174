--------------------------- MODULE MCAuthIdentities ---------------------------
(* A small instance of AuthIdentities for TLC.                             *)
EXTENDS AuthIdentities, TLC

Symmetry == Permutations(Users) \cup Permutations(Addresses) \cup Permutations(Subjects)
              \cup Permutations(Attempts) \cup Permutations(Requests)
=============================================================================
