---------------------------- MODULE MCAuthSessions ----------------------------
(* Small instances of AuthSessions for TLC.                                *)
EXTENDS AuthSessions, TLC

Symmetry == Permutations(Users) \cup Permutations(Sessions) \cup Permutations(Pairs)
              \cup Permutations(Codes) \cup Permutations(Requests)
=============================================================================
