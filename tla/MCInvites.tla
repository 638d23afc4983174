----------------------------- MODULE MCInvites -----------------------------
(* Small instances of Invites for TLC.                                     *)
EXTENDS Invites, TLC
Symmetry == Permutations(Users \ {Owner}) \cup Permutations(InviteIds) \cup Permutations(Requests)
=============================================================================
