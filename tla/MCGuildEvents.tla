---------------------------- MODULE MCGuildEvents ----------------------------
(* Small instances of GuildEvents for TLC.                                 *)
EXTENDS GuildEvents, TLC

Symmetry == Permutations(Calls) \cup Permutations(Users \ {Owner})
=============================================================================
