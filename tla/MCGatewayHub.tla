---------------------------- MODULE MCGatewayHub ----------------------------
(* Small instances of GatewayHub for TLC.                                  *)
EXTENDS GatewayHub, TLC

MCIntentSets == {{"GUILD_MESSAGES"}}
MixedIntentSets == {{}, {"GUILD_MESSAGES", "MESSAGE_CONTENT"}}

\* Identities are interchangeable; used for the safety run only.
Symmetry == Permutations(Users) \cup Permutations(Sessions) \cup Permutations(Conns)
=============================================================================
