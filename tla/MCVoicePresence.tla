---------------------------- MODULE MCVoicePresence ----------------------------
(* A small instance of VoicePresence for TLC.  Liveness is checked, so no symmetry. *)
EXTENDS VoicePresence
=============================================================================
