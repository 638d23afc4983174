---------------------------- MODULE MCAttachments ----------------------------
(* A small instance of Attachments for TLC.  Liveness is checked, so no symmetry. *)
EXTENDS Attachments
=============================================================================
