---------------------------- MODULE MCShareAccess ----------------------------
(* A small instance of ShareAccess for TLC. *)
EXTENDS ShareAccess
=============================================================================
