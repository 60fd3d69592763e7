----------------------------- MODULE MCBuffering ----------------------------
(* Instance of Buffering for TLC. *)
EXTENDS Buffering
=============================================================================
