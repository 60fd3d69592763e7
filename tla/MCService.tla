------------------------------ MODULE MCService -----------------------------
(* Instance of Service for TLC. *)
EXTENDS Service
=============================================================================
