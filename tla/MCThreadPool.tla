----------------------------- MODULE MCThreadPool ---------------------------
(* Model of ThreadPool for TLC. *)
EXTENDS ThreadPool
=============================================================================
