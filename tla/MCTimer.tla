------------------------------- MODULE MCTimer ------------------------------
(* The timers are interchangeable.                                          *)
EXTENDS Timer, TLC

Symmetry == Permutations(Timer)
=============================================================================
