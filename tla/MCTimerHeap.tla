----------------------------- MODULE MCTimerHeap ----------------------------
(* The signals are interchangeable.                                         *)
EXTENDS TimerHeap, TLC

Symmetry == Permutations(Signal)
=============================================================================
