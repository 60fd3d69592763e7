----------------------------- MODULE MCSpscQueue ----------------------------
(* The items are interchangeable.                                           *)
EXTENDS SpscQueue, TLC

Symmetry == Permutations(Item)
=============================================================================
