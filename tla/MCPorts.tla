------------------------------- MODULE MCPorts -------------------------------
(* Model of Ports for TLC: the coroutines of a port are interchangeable. *)
EXTENDS Ports, TLC

Symmetry == Permutations(Pair) \cup Permutations(Trio)
=============================================================================
