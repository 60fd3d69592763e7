--------------------------- MODULE MCHandleTable ----------------------------
(* Two objects and two tags, a table that starts with one slot and may      *)
(* double twice, slots that may be closed MaxGen times.  Objects and tags   *)
(* are interchangeable.                                                     *)
EXTENDS HandleTable, TLC

Symmetry == Permutations(Obj) \cup Permutations(Tag)
=============================================================================
