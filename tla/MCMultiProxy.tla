---------------------------- MODULE MCMultiProxy ----------------------------
(* MultiProxy for TLC: goroutines of one kind and mappings are               *)
(* interchangeable.                                                          *)
EXTENDS MultiProxy, TLC

Symmetry == Permutations(Callers) \cup Permutations(Workers) \cup Permutations(Ids)
=============================================================================
