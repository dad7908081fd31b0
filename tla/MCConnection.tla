---------------------------- MODULE MCConnection ----------------------------
(* Connection for TLC. Callers and refresh loops are interchangeable: the   *)
(* safety runs use that, the liveness run does not.                         *)
EXTENDS Connection, TLC

Symmetry == Permutations(Callers) \cup Permutations(Loops)
=============================================================================
