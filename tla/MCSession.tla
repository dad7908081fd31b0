------------------------------ MODULE MCSession ------------------------------
(* Session for TLC: the goroutines are interchangeable.                      *)
EXTENDS Session, TLC

Symmetry == Permutations(Callers)
=============================================================================
