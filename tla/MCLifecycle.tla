---------------------------- MODULE MCLifecycle -----------------------------
\* Launches differ by nothing but their name.
EXTENDS Lifecycle, TLC

Symmetry == Permutations(Launches)
=============================================================================
