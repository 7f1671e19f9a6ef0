---------------------------- MODULE MCStatusCache ----------------------------
EXTENDS StatusCache, TLC

Symmetry == Permutations(Procs) \cup Permutations(Callers)
=============================================================================
