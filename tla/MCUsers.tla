------------------------------- MODULE MCUsers -------------------------------
EXTENDS Users, TLC

Symmetry == Permutations(People) \cup Permutations(Changes)
=============================================================================
