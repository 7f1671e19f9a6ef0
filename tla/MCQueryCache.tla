---------------------------- MODULE MCQueryCache ----------------------------
(* QueryCache with two namespaces, one of them of two keys.                *)
EXTENDS QueryCache, TLC

CONSTANTS metrics, day, week

MCKeys == {metrics, day, week}
MCNamespaces == {{metrics}, {day, week}}

Symmetry == Permutations(Comps) \cup Permutations({day, week})
=============================================================================
