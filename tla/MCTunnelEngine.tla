--------------------------- MODULE MCTunnelEngine ---------------------------
(* TunnelEngine on two roles, with two requests that may overlap. *)
EXTENDS TunnelEngine, TLC

Symmetry == Permutations(Requests)
=============================================================================
