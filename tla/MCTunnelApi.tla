----------------------------- MODULE MCTunnelApi -----------------------------
EXTENDS TunnelApi, TLC

Symmetry == Permutations(Tunnels) \cup Permutations(Requests)
=============================================================================
