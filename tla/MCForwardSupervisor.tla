------------------------ MODULE MCForwardSupervisor ------------------------
(* ForwardSupervisor on interchangeable rules and requests.  A remote node *)
(* has two ports to put a rule on, and its type may not be that of the     *)
(* rule; the panel's own host has the other port.                          *)
EXTENDS ForwardSupervisor, TLC

CONSTANTS n1, n2, p1, p2

Somewhere ==
    {[node |-> n1, port |-> p1, fits |-> TRUE], [node |-> n1, port |-> p2, fits |-> TRUE],
     [node |-> n1, port |-> p2, fits |-> FALSE], [node |-> n2, port |-> p1, fits |-> TRUE]}

Symmetry == UNION {Permutations(S) : S \in {Rules, Requests}}
=============================================================================
