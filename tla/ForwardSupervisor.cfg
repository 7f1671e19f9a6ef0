\* Rule writes, reconciles and panel restarts, on a remote node and the panel's host.
SPECIFICATION Spec
CONSTANTS
    n1 = n1
    n2 = n2
    p1 = p1
    p2 = p2
    Rules = {a, b}
    Ports = {p1, p2}
    Nodes = {n1, n2}
    Panel = {n2}
    Places <- Somewhere
    Requests = {q1}
    Disabled = disabled
    Absent = absent
    MaxWrites = 2
    MaxFaults = 2
SYMMETRY Symmetry
INVARIANTS
    StatusReflects
    NothingStaleServes
    OnePerPort
