\* Writes that land while a run is in flight.
SPECIFICATION Spec
CONSTANTS
    n1 = n1
    n2 = n2
    p1 = p1
    p2 = p2
    Rules = {a, b}
    Ports = {p1, p2}
    Nodes = {n1, n2}
    Requests = {q1, q2}
    Disabled = disabled
    Absent = absent
    Panel = {n2}
    Places <- Somewhere
    MaxWrites = 2
    MaxFaults = 0
SYMMETRY Symmetry
INVARIANT WritesApplied
