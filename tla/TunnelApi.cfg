SPECIFICATION Spec
CONSTANTS
    Tunnels = {t1, t2}
    Requests = {r1, r2}
    NoTunnel = NoTunnel
    NoRow = NoRow
    MaxRequests = 3
    MaxCrashes = 1
SYMMETRY Symmetry
INVARIANTS
    RunningIsTracked
    StartingIsCreating
    NoGhost
    StopIsKept
    PortHeldOnce
CHECK_DEADLOCK FALSE
