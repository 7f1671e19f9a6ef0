SPECIFICATION Spec
CONSTANTS
    Requests = {r1, r2}
    MaxPairs = 3
    CacheTTL = 2
    Grace = 3
    MaxTime = 1
SYMMETRY Symmetry
VIEW View
INVARIANTS
    ParallelRefreshWorks
    DeactivationBites
    SessionsHeld
