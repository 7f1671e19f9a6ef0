SPECIFICATION Spec
CONSTANTS
    Requests = {r1, r2}
    NRoles = 2
    MaxDeploys = 2
    Modes = {TRUE, FALSE}
    MaxFaults = 1
    Detached = detached
SYMMETRY Symmetry
INVARIANTS
    TypeOK
    NoOrphan
    DeployedRuns
    StopStops
    RemoveForgets
