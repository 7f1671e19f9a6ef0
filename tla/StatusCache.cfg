SPECIFICATION StatusSpec
CONSTANTS
    Procs = {p1, p2}
    Callers = {c1, c2}
    StatusTTL = 1
    ProcTTL = 2
    ProbeTimeout = 1
SYMMETRY Symmetry
INVARIANTS
    RunningIsRecent
    NotRunningIsRecent
    FreshAfterOperation
