SPECIFICATION Spec
CONSTANTS
    r1 = r1
    r2 = r2
    r3 = r3
    Releases = {r1, r2, r3}
    NoRelease = NoRelease
    Broken = {r3}
    Level <- MCLevel
    MaxRuns = 4
    MaxFaults = 3
INVARIANTS
    SuccessIsServing
    FailureIsUndone
    SchemaCoversActive
    RollbackPossible
PROPERTY
    SwitchIsAtomic
CHECK_DEADLOCK FALSE
