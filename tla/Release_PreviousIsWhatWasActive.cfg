SPECIFICATION Spec
CONSTANTS
    r1 = r1
    r2 = r2
    r3 = r3
    Releases = {r1, r2, r3}
    NoRelease = NoRelease
    Broken = {}
    Level <- MCLevel
    MaxRuns = 3
    MaxFaults = 0
INVARIANT PreviousIsWhatWasActive
CHECK_DEADLOCK FALSE
