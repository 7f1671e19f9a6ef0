\* The retrying child handle under concurrent calls.
SPECIFICATION FairSpec
CONSTANTS
    Callers = {c1, c2, c3}
    Pids = {p1, p2}
    Respawner = respawner
    NoOne = noOne
    NoChild = noChild
    BaseDelay = 2
    MaxDelay = 7
    MaxAttempts = 4
    ResetAfter = 8
INVARIANTS
    TypeOK
    EveryProcessTracked
    RetryOnlyWhenDown
    CeilingHonoured
PROPERTIES
    StopReturns
    CrashAnswered
    BackoffGrows
