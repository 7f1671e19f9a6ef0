SPECIFICATION Spec
CONSTANTS
    Clients = {c1, c2}
    Conns = {k1}
    Socks = {s1, s2, s3}
    none = none
    Attempts = 2
    SessionTTL = 3
    Interval = 2
INVARIANTS
    UpstreamsOwned
    FlowsEnd
    StopReleases
PROPERTY
    StopResolves
