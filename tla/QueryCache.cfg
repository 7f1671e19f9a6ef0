\* Readers, writers and invalidations of three keys.
SPECIFICATION Spec
CONSTANTS
    metrics = metrics
    day = day
    week = week
    Keys <- MCKeys
    Namespaces <- MCNamespaces
    Comps = {i1, i2}
    MaxEntries = 2
    MaxVersion = 1
    MaxGeneration = 2
    None = none
SYMMETRY Symmetry
INVARIANTS
    TypeOK
    ReadersSeeWrites
    SingleFlight
    StoreBounded
