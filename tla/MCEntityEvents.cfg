SPECIFICATION FairSpec
CONSTANTS
    None = None
    Clusters = {c1, c2}
    Refs = {r1, r2}
    Fetches = {f1, f2, f3}
    MaxGen = 2
    MaxVersion = 1
CHECK_DEADLOCK FALSE
INVARIANTS
    ShownIsLoaded
    CachedUnderOwnKey
PROPERTIES
    BusyEnds
