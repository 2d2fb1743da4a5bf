SPECIFICATION FairSpec
CONSTANTS
    n1 = n1
    n2 = n2
    d1 = d1
    d2 = d2
    Notebooks = {n1, n2}
    Dirs = {d1, d2}
    MaxCalls = 2
INVARIANTS
    NoLeakedWatch
    WatchesAreCurrent
    DesiredAreWatched
PROPERTY ClosedServiceEnds
