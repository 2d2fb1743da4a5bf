SPECIFICATION FairSpec
CONSTANTS
    MaxQueries = 2
INVARIANTS
    ActiveIsRunning
    TallyMatches
    LatestHasComputation
    CacheHoldsResults
PROPERTIES
    StatusMovesForward
    CancelPrevails
    ExecutionsEnd
CHECK_DEADLOCK FALSE
