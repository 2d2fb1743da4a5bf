SPECIFICATION Spec
CONSTANTS
    MaxQueries = 2
INVARIANTS
    RetiringIsSafe
CHECK_DEADLOCK FALSE
