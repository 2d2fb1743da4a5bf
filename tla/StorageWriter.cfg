SPECIFICATION FairSpec
CONSTANTS
    k1 = k1
    k2 = k2
    k3 = k3
    n1 = n1
    n2 = n2
    r1 = r1
    r2 = r2
    Keys = {k1, k2, k3}
    Notebooks = {n1, n2}
    NotebookOf <- MCNotebookOf
    Reloadable = {k1, k3}
    Relocators = {r1}
    MaxWrites = 3
    MaxHolds = 1
INVARIANTS
    NoLostWrite
    OneOwner
    DrainedBeforeCopy
    NoWriteDuringCopy
PROPERTY EveryWriteAnswered
