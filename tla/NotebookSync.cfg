SPECIFICATION FairSyncSpec
CONSTANTS
    f1 = f1
    f2 = f2
    n1 = n1
    a = a
    b = b
    Keys = {f1, f2}
    Notebooks = {n1}
    NotebookOf <- OneNotebook
    Reloadable = {f1, f2}
    Relocators = {}
    Contents = {a, b}
    FirstContent = a
    MaxWrites = 2
    MaxHolds = 6
    MaxExternal = 2
INVARIANTS
    StableRead
    HeldWhileReloading
    SecondAnswerIsStale
    DivergenceIsExplained
PROPERTIES
    NoSilentDiscard
    SyncSettles
