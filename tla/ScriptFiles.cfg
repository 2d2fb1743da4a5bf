SPECIFICATION Spec
CONSTANTS
    x = x
    y = y
    PageNames = {1, 2}
    ScriptNames = {1, 2, 3}
    Texts = {x, y}
    EmptyText = x
    Notebooks <- SmallNotebooks
    MaxPrefix = 3
    MaxActions = 3
    MaxRunning = 2
INVARIANTS
    TasksLeadToNotebook
    RenameTargetIsFreeInOrder
CHECK_DEADLOCK FALSE
