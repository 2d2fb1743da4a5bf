SPECIFICATION Spec
CONSTANTS
    Notebooks = {n1}
    Dirs = {d1}
    Slots = {s1}
    Opfs = opfs
    Nobody = nobody
    Nowhere = nowhere
PROPERTY AddsOnlyUnregistered
