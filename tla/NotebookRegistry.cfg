SPECIFICATION Spec
CONSTANTS
    Notebooks = {n1, n2}
    Dirs = {d1}
    Slots = {s1, s2}
    Opfs = opfs
    Nobody = nobody
    Nowhere = nowhere
SYMMETRY Symmetry
INVARIANTS CopyIsKept EntryFindsFiles
