------------------------- MODULE MCNotebookRegistry -------------------------
EXTENDS NotebookRegistry, TLC

\* notebooks and slots of a kind are interchangeable
Symmetry == Permutations(Notebooks) \cup Permutations(Slots) \cup Permutations(Dirs)
=============================================================================
