------------------------- MODULE MCNotebookWatches -------------------------
(* Small instances of NotebookWatches: two notebooks, two directories.      *)
EXTENDS NotebookWatches

CONSTANTS n1, n2, d1, d2
=============================================================================
