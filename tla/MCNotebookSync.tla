--------------------------- MODULE MCNotebookSync ---------------------------
(* Small instances of NotebookSync: one notebook with two script files.     *)
EXTENDS NotebookSync

CONSTANTS f1, f2, n1, a, b

OneNotebook == [k \in Keys |-> n1]
=============================================================================
