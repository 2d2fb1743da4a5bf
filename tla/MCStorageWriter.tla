-------------------------- MODULE MCStorageWriter --------------------------
(* Small instances of StorageWriter: k1 and k2 are keys of notebook n1, k3  *)
(* is a key of n2; k2 stands for a key a reload never cancels.              *)
EXTENDS StorageWriter

CONSTANTS k1, k2, k3, n1, n2, r1, r2

MCNotebookOf == [k \in Keys |-> IF k = k3 THEN n2 ELSE n1]
=============================================================================
