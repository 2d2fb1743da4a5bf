-------------------------- MODULE MCQueryExecution --------------------------
(* Small instances of QueryExecution: the ids are numbers, so that they are *)
(* not symmetric.                                                           *)
EXTENDS QueryExecution
=============================================================================
