--------------------------- MODULE MCCrossFilters ---------------------------
(* The model-checking instance of CrossFilters: one selection besides the     *)
(* empty one, one sort order, two views of the table (the grid and the        *)
(* visualisation tab in split mode).                                          *)
EXTENDS CrossFilters
=============================================================================
