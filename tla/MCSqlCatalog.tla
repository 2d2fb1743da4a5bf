---------------------------- MODULE MCSqlCatalog ----------------------------
(* Model-checking instances of SqlCatalog.  Two databases d and e and the     *)
(* empty one, the schemas a and b, the tables t and u; the texts are chosen   *)
(* so that schemas move between databases and are shared by scripts.          *)
EXTENDS SqlCatalog, TLC

CONSTANTS s1, s2, s3, d, e, a, b, t, u, none

MCRank == s1 :> 1 @@ s2 :> 2 @@ s3 :> 3

MCRank2 == s1 :> 1 @@ s2 :> 2

Creates(tables, reads) == [creates |-> tables, reads |-> reads]

\* declarations that move and are shared by scripts, and lookups of every kind
MCTexts == {Creates({<<d, a, t>>}, <<none, a, u>>),
            Creates({<<d, a, t>>, <<e, a, u>>}, <<d, b, t>>),
            Creates({<<d, b, t>>}, <<none, none, u>>)}
=============================================================================
