--------------------------- MODULE MCScriptFiles ---------------------------
(* Small instances of ScriptFiles: a page of two scripts, two pages, and    *)
(* scripts without ordering prefixes.                                       *)
EXTENDS ScriptFiles

CONSTANTS x, y

At(f, s, t) == [p \in {<<f, s>>} |-> t]

OnePage == With(At(<<1, 1>>, <<1, 1>>, x), <<<<1, 1>>, <<2, 2>>>>, y)
TwoPages == With(At(<<1, 1>>, <<1, 1>>, x), <<<<2, 2>>, <<1, 1>>>>, y)
Unprefixed == With(At(<<0, 1>>, <<0, 1>>, x), <<<<0, 1>>, <<0, 2>>>>, y)

SmallNotebooks == {OnePage, TwoPages, Unprefixed}
=============================================================================
