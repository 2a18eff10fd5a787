--------------------------- MODULE MCRuntimeCache ---------------------------
(***************************************************************************)
(* Small archives for RuntimeCache: one file at the top of the tree, one   *)
(* header the completeness check looks at and one it does not.             *)
(***************************************************************************)
EXTENDS RuntimeCacheInv, TLC

CONSTANTS libtcc1, stddef, float

MCFiles == {libtcc1, stddef, float}
MCIncFiles == {stddef, float}
MCRequired == <<libtcc1, stddef>>

\* tar stores a directory before what is in it; the order of the headers is
\* that of the directory they were packed from.
MCScript == <<"base", libtcc1, "base", "include", float, stddef>>
MCScript2 == <<"base", libtcc1, "base", "include", stddef, float>>

Symmetry == Permutations(Procs \ Explicit)
=============================================================================
