---------------------------- MODULE MCRdbmsCache ----------------------------
(* Small instances of RdbmsCache: two or three nodes, a cache of one or two. *)
EXTENDS RdbmsCache, TLC
CONSTANTS x, y
MCLinks == {x, y}
OneLink == {x}
MCValues == {"p", "q"}
Symmetric == Permutations({x, y})
=============================================================================
