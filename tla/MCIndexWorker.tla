---------------------------- MODULE MCIndexWorker ----------------------------
(* Small instances of IndexWorker: two files that refer to each other, or   *)
(* a third file beside them.                                                *)
EXTENDS IndexRefinement, TLC

CONSTANTS p1, p2, p3

MCPaths == {p1, p2}
MCPaths3 == {p1, p2, p3}
MCRefs == {<<p1, p2>>, <<p2, p1>>}

Symmetry == Permutations(MCPaths)
=============================================================================
