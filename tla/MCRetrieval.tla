----------------------------- MODULE MCRetrieval -----------------------------
(* A small instance of Retrieval.                                           *)
EXTENDS Retrieval, TLC

CONSTANTS p1, p2

MCPaths2 == {p1, p2}
MCRefs == {}
MCTopKs == {0, 1}

Symmetry == Permutations(MCPaths2)
=============================================================================
