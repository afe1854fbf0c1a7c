------------------------------ MODULE MCSynthy -------------------------------
(* Small instances of Synthy.                                               *)
EXTENDS Synthy, TLC

CONSTANTS p1, p2

MCPaths1 == {p1}
MCPaths2 == {p1, p2}
MCRefs == {}

Symmetry == Permutations(MCPaths2)
=============================================================================
