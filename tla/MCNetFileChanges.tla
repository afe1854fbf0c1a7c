-------------------------- MODULE MCNetFileChanges ---------------------------
(* A Go file and a file of another kind.                                    *)
EXTENDS NetFileChanges, TLC

CONSTANTS p1, readme

MCAllPaths == {p1, readme}
MCGoFiles == {p1}
=============================================================================
