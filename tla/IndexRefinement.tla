--------------------------- MODULE IndexRefinement ---------------------------
(***************************************************************************)
(* IndexWorker implements IndexContract: a file is current when its row is  *)
(* the branch tip's, and owed as long as an event that names it waits, is   *)
(* being handled, or lies rejected.  Before anybody asked for the           *)
(* repository every file counts as owed.                                    *)
(***************************************************************************)
EXTENDS IndexWorker

Current == {p \in Paths : ~ Stale(p)}
Owed == {p \in Paths : Requested => Covered(p)}

Contract == INSTANCE IndexContract WITH current <- Current, owed <- Owed

\* The index worker keeps its contract: a run, whatever fails in it and however
\* often it is delivered, changes what the index shows of a file only while an
\* event that names the file is outstanding, and an event is acked only when
\* the files it frees are as they are at the branch tip.
KeepsContract == Contract!Spec
=============================================================================
