---------------------------- MODULE IndexContract ----------------------------
(***************************************************************************)
(* What the index worker promises, without saying how: which files the     *)
(* index shows as they are at the branch tip, and which are owed to         *)
(* somebody.  It says nothing of runs, steps, rows, crashes or deliveries.  *)
(* IndexRefinement shows that IndexWorker keeps the promise.                *)
(***************************************************************************)
CONSTANT Paths

VARIABLES
  current,   \* the files that the index shows as they are at the branch tip
  owed       \* the files that somebody may still expect to be brought there

vars == <<current, owed>>

\* Nobody has been promised anything yet.
Init ==
  /\ current \subseteq Paths
  /\ owed = Paths

\* The files of S changed on the branch; the others are as current as before.
Push(S) ==
  /\ owed' = owed \cup S
  /\ current' \subseteq Paths
  /\ current' \ S = current \ S

\* The whole repository is asked for.
Request ==
  /\ owed' = Paths
  /\ UNCHANGED current

\* Work in progress shows, but only on files that are owed.
Rework ==
  /\ current' \subseteq Paths
  /\ current' \ owed = current \ owed
  /\ UNCHANGED owed

\* A debt is paid by the file's being current, and by nothing else.
Settle ==
  /\ owed' \subseteq owed
  /\ owed \ owed' \subseteq current
  /\ UNCHANGED current

Next ==
  \/ \E S \in SUBSET Paths : Push(S)
  \/ Request \/ Rework \/ Settle

Spec == Init /\ [][Next]_vars
=============================================================================
