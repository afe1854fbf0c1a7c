--------------------------- MODULE NetFileChanges ----------------------------
(***************************************************************************)
(* How the commits of one push become the changed and removed paths of the  *)
(* repository event: netFileChanges of ingestionMapper.go and the goFiles   *)
(* filter of the pipeline.  A developer makes commits on a branch whose     *)
(* history is linear and pushes them; the webhook lists what every commit   *)
(* added, modified and removed, and the loop marks the paths in that order. *)
(* IndexWorker's Push takes the outcome for granted; here it is shown.      *)
(***************************************************************************)
EXTENDS Naturals, Sequences

CONSTANTS AllPaths,    \* every path of the repository, Go file or not
          GoFiles,     \* the ones with the extension .go
          MaxCommits   \* bound: commits in the push

ASSUME NetAssumption == GoFiles \subseteq AllPaths /\ MaxCommits \in Nat

VARIABLES
  trees,       \* trees[1] is the branch before the push, trees[i + 1] after
               \* commit i: version per path, 0 when absent
  commits,     \* the commits of the push
  headCommit,  \* the tip of the branch before the push
  payload,     \* the commits netFileChanges visits; empty before the push
  next,        \* the one it visits next
  state        \* its map: what it last heard of every path

vars == <<trees, commits, headCommit, payload, next, state>>

Trees == [AllPaths -> Nat]
CommitRecord == [added : SUBSET AllPaths, modified : SUBSET AllPaths,
                 removed : SUBSET AllPaths]
Marks == {"unseen", "stateChanged", "stateRemoved"}

Tip == trees[Len(trees)]
Present(t) == {p \in AllPaths : t[p] # 0}

TypeOK ==
  /\ trees \in Seq(Trees)
  /\ commits \in Seq(CommitRecord)
  /\ headCommit \in CommitRecord
  /\ payload \in Seq(CommitRecord)
  /\ next \in Nat \ {0}
  /\ state \in [AllPaths -> Marks]

\* The webhook's lists of a commit that leaves the tree t.
Describes(c, t) ==
  c.added \cup c.modified \subseteq Present(t) /\ c.removed \cap Present(t) = {}

Init ==
  /\ \E t \in [AllPaths -> {0, 1}] : trees = <<t>>
  /\ headCommit \in CommitRecord
  /\ headCommit.modified = {}
  /\ Describes(headCommit, trees[1])
  /\ commits = <<>>
  /\ payload = <<>>
  /\ next = 1
  /\ state = [p \in AllPaths |-> "unseen"]

-----------------------------------------------------------------------------
\* A commit adds the files A, changes M and removes R.
Commit(A, M, R) ==
  /\ payload = <<>>
  /\ Len(commits) < MaxCommits
  /\ A \cap Present(Tip) = {}
  /\ M \cup R \subseteq Present(Tip) /\ M \cap R = {}
  /\ commits' = Append(commits, [added |-> A, modified |-> M, removed |-> R])
  /\ trees' = Append(trees, [p \in AllPaths |->
                               CASE p \in A \cup M -> Len(trees) + 1
                                 [] p \in R -> 0
                                 [] OTHER -> Tip[p]])
  /\ UNCHANGED <<headCommit, payload, next, state>>

\* The push arrives.  One without commits (a branch made at an old commit) is
\* described by its head commit alone.
Deliver ==
  /\ payload = <<>>
  /\ payload' = IF commits = <<>> THEN <<headCommit>> ELSE commits
  /\ UNCHANGED <<trees, commits, headCommit, next, state>>

\* Mutant: the first mention of a path wins.
MarkUnseen(c) ==
  [p \in AllPaths |->
     CASE state[p] # "unseen" -> state[p]
       [] p \in c.removed -> "stateRemoved"
       [] p \in c.added \cup c.modified -> "stateChanged"
       [] OTHER -> state[p]]

\* mark() for the added, the modified and then the removed paths: the last
\* mention of a path wins.
MarkCommit(c) ==
  [p \in AllPaths |->
     CASE p \in c.removed -> "stateRemoved"
       [] p \in (c.added \cup c.modified) \ c.removed -> "stateChanged"
       [] OTHER -> state[p]]

VisitCommit ==
  /\ next \in DOMAIN payload
  /\ state' = MarkCommit(payload[next])
  /\ next' = next + 1
  /\ UNCHANGED <<trees, commits, headCommit, payload>>

Next ==
  \/ \E A, M, R \in SUBSET AllPaths : Commit(A, M, R)
  \/ Deliver
  \/ VisitCommit

Spec == Init /\ [][Next]_vars

-----------------------------------------------------------------------------
Done == payload # <<>> /\ next > Len(payload)

\* What the pipeline gets to see.
Changed == {p \in GoFiles : state[p] = "stateChanged"}
Removed == {p \in GoFiles : state[p] = "stateRemoved"}

\* The event describes the push: a changed file is there at its end, a removed
\* one is not, and no Go file that differs is left out - a file added, changed,
\* removed and added again in one push ends up on the right side, once.
NetOfPush ==
  Done =>
    /\ \A p \in Changed : Tip[p] # 0
    /\ \A p \in Removed : Tip[p] = 0
    /\ \A p \in GoFiles : Tip[p] # trees[1][p] => p \in Changed \cup Removed

(* The inductive invariant behind it.                                      *)

\* The commit c leads from the tree t to the tree u.
Leads(c, t, u) ==
  /\ Describes(c, u)
  /\ \A p \in AllPaths :
       p \notin c.added \cup c.modified \cup c.removed => u[p] = t[p]

History ==
  /\ Len(trees) = Len(commits) + 1
  /\ Describes(headCommit, trees[1])
  /\ \A i \in DOMAIN commits : Leads(commits[i], trees[i], trees[i + 1])
  /\ payload # <<>> =>
       payload = IF commits = <<>> THEN <<headCommit>> ELSE commits

\* What the loop knows, relative to the tree t.
Summarizes(t) ==
  \A p \in AllPaths :
    /\ state[p] = "unseen" => t[p] = trees[1][p]
    /\ state[p] = "stateChanged" => t[p] # 0
    /\ state[p] = "stateRemoved" => t[p] = 0

NetInv ==
  /\ History
  /\ payload = <<>> => next = 1
  /\ payload # <<>> => next \in 1..(Len(payload) + 1)
  /\ next = 1 => state = [p \in AllPaths |-> "unseen"]
  /\ payload # <<>> /\ commits # <<>> => Summarizes(trees[next])
  /\ payload # <<>> /\ commits = <<>> => Summarizes(trees[1])
=============================================================================
