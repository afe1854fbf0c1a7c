------------------------ MODULE NetFileChangesProofs -------------------------
(***************************************************************************)
(* NetOfPush of NetFileChanges, for every set of files and any number of    *)
(* commits, from the inductive invariant NetInv.                            *)
(***************************************************************************)
EXTENDS NetFileChanges, TLAPS

\* The tree a commit leads to is described by what the webhook lists.
LEMMA CommitLeads ==
  ASSUME TypeOK, History, NEW A \in SUBSET AllPaths, NEW M \in SUBSET AllPaths,
         NEW R \in SUBSET AllPaths, Commit(A, M, R)
  PROVE  /\ commits' \in Seq(CommitRecord)
         /\ trees' \in Seq(Trees)
         /\ Len(commits') = Len(commits) + 1
         /\ Len(trees') = Len(trees) + 1
         /\ \A i \in DOMAIN trees : trees'[i] = trees[i]
         /\ \A i \in DOMAIN commits : commits'[i] = commits[i]
         /\ Leads(commits'[Len(commits) + 1], Tip, trees'[Len(trees) + 1])
<1> DEFINE c == [added |-> A, modified |-> M, removed |-> R]
           u == [p \in AllPaths |-> CASE p \in A \cup M -> Len(trees) + 1
                                      [] p \in R -> 0
                                      [] OTHER -> Tip[p]]
<1>1. trees \in Seq(Trees) /\ commits \in Seq(CommitRecord) /\ Len(trees) \in Nat
      /\ Len(trees) # 0 /\ Len(commits) \in Nat
  BY DEF TypeOK, History
<1>2. Tip \in [AllPaths -> Nat]
  BY <1>1 DEF Tip, Trees
<1>3. commits' = Append(commits, c) /\ trees' = Append(trees, u)
  BY DEF Commit
<1>4. c \in CommitRecord
  BY DEF CommitRecord
<1>5. u \in Trees
  BY <1>1, <1>2 DEF Trees
<1>6. Leads(c, Tip, u)
  <2>1. /\ A \cap Present(Tip) = {} /\ M \cup R \subseteq Present(Tip)
        /\ M \cap R = {}
    BY DEF Commit
  <2>2. \A p \in A \cup M : u[p] # 0
    <3>1. Len(trees) + 1 # 0
      BY <1>1
    <3>2. \A p \in AllPaths :
            p \in A \cup M /\ p \notin R => u[p] = Len(trees) + 1
      OBVIOUS
    <3>3. \A p \in A \cup M : p \in AllPaths /\ p \notin R
      BY <2>1
    <3>4. QED
      BY <3>1, <3>2, <3>3
  <2>3. \A p \in R : p \notin A \cup M /\ u[p] = 0
    <3>1. \A p \in R : p \notin A \cup M /\ p \in AllPaths
      BY <2>1
    <3>2. \A p \in AllPaths : p \notin A \cup M /\ p \in R => u[p] = 0
      OBVIOUS
    <3>3. QED
      BY <3>1, <3>2
  <2>4. \A p \in AllPaths : p \notin A \cup M \cup R => u[p] = Tip[p]
    OBVIOUS
  <2>5. Describes(c, u)
    BY <2>2, <2>3 DEF Describes, Present
  <2>6. QED
    BY <2>4, <2>5 DEF Leads
<1> HIDE DEF c, u
<1>7. QED
  BY <1>1, <1>3, <1>4, <1>5, <1>6

\* The loop body: what it knows of the tree t becomes what it knows of the tree
\* u that the commit leads to.
LEMMA VisitSummarizes ==
  ASSUME NEW c \in CommitRecord, NEW t, NEW u, Leads(c, t, u), Summarizes(t),
         state' = MarkCommit(c), trees' = trees
  PROVE  \A p \in AllPaths :
           /\ state'[p] = "unseen" => u[p] = trees[1][p]
           /\ state'[p] = "stateChanged" => u[p] # 0
           /\ state'[p] = "stateRemoved" => u[p] = 0
<1> SUFFICES ASSUME NEW p \in AllPaths
             PROVE  /\ state'[p] = "unseen" => u[p] = trees[1][p]
                    /\ state'[p] = "stateChanged" => u[p] # 0
                    /\ state'[p] = "stateRemoved" => u[p] = 0
  OBVIOUS
<1>1. CASE p \in c.removed
  BY <1>1 DEF MarkCommit, Leads, Describes, Present
<1>2. CASE p \in (c.added \cup c.modified) \ c.removed
  BY <1>2 DEF MarkCommit, Leads, Describes, Present
<1>3. CASE p \notin c.added \cup c.modified \cup c.removed
  <2>1. u[p] = t[p] /\ state'[p] = state[p]
    BY <1>3 DEF Leads, MarkCommit
  <2>2. QED
    BY <2>1 DEF Summarizes
<1>4. QED
  BY <1>1, <1>2, <1>3

-----------------------------------------------------------------------------
\* The invariant holds before the first commit.
LEMMA NetInit == Init => TypeOK /\ NetInv
<1> SUFFICES ASSUME Init PROVE TypeOK /\ NetInv
  OBVIOUS
<1>1. PICK t \in [AllPaths -> {0, 1}] : trees = <<t>>
  BY DEF Init
<1>2. TypeOK
  <2>1. t \in Trees
    BY DEF Trees
  <2>2. QED
    BY <1>1, <2>1 DEF Init, TypeOK, Marks
<1>3. History
  BY <1>1 DEF Init, History
<1>4. QED
  BY <1>2, <1>3 DEF Init, NetInv

\* A commit extends the history; nothing has been visited yet.
LEMMA NetCommit ==
  ASSUME TypeOK, NetInv, NEW A \in SUBSET AllPaths, NEW M \in SUBSET AllPaths,
         NEW R \in SUBSET AllPaths, Commit(A, M, R)
  PROVE  TypeOK' /\ NetInv'
<1>1. /\ commits' \in Seq(CommitRecord)
      /\ trees' \in Seq(Trees)
      /\ Len(commits') = Len(commits) + 1
      /\ Len(trees') = Len(trees) + 1
      /\ \A i \in DOMAIN trees : trees'[i] = trees[i]
      /\ \A i \in DOMAIN commits : commits'[i] = commits[i]
      /\ Leads(commits'[Len(commits) + 1], Tip, trees'[Len(trees) + 1])
  BY CommitLeads DEF NetInv
<1>2. /\ trees \in Seq(Trees) /\ commits \in Seq(CommitRecord)
      /\ Len(trees) = Len(commits) + 1 /\ Len(commits) \in Nat
      /\ DOMAIN commits = 1..Len(commits) /\ DOMAIN trees = 1..Len(trees)
      /\ \A i \in DOMAIN commits : Leads(commits[i], trees[i], trees[i + 1])
  BY DEF TypeOK, NetInv, History
<1>3. payload = <<>> /\ UNCHANGED <<headCommit, payload, next, state>>
  BY DEF Commit
<1>4. TypeOK'
  BY <1>1, <1>3 DEF TypeOK
<1>5. ASSUME NEW i \in DOMAIN commits'
      PROVE  Leads(commits'[i], trees'[i], trees'[i + 1])
  <2>1. i \in 1..(Len(commits) + 1)
    BY <1>1, <1>5
  <2>2. CASE i = Len(commits) + 1
    <3>1. i = Len(trees) /\ i \in DOMAIN trees /\ trees'[i] = Tip
      BY <1>1, <1>2, <2>2 DEF Tip
    <3>2. QED
      BY <1>1, <1>2, <2>2, <3>1
  <2>3. CASE i \in DOMAIN commits
    <3>1. i \in DOMAIN trees /\ i + 1 \in DOMAIN trees
      BY <1>2, <2>3
    <3>2. QED
      BY <1>1, <1>2, <2>3, <3>1
  <2>4. QED
    BY <1>2, <2>1, <2>2, <2>3
<1>6. trees'[1] = trees[1]
  BY <1>1, <1>2
<1>7. History'
  BY <1>1, <1>2, <1>3, <1>5, <1>6 DEF NetInv, History
<1>8. QED
  BY <1>3, <1>4, <1>7 DEF NetInv

\* The push fixes what the loop will visit.
LEMMA NetDeliver == TypeOK /\ NetInv /\ Deliver => TypeOK' /\ NetInv'
<1> SUFFICES ASSUME TypeOK, NetInv, Deliver PROVE TypeOK' /\ NetInv'
  OBVIOUS
<1>1. UNCHANGED <<trees, commits, headCommit, next, state>>
  BY DEF Deliver
<1>2. payload' = IF commits = <<>> THEN <<headCommit>> ELSE commits
  BY DEF Deliver
<1>3. TypeOK' /\ Len(payload') \in Nat \ {0}
  BY <1>1, <1>2 DEF TypeOK
<1>4. History'
  BY <1>1, <1>2 DEF NetInv, History
<1>5. next = 1 /\ next' = 1 /\ state = [p \in AllPaths |-> "unseen"]
  BY <1>1 DEF Deliver, NetInv
<1>6. Summarizes(trees[1])'
  BY <1>1, <1>5 DEF Summarizes
<1>7. QED
  BY <1>1, <1>3, <1>4, <1>5, <1>6 DEF NetInv

\* One turn of the loop.
LEMMA NetVisit == TypeOK /\ NetInv /\ VisitCommit => TypeOK' /\ NetInv'
<1> SUFFICES ASSUME TypeOK, NetInv, VisitCommit PROVE TypeOK' /\ NetInv'
  OBVIOUS
<1>1. /\ next \in DOMAIN payload /\ payload # <<>>
      /\ state' = MarkCommit(payload[next]) /\ next' = next + 1
      /\ UNCHANGED <<trees, commits, headCommit, payload>>
  BY DEF VisitCommit
<1>2. payload[next] \in CommitRecord /\ next \in 1..Len(payload)
  BY <1>1 DEF TypeOK
<1>3. TypeOK'
  <2>1. state' \in [AllPaths -> Marks]
    BY <1>1 DEF TypeOK, MarkCommit, Marks
  <2>2. QED
    BY <1>1, <2>1 DEF TypeOK
<1>4. History'
  BY <1>1 DEF NetInv, History
<1>5. CASE commits = <<>>
  <2>1. payload[next] = headCommit
    BY <1>1, <1>2, <1>5 DEF NetInv, History
  <2>2. Leads(headCommit, trees[1], trees[1])
    BY DEF NetInv, History, Leads
  <2>3. Summarizes(trees[1])
    BY <1>1, <1>5 DEF NetInv
  <2>4. Summarizes(trees[1])'
    BY <1>1, <1>2, <2>1, <2>2, <2>3, VisitSummarizes DEF Summarizes
  <2>5. QED
    BY <1>1, <1>2, <1>3, <1>4, <1>5, <2>4 DEF NetInv
<1>6. CASE commits # <<>>
  <2>1. payload = commits
    BY <1>1, <1>6 DEF NetInv, History
  <2>2. Leads(payload[next], trees[next], trees[next + 1])
    BY <1>1, <2>1 DEF NetInv, History
  <2>3. Summarizes(trees[next])
    BY <1>1, <1>6 DEF NetInv
  <2>4. \A p \in AllPaths :
          /\ state'[p] = "unseen" => trees[next + 1][p] = trees[1][p]
          /\ state'[p] = "stateChanged" => trees[next + 1][p] # 0
          /\ state'[p] = "stateRemoved" => trees[next + 1][p] = 0
    BY <1>1, <1>2, <2>2, <2>3, VisitSummarizes
  <2>5. Summarizes(trees[next])'
    BY <1>1, <2>4 DEF Summarizes
  <2>6. QED
    BY <1>1, <1>2, <1>3, <1>4, <1>6, <2>5 DEF NetInv
<1>7. QED
  BY <1>5, <1>6

\* Every reachable state satisfies the invariant.
THEOREM NetInvariant == Spec => [](TypeOK /\ NetInv)
<1>1. Init => TypeOK /\ NetInv
  BY NetInit
<1>2. TypeOK /\ NetInv /\ [Next]_vars => TypeOK' /\ NetInv'
  <2> SUFFICES ASSUME TypeOK, NetInv, [Next]_vars PROVE TypeOK' /\ NetInv'
    OBVIOUS
  <2>1. CASE UNCHANGED vars
    BY <2>1 DEF vars, TypeOK, NetInv, History, Summarizes
  <2>2. QED
    BY <2>1, NetCommit, NetDeliver, NetVisit DEF Next
<1>3. QED
  BY <1>1, <1>2, PTL DEF Spec

\* netFileChanges and goFiles describe the push truthfully, whatever the commits
\* did to the files, in any number and order.
THEOREM NetOfPushHolds == Spec => []NetOfPush
<1>1. TypeOK /\ NetInv => NetOfPush
  <2> SUFFICES ASSUME TypeOK, NetInv, Done PROVE NetOfPush
    BY DEF NetOfPush
  <2>1. Summarizes(Tip)
    <3>1. CASE commits = <<>>
      <4>1. Tip = trees[1]
        BY <3>1 DEF NetInv, History, Tip, TypeOK
      <4>2. QED
        BY <3>1, <4>1 DEF NetInv, Done
    <3>2. CASE commits # <<>>
      <4>1. payload = commits /\ next \in 1..(Len(payload) + 1)
        BY <3>2 DEF NetInv, History, Done
      <4>2. next = Len(trees)
        BY <4>1 DEF NetInv, History, Done, TypeOK
      <4>3. QED
        BY <3>2, <4>2 DEF NetInv, Done, Tip
    <3>3. QED
      BY <3>1, <3>2
  <2>2. GoFiles \subseteq AllPaths
    BY NetAssumption
  <2>3. \A p \in AllPaths : state[p] \in Marks
    BY DEF TypeOK
  <2>4. QED
    BY <2>1, <2>2, <2>3 DEF NetOfPush, Summarizes, Changed, Removed, Marks
<1>2. QED
  BY <1>1, NetInvariant, PTL
=============================================================================
