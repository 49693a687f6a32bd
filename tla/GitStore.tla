------------------------------ MODULE GitStore ------------------------------
(***************************************************************************)
(* The Git repository on disk, as Couchview's server uses it: the working  *)
(* tree, the index and its lock file, HEAD and one local branch, and the   *)
(* stash.  Git itself is not part of the source: each command below is     *)
(* what src/src/server relies on it to do, one atomic change made only     *)
(* while no index.lock exists (a command that finds the lock fails, see    *)
(* Locked).  Paths are independent of one another: renames and             *)
(* file/directory conflicts are not represented.                           *)
(***************************************************************************)
EXTENDS Integers, Sequences, FiniteSets

CONSTANTS
  Files,        \* the paths of the repository
  Requests,     \* the mutation requests clients may send
  None,         \* no lock holder, no value
  External,     \* another Git client that takes the index lock as Git does
  MaxContent,   \* bound: contents are 0..MaxContent, 0 is "no such file"
  MaxCommits,   \* bound: commits are 0..MaxCommits, 0 is the unborn HEAD
  MaxStash      \* bound: stash entries kept at a time

ASSUME StoreAssumption ==
  /\ IsFiniteSet(Files)
  /\ MaxContent \in Nat \ {0} /\ MaxCommits \in Nat \ {0} /\ MaxStash \in Nat
  /\ None \notin Requests /\ External \notin Requests /\ None # External

Absent    == 0
Unborn    == 0
Contents  == 0..MaxContent
CommitIds == 0..MaxCommits
Tree      == [Files -> Contents]

\* An index holds an entry per path and the paths left unmerged.
Index      == [entries : Tree, unmerged : SUBSET Files]
StashEntry == [base : CommitIds, index : Index, work : Tree]

VARIABLES
  worktree,     \* the working tree
  index,        \* the index file
  lock,         \* who created index.lock, None when it does not exist
  tree,         \* the tree each commit records
  parent,       \* the first parent of each commit
  commits,      \* the commits made so far
  head,         \* the commit HEAD names
  detached,     \* HEAD names a commit and not the branch
  tip,          \* the commit the branch names
  fromBranch,   \* @{-1} is a branch: the last checkout left the branch
  stash         \* the stash, newest first

historyVars == <<tree, parent, commits, head, detached, tip, fromBranch>>
storeVars   == <<worktree, index, lock, historyVars, stash>>

StoreTypeOK ==
  /\ worktree \in Tree
  /\ index \in Index
  /\ lock \in Requests \cup {None, External}
  /\ tree \in [CommitIds -> Tree]
  /\ parent \in [CommitIds -> CommitIds]
  /\ commits \in CommitIds
  /\ head \in CommitIds
  /\ detached \in BOOLEAN
  /\ tip \in CommitIds
  /\ fromBranch \in BOOLEAN
  /\ stash \in Seq(StashEntry)

EmptyTree == [f \in Files |-> Absent]
Clean(t)  == [entries |-> t, unmerged |-> {}]

\* A branch whose last commit holds content 1 of every path, or an unborn branch over the same
\* working tree, whose paths are untracked or already staged; perhaps a stash made over the first commit.
StoreInit ==
  /\ worktree = [f \in Files |-> 1]
  /\ lock = None
  /\ commits \in CommitIds
  /\ head = commits /\ tip = commits
  /\ tree = [c \in CommitIds |-> IF c = commits /\ c # Unborn THEN worktree ELSE EmptyTree]
  /\ \E F \in SUBSET Files : index = Clean([f \in Files |-> IF f \in F THEN worktree[f]
                                                                   ELSE tree[head][f]])
  /\ parent = [c \in CommitIds |-> IF c \in 1..commits THEN c - 1 ELSE Unborn]
  /\ detached = FALSE /\ fromBranch = FALSE
  /\ \/ stash = <<>>
     \/ /\ commits # Unborn /\ MaxStash > 0
        /\ stash = <<[base |-> 1, index |-> Clean(tree[1]), work |-> [f \in Files |-> MaxContent]]>>

\* The paths `git status` lists.
Changed == {f \in Files : \/ index.entries[f] # tree[head][f]
                          \/ worktree[f] # index.entries[f]
                          \/ f \in index.unmerged}

Locked == lock # None

\* Moving HEAD moves the branch it is on.
MoveHead(c) == head' = c /\ tip' = IF detached THEN tip ELSE c

-----------------------------------------------------------------------------
(* Commands.  Each is guarded by what makes Git refuse it.                 *)

CanCommit == /\ ~Locked /\ index.unmerged = {} /\ index.entries # tree[head]
             /\ commits < MaxCommits
Commit ==
  /\ CanCommit
  /\ commits' = commits + 1
  /\ tree' = [tree EXCEPT ![commits + 1] = index.entries]
  /\ parent' = [parent EXCEPT ![commits + 1] = head]
  /\ MoveHead(commits + 1)
  /\ UNCHANGED <<worktree, index, lock, detached, fromBranch, stash>>

\* Switching commits rewrites only the paths whose trees differ, and Git
\* refuses when one of those carries local changes.
SwitchesCleanly(c) ==
  /\ ~Locked /\ index.unmerged = {}
  /\ \A f \in Files : tree[head][f] # tree[c][f] =>
       index.entries[f] = tree[head][f] /\ worktree[f] = index.entries[f]
SwitchTree(c) ==
  /\ worktree' = [f \in Files |-> IF tree[head][f] # tree[c][f] THEN tree[c][f] ELSE worktree[f]]
  /\ index' = Clean([f \in Files |-> IF tree[head][f] # tree[c][f] THEN tree[c][f]
                                                                 ELSE index.entries[f]])
CheckoutDetached(c) ==
  /\ SwitchesCleanly(c)
  /\ SwitchTree(c)
  /\ head' = c /\ detached' = TRUE /\ fromBranch' = ~detached
  /\ UNCHANGED <<lock, tree, parent, commits, tip, stash>>
CheckoutBranch ==
  /\ SwitchesCleanly(tip)
  /\ SwitchTree(tip)
  /\ head' = tip /\ detached' = FALSE /\ fromBranch' = ~detached
  /\ UNCHANGED <<lock, tree, parent, commits, tip, stash>>

StashPush ==
  /\ ~Locked /\ index.unmerged = {} /\ head # Unborn /\ Changed # {} /\ Len(stash) < MaxStash
  /\ stash' = <<[base |-> head, index |-> index, work |-> worktree]>> \o stash
  /\ worktree' = tree[head] /\ index' = Clean(tree[head])
  /\ UNCHANGED <<lock, historyVars>>

\* What `stash pop --index` would touch, and where it meets other changes.
StashTouched == LET s == Head(stash)
  IN {f \in Files : s.index.entries[f] # tree[s.base][f] \/ s.work[f] # tree[s.base][f]}
StashBlocked == {f \in StashTouched : \/ tree[head][f] # tree[Head(stash).base][f]
                                      \/ f \in Changed}
StashPop ==
  /\ ~Locked /\ stash # <<>> /\ StashBlocked = {} /\ index.unmerged = {}
  /\ index' = Clean([f \in Files |-> IF f \in StashTouched THEN Head(stash).index.entries[f]
                                                          ELSE index.entries[f]])
  /\ worktree' = [f \in Files |-> IF f \in StashTouched THEN Head(stash).work[f]
                                                        ELSE worktree[f]]
  /\ stash' = Tail(stash)
  /\ UNCHANGED <<lock, historyVars>>
\* A pop that meets other changes keeps the stash and may leave conflicts.
StashConflict ==
  /\ ~Locked /\ stash # <<>> /\ StashBlocked # {} /\ index.unmerged = {}
  /\ StashBlocked \cap Changed = {}
  /\ index' = [index EXCEPT !.unmerged = StashBlocked]
  /\ UNCHANGED <<worktree, lock, historyVars, stash>>

ResetMixedToParent ==
  /\ ~Locked /\ head # Unborn /\ parent[head] # Unborn
  /\ MoveHead(parent[head])
  /\ index' = Clean(tree[parent[head]])
  /\ UNCHANGED <<worktree, lock, tree, parent, commits, detached, fromBranch, stash>>

ResetHard ==
  /\ ~Locked
  /\ worktree' = [f \in Files |->
       IF index.entries[f] = Absent /\ tree[head][f] = Absent /\ f \notin index.unmerged
       THEN worktree[f] ELSE tree[head][f]]
  /\ index' = Clean(tree[head])
  /\ UNCHANGED <<lock, historyVars, stash>>

\* `git clean` reads the index and needs no lock.
CleanUntracked ==
  /\ worktree' = [f \in Files |-> IF index.entries[f] = Absent /\ f \notin index.unmerged
                                  THEN Absent ELSE worktree[f]]
  /\ UNCHANGED <<index, lock, historyVars, stash>>
=============================================================================
