--------------------- MODULE RepositoryMutationsProofs ---------------------
(***************************************************************************)
(* Theorems about RepositoryMutations, for any number of servers, requests *)
(* and files: type correctness, the discipline of the index lock, the      *)
(* serialisation of one server's mutations, what a published index may     *)
(* change and holds, which index a Git command runs on, and that no work   *)
(* is lost.                                                                *)
(***************************************************************************)
EXTENDS RepositoryMutations, SequenceTheorems, TLAPS

USE StoreAssumption, MutationAssumption

-----------------------------------------------------------------------------
(* Type correctness.                                                       *)

\* TypeOK without the repository's own variables.
ServerTypeOK ==
  /\ server \in [Requests -> Servers \cup {None}]
  /\ kind \in [Requests -> Kinds \cup {None}]
  /\ targets \in [Requests -> SUBSET Files]
  /\ goal \in [Requests -> CommitIds]
  /\ accepted \in [Requests -> Snapshot \cup {None}]
  /\ phase \in [Requests -> Phases]
  /\ snapshot \in [Requests -> Snapshot \cup {None}]
  /\ original \in [Requests -> Index \cup {None}]
  /\ temporary \in [Requests -> Index \cup {None}]
  /\ todo \in [Requests -> SUBSET Files]
  /\ reply \in [Requests -> Replies]
  /\ queue \in [Servers -> Seq(Requests)]
  /\ last \in [Servers -> Snapshot \cup {None}]
  /\ newest \in Contents /\ externals \in 0..MaxExternal /\ crashes \in 0..MaxCrashes
  /\ standIns \subseteq Requests

\* What a handler is past tells what it has: an accepted snapshot, a
\* server, a fresh snapshot, a prospective index.  TypeOK alone lets these
\* be None, so it is not inductive without them.
Live(r) == phase[r] \notin {"idle", "done", "lost"}
ProgressOf(r) ==
  /\ phase[r] = "idle" => server[r] = None
  /\ Live(r) => server[r] \in Servers /\ kind[r] \in Kinds /\ accepted[r] \in Snapshot
  /\ phase[r] \in {"readFiles", "check", "copy", "build", "verify", "reread", "publish"}
       => snapshot[r] \in Snapshot
  /\ phase[r] \in {"build", "verify", "reread", "publish"}
       => original[r] \in Index /\ temporary[r] \in Index
  /\ phase[r] \in {"lock", "copy", "build", "verify", "reread", "publish"} => kind[r] \in StageKinds
  /\ phase[r] \in {"git", "git clean"} => kind[r] \notin StageKinds
Progress == \A r \in Requests : ProgressOf(r)

\* A mutation past the coordinator is the one whose turn it is.
TurnHeld == \A r \in Requests : Active(r) => IsTurn(r)

Typed == StoreTypeOK /\ ServerTypeOK /\ Progress /\ TurnHeld

\* The empty index and the current snapshot are well formed.
LEMMA SnapshotType ==
  ASSUME StoreTypeOK
  PROVE  CurrentSnapshot \in Snapshot /\ \A t \in Tree : Clean(t) \in Index
BY DEF StoreTypeOK, CurrentSnapshot, Snapshot, Changed, Clean, Index, Tree, Contents, Absent

\* Every Git command leaves a well-formed repository.
LEMMA CommitType ==
  ASSUME StoreTypeOK, Commit
  PROVE  StoreTypeOK'
<1>1. commits + 1 \in CommitIds /\ index.entries \in Tree
  BY DEF Commit, CanCommit, StoreTypeOK, CommitIds, Index
<1>2. /\ worktree' \in Tree /\ index' \in Index /\ lock' \in Requests \cup {None, External}
      /\ detached' \in BOOLEAN /\ fromBranch' \in BOOLEAN /\ stash' \in Seq(StashEntry)
  BY DEF Commit, StoreTypeOK
<1>3. commits' \in CommitIds /\ head' \in CommitIds /\ tip' \in CommitIds
  BY <1>1 DEF Commit, StoreTypeOK, MoveHead
<1>4. tree' \in [CommitIds -> Tree]
  BY <1>1 DEF Commit, StoreTypeOK
<1>5. parent' \in [CommitIds -> CommitIds]
  BY <1>1 DEF Commit, StoreTypeOK
<1> QED
  BY <1>2, <1>3, <1>4, <1>5 DEF StoreTypeOK

\* What git switch leaves of the worktree and the index has their types.
LEMMA SwitchType ==
  ASSUME StoreTypeOK, NEW c \in CommitIds, SwitchTree(c)
  PROVE  worktree' \in Tree /\ index' \in Index
<1>1. worktree' \in Tree
  BY DEF SwitchTree, StoreTypeOK, Tree
<1>2. index.entries \in Tree
  BY DEF StoreTypeOK, Index
<1>3. [f \in Files |-> IF tree[head][f] # tree[c][f] THEN tree[c][f] ELSE index.entries[f]] \in Tree
  BY <1>2 DEF StoreTypeOK, Tree
<1> QED
  BY <1>1, <1>3, SnapshotType DEF SwitchTree

\* Checking out a commit or the branch keeps the types,
LEMMA CheckoutType ==
  ASSUME StoreTypeOK, \/ \E c \in CommitIds : CheckoutDetached(c)
                      \/ CheckoutBranch
  PROVE  StoreTypeOK'
<1>1. CASE \E c \in CommitIds : CheckoutDetached(c)
  BY <1>1, SwitchType DEF CheckoutDetached, StoreTypeOK
<1>2. CASE CheckoutBranch
  <2>1. tip \in CommitIds
    BY DEF StoreTypeOK
  <2> QED
    BY <1>2, <2>1, SwitchType DEF CheckoutBranch, StoreTypeOK
<1> QED
  BY <1>1, <1>2

\* stashing and popping a stash keep them,
LEMMA StashType ==
  ASSUME StoreTypeOK, StashPush \/ StashPop \/ StashConflict
  PROVE  StoreTypeOK'
<1>1. CASE StashPush
  <2>1. [base |-> head, index |-> index, work |-> worktree] \in StashEntry
    BY DEF StoreTypeOK, StashEntry
  <2>2. stash' \in Seq(StashEntry)
    BY <1>1, <2>1 DEF StashPush, StoreTypeOK
  <2>3. tree[head] \in Tree
    BY DEF StoreTypeOK
  <2> QED
    BY <1>1, <2>2, <2>3, SnapshotType DEF StashPush, StoreTypeOK, historyVars
<1>2. CASE StashPop
  <2>1. Head(stash) \in StashEntry /\ Tail(stash) \in Seq(StashEntry)
    BY <1>2 DEF StashPop, StoreTypeOK
  <2>2. Head(stash).index.entries \in Tree /\ Head(stash).work \in Tree /\ index.entries \in Tree
    BY <2>1 DEF StashEntry, Index, StoreTypeOK
  <2>3. [f \in Files |-> IF f \in StashTouched THEN Head(stash).index.entries[f]
                                              ELSE index.entries[f]] \in Tree
    BY <2>2 DEF Tree
  <2>4. worktree' \in Tree
    BY <1>2, <2>2 DEF StashPop, StoreTypeOK, Tree
  <2> QED
    BY <1>2, <2>1, <2>3, <2>4, SnapshotType DEF StashPop, StoreTypeOK, historyVars
<1>3. CASE StashConflict
  <2>1. StashBlocked \subseteq Files
    BY DEF StashBlocked, StashTouched
  <2>2. index' \in Index
    BY <1>3, <2>1 DEF StashConflict, StoreTypeOK, Index
  <2> QED
    BY <1>3, <2>2 DEF StashConflict, StoreTypeOK, historyVars
<1> QED
  BY <1>1, <1>2, <1>3

\* and so do resets and git clean.
LEMMA ResetType ==
  ASSUME StoreTypeOK, ResetMixedToParent \/ ResetHard \/ CleanUntracked
  PROVE  StoreTypeOK'
<1> USE SnapshotType
<1>1. CASE ResetMixedToParent
  <2>1. parent[head] \in CommitIds /\ tree[parent[head]] \in Tree
    BY DEF StoreTypeOK
  <2> QED
    BY <1>1, <2>1 DEF ResetMixedToParent, StoreTypeOK, MoveHead
<1>2. CASE ResetHard
  <2>1. tree[head] \in Tree
    BY DEF StoreTypeOK
  <2>2. worktree' \in Tree
    BY <1>2, <2>1 DEF ResetHard, StoreTypeOK, Tree
  <2> QED
    BY <1>2, <2>1, <2>2 DEF ResetHard, StoreTypeOK, historyVars
<1>3. CASE CleanUntracked
  <2>1. worktree' \in Tree
    BY <1>3 DEF CleanUntracked, StoreTypeOK, Tree, Contents, Absent
  <2> QED
    BY <1>3, <2>1 DEF CleanUntracked, StoreTypeOK, historyVars
<1> QED
  BY <1>1, <1>2, <1>3

-----------------------------------------------------------------------------
(* Typed is inductive: one lemma per group of steps.                       *)

\* A step that leaves the repository alone keeps its types.
LEMMA StoreUnchanged ==
  ASSUME StoreTypeOK, UNCHANGED storeVars
  PROVE  StoreTypeOK'
BY DEF StoreTypeOK, storeVars, historyVars

\* A handler past the coordinator moves to another of its steps and
\* touches nothing of the other requests.
LEMMA AdvanceType ==
  ASSUME Typed, NEW r \in Requests, IsTurn(r), StoreTypeOK',
         NEW p \in Phases \ {"idle", "called", "queued", "done", "lost"}, Goto(r, p),
         UNCHANGED <<callVars, accepted, queue, newest, externals, crashes>>,
         standIns' \subseteq Requests,
         snapshot' \in [Requests -> Snapshot \cup {None}],
         original' \in [Requests -> Index \cup {None}],
         temporary' \in [Requests -> Index \cup {None}],
         todo' \in [Requests -> SUBSET Files],
         reply' \in [Requests -> Replies],
         last' \in [Servers -> Snapshot \cup {None}],
         \A q \in Requests \ {r} : /\ snapshot'[q] = snapshot[q] /\ original'[q] = original[q]
                                   /\ temporary'[q] = temporary[q],
         ProgressOf(r)'
  PROVE  Typed'
<1>1. ServerTypeOK'
  BY DEF Typed, ServerTypeOK, Goto, callVars
<1>2. \A q \in Requests \ {r} : phase'[q] = phase[q]
  BY DEF Typed, ServerTypeOK, Goto
<1>3. ASSUME NEW q \in Requests \ {r} PROVE ProgressOf(q)'
  <2>1. ProgressOf(q)
    BY DEF Typed, Progress
  <2> QED
    BY <1>2, <2>1 DEF ProgressOf, Live, callVars
<1>4. Progress'
  BY <1>3 DEF Progress
<1>5. TurnHeld'
  <2>1. \A q \in Requests : IsTurn(q) <=> IsTurn(q)'
    BY DEF Typed, TurnHeld, IsTurn, callVars
  <2> QED
    BY <1>2, <2>1 DEF Typed, TurnHeld, Active
<1> QED
  BY <1>1, <1>4, <1>5 DEF Typed

\* The same when only the phase and the reply change.
LEMMA GotoType ==
  ASSUME Typed, NEW r \in Requests, IsTurn(r), StoreTypeOK',
         NEW p \in Phases \ {"idle", "called", "queued", "done", "lost"}, Goto(r, p),
         reply' \in [Requests -> Replies], ProgressOf(r)',
         UNCHANGED <<callVars, accepted, snapshot, original, temporary, queue, boundVars>>,
         last' \in [Servers -> Snapshot \cup {None}],
         todo' \in [Requests -> SUBSET Files]
  PROVE  Typed'
<1> SUFFICES /\ UNCHANGED <<callVars, accepted, queue, newest, externals, crashes>>
             /\ standIns' \subseteq Requests
             /\ snapshot' \in [Requests -> Snapshot \cup {None}]
             /\ original' \in [Requests -> Index \cup {None}]
             /\ temporary' \in [Requests -> Index \cup {None}]
  BY AdvanceType
<1> QED
  BY DEF Typed, ServerTypeOK, callVars, boundVars

\* Every answer leads to the finally block.
LEMMA AnswerType ==
  ASSUME Typed, NEW r \in Requests, Active(r), NEW w \in Replies, Answer(r, w),
         UNCHANGED <<storeVars, callVars, accepted, snapshot, original, temporary, todo, serverVars,
                     boundVars>>
  PROVE  Typed'
<1>1. Goto(r, "finally") /\ reply' \in [Requests -> Replies] /\ StoreTypeOK'
      /\ todo' \in [Requests -> SUBSET Files]
  BY StoreUnchanged DEF Answer, Typed, ServerTypeOK, storeVars
<1>2. Live(r) /\ ProgressOf(r) /\ IsTurn(r)
  BY DEF Typed, Progress, Active, Live, TurnHeld
<1>3. ProgressOf(r)'
  BY <1>1, <1>2 DEF ProgressOf, Live, Goto, callVars, Typed, ServerTypeOK
<1> QED
  BY <1>1, <1>2, <1>3, GotoType DEF Phases, Typed, ServerTypeOK, serverVars

\* A request that arrives keeps the types.
LEMMA ArriveType ==
  ASSUME Typed, NEW r \in Requests, Arrive(r)
  PROVE  Typed'
<1>1. /\ StoreTypeOK' /\ server[r] \in Servers /\ queue[server[r]] \in Seq(Requests)
      /\ phase' = [phase EXCEPT ![r] = "queued"]
  BY StoreUnchanged DEF Arrive, Typed, Progress, ProgressOf, Live, ServerTypeOK, Goto
<1>2. ServerTypeOK'
  <2>1. queue' \in [Servers -> Seq(Requests)]
    BY <1>1, AppendProperties DEF Arrive, Typed, ServerTypeOK
  <2>2. phase' \in [Requests -> Phases]
    BY <1>1 DEF Typed, ServerTypeOK, Phases
  <2> QED
    BY <2>1, <2>2 DEF Arrive, Typed, ServerTypeOK, callVars, boundVars
<1>3. Progress'
  BY DEF Arrive, Typed, ServerTypeOK, Progress, ProgressOf, Live, Goto, callVars
<1>4. ASSUME NEW q \in Requests, Active(q)' PROVE IsTurn(q)'
  <2>1. q # r /\ Active(q) /\ IsTurn(q) /\ server[q] \in Servers
    BY <1>1, <1>4 DEF Active, Typed, TurnHeld, ServerTypeOK, Progress, ProgressOf, Live
  <2>2. queue[server[q]] \in Seq(Requests)
    BY <2>1 DEF Typed, ServerTypeOK
  <2>3. CASE server[q] = server[r]
    <3>1. queue'[server[q]] = Append(queue[server[q]], r)
      BY <1>1, <2>3 DEF Arrive, Typed, ServerTypeOK
    <3>2. Append(queue[server[q]], r) # <<>>
          /\ Head(Append(queue[server[q]], r)) = Head(queue[server[q]])
      BY <2>1, <2>2 DEF IsTurn
    <3> QED
      BY <2>1, <3>1, <3>2 DEF IsTurn, Arrive, callVars
  <2>4. CASE server[q] # server[r]
    BY <1>1, <2>1, <2>4 DEF IsTurn, Arrive, callVars, Typed, ServerTypeOK
  <2> QED
    BY <2>3, <2>4
<1> QED
  BY <1>1, <1>2, <1>3, <1>4 DEF Typed, TurnHeld

\* Entering the coordinator keeps the types.
LEMMA EnterType ==
  ASSUME Typed, NEW r \in Requests, Enter(r)
  PROVE  Typed'
<1>1. IsTurn(r) /\ Live(r) /\ ProgressOf(r) /\ StoreTypeOK'
  BY StoreUnchanged DEF Enter, Live, Typed, Progress
<1>2. ProgressOf(r)'
  BY <1>1 DEF Enter, ProgressOf, Live, Goto, callVars, Typed, ServerTypeOK
<1> QED
  BY <1>1, <1>2, GotoType DEF Enter, Phases, Typed, ServerTypeOK, serverVars

\* Reading the status, the files or an incomplete status keeps the types.
LEMMA ReadType ==
  ASSUME Typed, NEW r \in Requests, ReadGit(r) \/ ReadFiles(r) \/ IncompleteStatus(r)
  PROVE  Typed'
<1>1. Active(r) /\ IsTurn(r) /\ Live(r) /\ ProgressOf(r) /\ StoreTypeOK'
  BY StoreUnchanged
     DEF ReadGit, ReadFiles, IncompleteStatus, Active, Live, Typed, Progress, TurnHeld
<1>2. ASSUME NEW snap \in Snapshot, NEW p \in {"readFiles", "check"}, Goto(r, p),
             snapshot' = [snapshot EXCEPT ![r] = snap], last' = last \/ Remember(server[r], snap),
             phase[r] \in {"readGit", "readFiles"},
             UNCHANGED <<callVars, accepted, original, temporary, todo, reply, queue, newest,
                         externals, crashes>>,
             standIns' \subseteq Requests
      PROVE  Typed'
  <2>1. /\ snapshot' \in [Requests -> Snapshot \cup {None}]
        /\ last' \in [Servers -> Snapshot \cup {None}]
        /\ original' \in [Requests -> Index \cup {None}]
        /\ temporary' \in [Requests -> Index \cup {None}]
        /\ todo' \in [Requests -> SUBSET Files] /\ reply' \in [Requests -> Replies]
    <3>1. last' \in [Servers -> Snapshot \cup {None}]
      BY <1>2 DEF Remember, Typed, ServerTypeOK
    <3> QED
      BY <1>2, <3>1 DEF Typed, ServerTypeOK
  <2>2. snapshot'[r] = snap /\ phase'[r] = p
        /\ \A q \in Requests \ {r} : snapshot'[q] = snapshot[q]
    BY <1>2 DEF Goto, Typed, ServerTypeOK
  <2>3. ProgressOf(r)'
    BY <1>1, <1>2, <2>2 DEF ProgressOf, Live, callVars
  <2> QED
    BY <1>1, <1>2, <2>1, <2>2, <2>3, AdvanceType DEF Phases
<1>3. CASE ReadGit(r)
  <2>1. [CurrentSnapshot EXCEPT !.work = index.entries] \in Snapshot
    BY SnapshotType DEF Typed, StoreTypeOK, Snapshot, Index
  <2> QED
    BY <1>2, <1>3, <2>1 DEF ReadGit, serverVars, boundVars, Typed, ServerTypeOK
<1>4. CASE ReadFiles(r)
  <2> DEFINE snap == [snapshot[r] EXCEPT !.work =
                       [f \in Files |-> IF f \in snapshot[r].listed THEN worktree[f] ELSE @[f]]]
  <2>1. snapshot[r] \in Snapshot /\ phase[r] = "readFiles"
    BY <1>1, <1>4 DEF ReadFiles, ProgressOf
  <2>2. snap \in Snapshot
    BY <2>1 DEF Typed, StoreTypeOK, Snapshot, Tree
  <2> QED
    BY <1>2, <1>4, <2>1, <2>2 DEF ReadFiles, boundVars, Typed, ServerTypeOK
<1>5. CASE IncompleteStatus(r)
  <2>1. CASE last[server[r]] = None
    BY <1>1, <1>5, <2>1, AnswerType DEF IncompleteStatus, Replies, storeVars, boundVars
  <2>2. CASE last[server[r]] # None
    <3>1. last[server[r]] \in Snapshot
      BY <1>1, <2>2 DEF Typed, ServerTypeOK, ProgressOf
    <3> QED
      BY <1>2, <1>5, <2>2, <3>1 DEF IncompleteStatus, serverVars, Typed, ServerTypeOK
  <2> QED
    BY <2>1, <2>2
<1> QED
  BY <1>3, <1>4, <1>5

\* Comparing what was read with what the client accepted keeps the types.
LEMMA CheckType ==
  ASSUME Typed, NEW r \in Requests, Check(r)
  PROVE  Typed'
<1>1. Active(r) /\ IsTurn(r) /\ Live(r) /\ ProgressOf(r) /\ phase[r] = "check"
  BY DEF Check, Active, Live, Typed, Progress, TurnHeld
<1>2. CASE Answer(r, "changed") \/ Answer(r, "refused")
  BY <1>1, <1>2, AnswerType DEF Check, Replies
<1>3. CASE Goto(r, IF kind[r] \in StageKinds THEN "copy" ELSE "git") /\ UNCHANGED reply
  <2>1. ProgressOf(r)'
    BY <1>1, <1>3 DEF Check, ProgressOf, Live, Goto, callVars, Typed, ServerTypeOK
  <2>2. StoreTypeOK' /\ todo' \in [Requests -> SUBSET Files] /\ reply' \in [Requests -> Replies]
    BY <1>3, StoreUnchanged DEF Check, Typed, ServerTypeOK
  <2> QED
  BY <1>1, <1>3, <2>1, <2>2, GotoType DEF Check, Phases, Typed, ServerTypeOK, serverVars
<1> QED
  BY <1>2, <1>3 DEF Check

\* Copying the index and building its entries keep the types.
LEMMA BuildType ==
  ASSUME Typed, NEW r \in Requests, CopyIndex(r) \/ \E f \in Files : BuildEntry(r, f)
  PROVE  Typed'
<1>1. /\ Active(r) /\ IsTurn(r) /\ Live(r) /\ ProgressOf(r) /\ StoreTypeOK'
      /\ kind[r] \in StageKinds
  BY StoreUnchanged
     DEF CopyIndex, BuildEntry, Active, Live, Typed, Progress, ProgressOf, TurnHeld
<1>2. ASSUME NEW new \in Index, NEW p \in {"build", "verify"}, Goto(r, p),
             temporary' = [temporary EXCEPT ![r] = new],
             NEW old \in Index, original' = [original EXCEPT ![r] = old],
             todo' \in [Requests -> SUBSET Files], phase[r] \in {"copy", "build"},
             UNCHANGED <<callVars, accepted, snapshot, reply, serverVars, boundVars>>
      PROVE  Typed'
  <2>1. /\ temporary' \in [Requests -> Index \cup {None}]
        /\ original' \in [Requests -> Index \cup {None}]
        /\ snapshot' \in [Requests -> Snapshot \cup {None}]
        /\ last' \in [Servers -> Snapshot \cup {None}] /\ reply' \in [Requests -> Replies]
    BY <1>2 DEF Typed, ServerTypeOK, serverVars
  <2>2. /\ temporary'[r] = new /\ original'[r] = old /\ phase'[r] = p
        /\ \A q \in Requests \ {r} : temporary'[q] = temporary[q] /\ original'[q] = original[q]
    BY <1>2 DEF Goto, Typed, ServerTypeOK
  <2>3. ProgressOf(r)'
    BY <1>1, <1>2, <2>2 DEF ProgressOf, Live, callVars
  <2> QED
    <3>1. UNCHANGED <<newest, externals, crashes>> /\ standIns' \subseteq Requests
      BY <1>2 DEF boundVars, Typed, ServerTypeOK
    <3> QED
      BY <1>1, <1>2, <2>1, <2>2, <2>3, <3>1, AdvanceType DEF Phases, serverVars
<1>3. CASE CopyIndex(r)
  <2>1. index \in Index
    BY DEF Typed, StoreTypeOK
  <2>2. todo' \in [Requests -> SUBSET Files]
    BY <1>3 DEF CopyIndex, Typed, ServerTypeOK
  <2> QED
    BY <1>2, <1>3, <2>1, <2>2 DEF CopyIndex
<1>4. CASE \E f \in Files : BuildEntry(r, f)
  <2> PICK f \in Files : BuildEntry(r, f)
    BY <1>4
  <2> DEFINE new == [entries  |-> [temporary[r].entries EXCEPT ![f] = NewEntry(r, f)],
                     unmerged |-> temporary[r].unmerged \ {f}]
  <2>1. phase[r] = "build" /\ temporary[r] \in Index /\ original[r] \in Index
        /\ snapshot[r] \in Snapshot
    BY <1>1 DEF BuildEntry, ProgressOf
  <2>2. NewEntry(r, f) \in Contents
    BY <2>1 DEF NewEntry, Typed, StoreTypeOK, Snapshot, Tree
  <2>3. new \in Index
    BY <2>1, <2>2 DEF Index, Tree
  <2>4. todo' \in [Requests -> SUBSET Files]
    <3>1. todo \in [Requests -> SUBSET Files] /\ targets[r] \subseteq Files
      BY DEF Typed, ServerTypeOK
    <3>2. todo' = [todo EXCEPT ![r] = targets[r]] \/ todo' = [todo EXCEPT ![r] = @ \ {f}]
      BY DEF BuildEntry
    <3> QED
      BY <3>1, <3>2
  <2>7. Goto(r, "verify") \/ Goto(r, "build")
    <3>1. CASE todo[r] = {f}
      BY <3>1 DEF BuildEntry
    <3>2. CASE todo[r] # {f}
      BY <2>1, <3>2 DEF BuildEntry, Goto, Typed, ServerTypeOK
    <3> QED
      BY <3>1, <3>2
  <2>5. temporary' = [temporary EXCEPT ![r] = new]
    BY DEF BuildEntry
  <2>6. original' = [original EXCEPT ![r] = original[r]]
    BY DEF BuildEntry, Typed, ServerTypeOK
  <2> HIDE DEF new
  <2> QED
    BY <1>2, <2>1, <2>3, <2>4, <2>5, <2>6, <2>7 DEF BuildEntry
<1> QED
  BY <1>3, <1>4

\* Verifying the contents and reading the index again keep the types.
LEMMA VerifyType ==
  ASSUME Typed, NEW r \in Requests, RereadIndex(r) \/ \E f \in Files : VerifyContent(r, f)
  PROVE  Typed'
<1>1. Active(r) /\ IsTurn(r) /\ Live(r) /\ ProgressOf(r)
  BY DEF RereadIndex, VerifyContent, Active, Live, Typed, Progress, TurnHeld
<1>2. ASSUME NEW p \in {"verify", "reread", "publish"}, Goto(r, p),
             phase[r] \in {"verify", "reread"}, todo' \in [Requests -> SUBSET Files],
             UNCHANGED <<storeVars, callVars, accepted, snapshot, original, temporary, reply,
                         serverVars, boundVars>>
      PROVE  Typed'
  <2>1. StoreTypeOK' /\ reply' \in [Requests -> Replies]
        /\ last' \in [Servers -> Snapshot \cup {None}]
    BY <1>2, StoreUnchanged DEF Typed, ServerTypeOK, serverVars
  <2>2. ProgressOf(r)'
    BY <1>1, <1>2 DEF ProgressOf, Live, Goto, callVars, Typed, ServerTypeOK
  <2> QED
    BY <1>1, <1>2, <2>1, <2>2, GotoType DEF Phases, serverVars
<1>3. CASE RereadIndex(r)
  <2>1. todo' \in [Requests -> SUBSET Files]
    BY <1>3 DEF RereadIndex, Typed, ServerTypeOK
  <2>2. CASE Goto(r, "publish") /\ UNCHANGED reply
    BY <1>2, <1>3, <2>1, <2>2 DEF RereadIndex
  <2>3. CASE Answer(r, "changed")
    BY <1>1, <1>3, <2>3, AnswerType DEF RereadIndex, Replies
  <2> QED
    BY <1>3, <2>2, <2>3 DEF RereadIndex
<1>4. CASE \E f \in Files : VerifyContent(r, f)
  <2> PICK f \in Files : VerifyContent(r, f)
    BY <1>4
  <2>1. CASE SameContent(r, f)
    <3>1. todo' \in [Requests -> SUBSET Files]
      BY <2>1 DEF VerifyContent, Typed, ServerTypeOK
    <3>2. Goto(r, "reread") \/ Goto(r, "verify")
      BY <2>1 DEF VerifyContent, Goto, Typed, ServerTypeOK
    <3> QED
      BY <1>2, <2>1, <3>1, <3>2 DEF VerifyContent
  <2>2. CASE ~SameContent(r, f)
    BY <1>1, <2>2, AnswerType DEF VerifyContent, Replies
  <2> QED
    BY <2>1, <2>2
<1> QED
  BY <1>3, <1>4

\* Taking index.lock and publishing keep the types.
LEMMA LockType ==
  ASSUME Typed, NEW r \in Requests, TakeLock(r) \/ Publish(r)
  PROVE  Typed'
<1>1. Active(r) /\ IsTurn(r) /\ Live(r) /\ ProgressOf(r)
  BY DEF TakeLock, Publish, Active, Live, Typed, Progress, TurnHeld
<1>2. CASE TakeLock(r) /\ ~LockCreated
  BY <1>1, <1>2, AnswerType DEF TakeLock, Replies, storeVars
<1>3. CASE (TakeLock(r) /\ LockCreated) \/ Publish(r)
  <2>1. /\ Goto(r, "readGit") \/ Goto(r, "after")
        /\ phase[r] \in {"lock", "publish"}
        /\ UNCHANGED <<callVars, accepted, snapshot, original, temporary, todo, reply, serverVars,
                       boundVars>>
    BY <1>3 DEF TakeLock, Publish
  <2>2. ProgressOf(r)'
    BY <1>1, <2>1 DEF ProgressOf, Live, Goto, callVars, Typed, ServerTypeOK
  <2>3. index' \in Index /\ lock' \in Requests \cup {None, External}
    BY <1>1, <1>3 DEF TakeLock, Publish, ProgressOf, Typed, StoreTypeOK
  <2>4. StoreTypeOK'
    BY <1>3, <2>3 DEF TakeLock, Publish, Typed, StoreTypeOK, historyVars
  <2>5. /\ reply' \in [Requests -> Replies] /\ todo' \in [Requests -> SUBSET Files]
        /\ last' \in [Servers -> Snapshot \cup {None}]
    BY <2>1 DEF Typed, ServerTypeOK, serverVars
  <2> QED
    BY <1>1, <2>1, <2>2, <2>4, <2>5, GotoType DEF Phases, serverVars
<1> QED
  BY <1>2, <1>3

\* Running git keeps the types.
LEMMA GitType ==
  ASSUME Typed, NEW r \in Requests, RunGit(r) \/ RunGitClean(r)
  PROVE  Typed'
<1>1. Active(r) /\ IsTurn(r) /\ Live(r) /\ ProgressOf(r) /\ kind[r] \notin StageKinds
  BY DEF RunGit, RunGitClean, Active, Live, Typed, Progress, ProgressOf, TurnHeld
<1>2. goal[r] \in CommitIds
  BY DEF Typed, ServerTypeOK
<1>3. StoreTypeOK'
  BY <1>2, CommitType, CheckoutType, StashType, ResetType
     DEF RunGit, RunGitClean, Checkout, Typed
<1>4. /\ Goto(r, "git clean") \/ Goto(r, "after")
      /\ UNCHANGED <<callVars, accepted, snapshot, original, temporary, todo, reply, serverVars,
                     boundVars>>
  BY DEF RunGit, RunGitClean
<1>5. ProgressOf(r)'
  BY <1>1, <1>4 DEF ProgressOf, Live, Goto, callVars, Typed, ServerTypeOK
<1>6. /\ reply' \in [Requests -> Replies] /\ todo' \in [Requests -> SUBSET Files]
      /\ last' \in [Servers -> Snapshot \cup {None}]
  BY <1>4 DEF Typed, ServerTypeOK, serverVars
<1> QED
  BY <1>1, <1>3, <1>4, <1>5, <1>6, GotoType DEF Phases, serverVars

\* Git that refuses, a step that throws and the reads afterwards keep the types.
LEMMA FailType ==
  ASSUME Typed, NEW r \in Requests, GitRefuses(r) \/ Throws(r) \/ After(r)
  PROVE  Typed'
<1>1. Active(r) /\ IsTurn(r) /\ Live(r) /\ ProgressOf(r)
  BY DEF GitRefuses, Throws, After, Active, Live, Typed, Progress, TurnHeld
<1>2. CASE Throws(r)
  BY <1>1, <1>2, AnswerType DEF Throws, Replies
<1>3. CASE GitRefuses(r) \/ After(r)
  <2>1. CurrentSnapshot \in Snapshot
    BY SnapshotType DEF Typed
  <2>2. last' \in [Servers -> Snapshot \cup {None}]
    BY <1>3, <2>1 DEF GitRefuses, After, Remember, Typed, ServerTypeOK
  <2>3. Goto(r, "finally") /\ reply' \in [Requests -> Replies] /\ StoreTypeOK'
        /\ todo' \in [Requests -> SUBSET Files]
    BY <1>3, StoreUnchanged DEF GitRefuses, After, Answer, Typed, ServerTypeOK, Replies
  <2>4. ProgressOf(r)'
    BY <1>1, <1>3, <2>3 DEF GitRefuses, After, ProgressOf, Live, Goto, callVars, Typed, ServerTypeOK
  <2> QED
    BY <1>1, <1>3, <2>2, <2>3, <2>4, GotoType DEF GitRefuses, After, Phases
<1> QED
  BY <1>2, <1>3

\* Leaving the coordinator keeps the types.
LEMMA FinallyType ==
  ASSUME Typed, NEW r \in Requests, Finally(r)
  PROVE  Typed'
<1>1. /\ Active(r) /\ IsTurn(r) /\ Live(r) /\ server[r] \in Servers
      /\ queue[server[r]] \in Seq(Requests) /\ queue[server[r]] # <<>>
      /\ phase' = [phase EXCEPT ![r] = "done"]
  BY DEF Finally, Goto, Active, Live, Typed, Progress, ProgressOf, TurnHeld, IsTurn, ServerTypeOK
<1>2. StoreTypeOK'
  BY DEF Finally, LockGivenBack, Typed, StoreTypeOK, historyVars
<1>3. queue' \in [Servers -> Seq(Requests)]
  BY <1>1 DEF Finally, TurnReleased, Typed, ServerTypeOK
<1>4. ServerTypeOK'
  BY <1>1, <1>3 DEF Finally, Typed, ServerTypeOK, Phases, callVars
<1>5. Progress'
  BY <1>1 DEF Finally, Typed, ServerTypeOK, Progress, ProgressOf, Live, callVars
<1>6. ASSUME NEW q \in Requests, Active(q)' PROVE IsTurn(q)'
  <2>1. q # r /\ Active(q) /\ IsTurn(q)
    BY <1>1, <1>6 DEF Active, Typed, TurnHeld, ServerTypeOK
  <2>2. server[q] # server[r]
    BY <1>1, <2>1 DEF IsTurn
  <2> QED
    BY <1>1, <2>1, <2>2 DEF IsTurn, Finally, TurnReleased, callVars, Typed, ServerTypeOK
<1> QED
  BY <1>2, <1>4, <1>5, <1>6 DEF Typed, TurnHeld

\* The other actors disturb no handler; a crash forgets those of its server.
LEMMA EnvironmentType ==
  ASSUME Typed, Environment
  PROVE  Typed'
<1>1. ASSUME StoreTypeOK', last' \in [Servers -> Snapshot \cup {None}],
             newest' \in Contents, externals' \in 0..MaxExternal,
             UNCHANGED <<callVars, handlerVars, queue, crashes, standIns>>
      PROVE  Typed'
  <2>1. ServerTypeOK' /\ TurnHeld'
    BY <1>1 DEF Typed, ServerTypeOK, TurnHeld, Active, IsTurn, callVars, handlerVars
  <2>2. Progress'
    BY <1>1 DEF Typed, Progress, ProgressOf, Live, callVars, handlerVars
  <2> QED
    BY <1>1, <2>1, <2>2 DEF Typed
<1>2. /\ index \in Index /\ index.entries \in Tree /\ worktree \in Tree
      /\ last \in [Servers -> Snapshot \cup {None}]
      /\ newest \in Contents /\ externals \in 0..MaxExternal
  BY DEF Typed, StoreTypeOK, ServerTypeOK, Index
<1>3. ASSUME NEW r \in Requests, Call(r) PROVE Typed'
  <2>1. /\ server' \in [Requests -> Servers \cup {None}] /\ kind' \in [Requests -> Kinds \cup {None}]
        /\ targets' \in [Requests -> SUBSET Files] /\ goal' \in [Requests -> CommitIds]
        /\ server'[r] \in Servers /\ kind'[r] \in Kinds
        /\ \A q \in Requests \ {r} : server'[q] = server[q] /\ kind'[q] = kind[q]
    <3> PICK s \in Servers, k \in Kinds, T \in SUBSET Changed, c \in CommitIds :
             /\ server' = [server EXCEPT ![r] = s]
             /\ kind' = [kind EXCEPT ![r] = k]
             /\ targets' = [targets EXCEPT ![r] = T]
             /\ goal' = [goal EXCEPT ![r] = c]
      BY <1>3 DEF Call
    <3>1. T \in SUBSET Files
      BY DEF Changed
    <3> QED
      BY <3>1 DEF Typed, ServerTypeOK
  <2>2. /\ accepted' \in [Requests -> Snapshot \cup {None}] /\ accepted'[r] \in Snapshot
        /\ \A q \in Requests \ {r} : accepted'[q] = accepted[q]
    BY <1>3, SnapshotType DEF Call, Typed, ServerTypeOK
  <2>3. /\ phase' = [phase EXCEPT ![r] = "called"] /\ phase' \in [Requests -> Phases]
        /\ phase[r] = "idle"
    BY <1>3 DEF Call, Goto, Typed, ServerTypeOK, Phases
  <2>4. ServerTypeOK' /\ StoreTypeOK'
    BY <1>3, <2>1, <2>2, <2>3, StoreUnchanged DEF Call, Typed, ServerTypeOK, serverVars, boundVars
  <2>5. ProgressOf(r)'
    BY <2>1, <2>2, <2>3 DEF ProgressOf, Live, Typed, ServerTypeOK
  <2>6. ASSUME NEW q \in Requests \ {r} PROVE ProgressOf(q)' /\ (Active(q)' => IsTurn(q)')
    <3>1. ProgressOf(q) /\ (Active(q) => IsTurn(q)) /\ phase'[q] = phase[q]
      BY <2>3 DEF Typed, Progress, TurnHeld, ServerTypeOK
    <3>2. ProgressOf(q)'
      BY <1>3, <2>1, <2>2, <3>1 DEF Call, ProgressOf, Live
    <3> QED
      BY <1>3, <2>1, <3>1, <3>2 DEF Call, Active, IsTurn, serverVars
  <2>7. ~Active(r)'
    BY <2>3 DEF Active, Typed, ServerTypeOK
  <2> QED
    BY <2>4, <2>5, <2>6, <2>7 DEF Typed, Progress, TurnHeld
<1>4. ASSUME NEW s \in Servers, BackgroundSnapshot(s) PROVE Typed'
  <2>1. last' \in [Servers -> Snapshot \cup {None}]
    BY <1>2, <1>4, SnapshotType DEF BackgroundSnapshot, Remember, Typed
  <2> QED
    BY <1>1, <1>2, <1>4, <2>1, StoreUnchanged DEF BackgroundSnapshot, Typed, boundVars
<1>5. ASSUME NEW s \in Servers, Crash(s) PROVE Typed'
  <2>1. StoreTypeOK'
    BY <1>5, StoreUnchanged DEF Crash, Typed
  <2>2. /\ accepted' \in [Requests -> Snapshot \cup {None}]
        /\ snapshot' \in [Requests -> Snapshot \cup {None}]
        /\ original' \in [Requests -> Index \cup {None}]
        /\ temporary' \in [Requests -> Index \cup {None}]
    BY <1>5 DEF Crash, Typed, ServerTypeOK
  <2>3. /\ phase' \in [Requests -> Phases] /\ todo' \in [Requests -> SUBSET Files]
        /\ queue' \in [Servers -> Seq(Requests)] /\ last' \in [Servers -> Snapshot \cup {None}]
    <3>1. phase' \in [Requests -> Phases]
      BY <1>5 DEF Crash, Typed, ServerTypeOK, Phases
    <3>2. todo' \in [Requests -> SUBSET Files]
      BY <1>5 DEF Crash, Typed, ServerTypeOK
    <3>3. <<>> \in Seq(Requests)
      OBVIOUS
    <3>4. queue' \in [Servers -> Seq(Requests)] /\ last' \in [Servers -> Snapshot \cup {None}]
      BY <1>5, <3>3 DEF Crash, Typed, ServerTypeOK
    <3> QED
      BY <3>1, <3>2, <3>4
  <2>4. crashes' \in 0..MaxCrashes /\ standIns' \subseteq Requests
    BY <1>5 DEF Crash, Typed, ServerTypeOK
  <2>5. ServerTypeOK'
    BY <1>5, <2>2, <2>3, <2>4 DEF Crash, Typed, ServerTypeOK, callVars
  <2>6. ASSUME NEW q \in Requests PROVE ProgressOf(q)' /\ (Active(q)' => IsTurn(q)')
    <3>1. CASE q \in Lost(s)
      BY <1>5, <3>1 DEF Crash, ProgressOf, Live, Active
    <3>2. CASE q \notin Lost(s)
      <4>1. /\ phase'[q] = phase[q] /\ accepted'[q] = accepted[q] /\ snapshot'[q] = snapshot[q]
            /\ original'[q] = original[q] /\ temporary'[q] = temporary[q]
            /\ server'[q] = server[q] /\ kind'[q] = kind[q]
            /\ ProgressOf(q) /\ (Active(q) => IsTurn(q))
        BY <1>5, <3>2 DEF Crash, callVars, Typed, Progress, TurnHeld
      <4>2. ProgressOf(q)'
        BY <4>1 DEF ProgressOf, Live
      <4>3. ASSUME Active(q)' PROVE IsTurn(q)'
        <5>1. Active(q) /\ IsTurn(q) /\ server[q] # s
          BY <3>2, <4>1, <4>3 DEF Active, Lost
        <5>2. server[q] \in Servers
          BY <4>1, <5>1 DEF Active, ProgressOf, Live
        <5>3. queue'[server[q]] = queue[server[q]]
          BY <1>5, <5>1, <5>2 DEF Crash, Typed, ServerTypeOK
        <5> QED
          BY <4>1, <5>1, <5>3 DEF IsTurn
      <4> QED
        BY <4>2, <4>3
    <3> QED
      BY <3>1, <3>2
  <2> QED
    BY <2>1, <2>5, <2>6 DEF Typed, Progress, TurnHeld
<1>6. ASSUME NEW f \in Files, Edit(f) PROVE Typed'
  <2>1. worktree' \in Tree /\ newest' \in Contents
    BY <1>2, <1>6 DEF Edit, Tree
  <2> QED
    BY <1>1, <1>2, <1>6, <2>1 DEF Edit, Typed, StoreTypeOK, historyVars, serverVars
<1>7. CASE ExternalLock
  BY <1>1, <1>2, <1>7 DEF ExternalLock, Typed, StoreTypeOK, historyVars, serverVars
<1>8. CASE ExternalWrite
  <2>1. index' \in Index
    BY <1>2, <1>8 DEF ExternalWrite, Index, Tree
  <2> QED
    BY <1>1, <1>2, <1>8, <2>1 DEF ExternalWrite, Typed, StoreTypeOK, historyVars, serverVars, boundVars
<1>9. CASE ExternalCommit
  BY <1>1, <1>2, <1>9, CommitType DEF ExternalCommit, Typed, serverVars
<1>10. CASE RemoveStaleLock
  BY <1>1, <1>2, <1>10 DEF RemoveStaleLock, Typed, StoreTypeOK, historyVars, serverVars, boundVars
<1> QED
  BY <1>3, <1>4, <1>5, <1>6, <1>7, <1>8, <1>9, <1>10 DEF Environment

\* So does every step of a handler.
LEMMA HandleType ==
  ASSUME Typed, NEW r \in Requests, Handle(r)
  PROVE  Typed'
BY ArriveType, EnterType, ReadType, CheckType, BuildType, VerifyType, LockType, GitType, FailType,
   FinallyType DEF Handle

\* The types hold at first,
LEMMA InitType == Init => Typed
<1> SUFFICES ASSUME Init PROVE Typed
  OBVIOUS
<1>1. worktree \in Tree /\ EmptyTree \in Tree /\ 0 \in CommitIds /\ 1 \in CommitIds
  BY DEF Init, StoreInit, Tree, Contents, EmptyTree, Absent, CommitIds
<1>2. commits \in CommitIds /\ head \in CommitIds /\ tip \in CommitIds
  BY <1>1 DEF Init, StoreInit
<1>3. tree \in [CommitIds -> Tree] /\ parent \in [CommitIds -> CommitIds]
  <2>1. tree \in [CommitIds -> Tree]
    BY <1>1 DEF Init, StoreInit, Unborn
  <2>2. commits \in 0..MaxCommits /\ MaxCommits \in Nat
    BY StoreAssumption DEF Init, StoreInit, CommitIds
  <2>3. \A c \in CommitIds : (IF c \in 1..commits THEN c - 1 ELSE Unborn) \in CommitIds
    BY <2>2 DEF CommitIds, Unborn
  <2>4. parent = [c \in CommitIds |-> IF c \in 1..commits THEN c - 1 ELSE Unborn]
    BY DEF Init, StoreInit
  <2> QED
    BY <2>1, <2>3, <2>4
<1>4. index \in Index
  <2>1. PICK F \in SUBSET Files : index = Clean([f \in Files |-> IF f \in F THEN worktree[f]
                                                                     ELSE tree[head][f]])
    BY DEF Init, StoreInit
  <2>2. [f \in Files |-> IF f \in F THEN worktree[f] ELSE tree[head][f]] \in Tree
    BY <1>1, <1>2, <1>3 DEF Tree
  <2> QED
    BY <2>1, <2>2 DEF Clean, Index
<1>5. stash \in Seq(StashEntry)
  <2> DEFINE over == [base |-> 1, index |-> Clean(tree[1]), work |-> [f \in Files |-> MaxContent]]
  <2>1. stash = <<>> \/ stash = <<over>>
    BY DEF Init, StoreInit
  <2>2. MaxContent \in Contents
    BY StoreAssumption DEF Contents
  <2>3. over \in StashEntry
    BY <1>1, <1>3, <2>2 DEF StashEntry, Clean, Index, Tree
  <2> HIDE DEF over
  <2>4. \A e \in StashEntry : <<e>> \in Seq(StashEntry)
    OBVIOUS
  <2>5. <<over>> \in Seq(StashEntry) /\ <<>> \in Seq(StashEntry)
    BY <2>3, <2>4
  <2> QED
    BY <2>1, <2>5
<1>6. StoreTypeOK
  BY <1>1, <1>2, <1>3, <1>4, <1>5 DEF Init, StoreInit, StoreTypeOK
<1>7. queue \in [Servers -> Seq(Requests)]
  BY DEF Init
<1>8. newest \in Contents /\ externals \in 0..MaxExternal /\ crashes \in 0..MaxCrashes
      /\ standIns \subseteq Requests
  BY DEF Init, Contents
<1>9. ServerTypeOK
  BY <1>1, <1>7, <1>8 DEF Init, ServerTypeOK, Unborn, Phases, Replies
<1>10. Progress /\ TurnHeld
  BY DEF Init, Progress, ProgressOf, Live, TurnHeld, Active
<1> QED
  BY <1>6, <1>9, <1>10 DEF Typed

\* and throughout.
LEMMA TypedInvariant == Spec => []Typed
<1>1. Typed /\ [Next]_vars => Typed'
  <2> SUFFICES ASSUME Typed, [Next]_vars PROVE Typed'
    OBVIOUS
  <2>1. CASE Next
    BY <2>1, EnvironmentType, HandleType DEF Next
  <2>2. CASE UNCHANGED vars
    <3>1. StoreTypeOK'
      BY <2>2, StoreUnchanged DEF vars, Typed
    <3>2. ServerTypeOK'
      BY <2>2 DEF vars, callVars, handlerVars, serverVars, boundVars, Typed, ServerTypeOK
    <3>3. Progress' /\ TurnHeld'
      BY <2>2 DEF vars, callVars, handlerVars, serverVars, boundVars, Typed, Progress, ProgressOf,
                  Live, TurnHeld, Active, IsTurn
    <3> QED
      BY <3>1, <3>2, <3>3 DEF Typed
  <2> QED
    BY <2>1, <2>2
<1> QED
  BY <1>1, InitType, PTL DEF Spec

\* The state of the repository, of the requests and of the coordinators keeps its type in every
\* reachable state.
THEOREM TypeCorrect == Spec => []TypeOK
<1>1. Typed => TypeOK
  BY DEF Typed, TypeOK, ServerTypeOK
<1> QED
  BY <1>1, TypedInvariant, PTL

\* RepositoryMutationCoordinator.run: of one server's mutations at most one is past the chain of
\* promises, however many requests arrive, fail or are lost in a crash.
THEOREM MutationsSerial == Spec => []SerialPerServer
<1>1. Typed => SerialPerServer
  BY DEF Typed, TurnHeld, IsTurn, SerialPerServer
<1> QED
  BY <1>1, TypedInvariant, PTL

-----------------------------------------------------------------------------
(* The index lock.                                                         *)

LockDiscipline == StagingHoldsLock /\ LockReturned

\* A step of r that leaves the lock alone, takes r into the locked part
\* from nowhere and does not let its holder leave.
LEMMA LockStep ==
  ASSUME Typed, LockDiscipline, NEW r \in Requests, NEW p \in Phases, Goto(r, p),
         UNCHANGED <<lock, kind>>,
         kind[r] \in StageKinds /\ p \in Underway => phase[r] \in Underway,
         kind[r] \in StageKinds /\ phase[r] \in Underway \cup {"finally", "lost"}
           => p \in Underway \cup {"finally", "lost"}
  PROVE  LockDiscipline'
<1>1. phase'[r] = p /\ \A q \in Requests \ {r} : phase'[q] = phase[q]
  BY DEF Typed, ServerTypeOK, Goto
<1>2. StagingHoldsLock'
  BY <1>1 DEF LockDiscipline, StagingHoldsLock, Holds
<1>3. LockReturned'
  BY <1>1 DEF LockDiscipline, LockReturned
<1> QED
  BY <1>2, <1>3 DEF LockDiscipline

\* Git's own commands wait for no lock and leave none.
LEMMA GitKeepsLock ==
  ASSUME NEW r \in Requests, RunGit(r) \/ RunGitClean(r)
  PROVE  UNCHANGED lock
BY DEF RunGit, RunGitClean, Commit, CheckoutDetached, CheckoutBranch, StashPush, StashPop,
       StashConflict, Checkout, ResetMixedToParent, ResetHard, CleanUntracked

\* Every step of a handler keeps the discipline of index.lock,
LEMMA HandleLock ==
  ASSUME Typed, LockDiscipline, NEW r \in Requests, Handle(r)
  PROVE  LockDiscipline'
<1>1. CASE Arrive(r) \/ Enter(r)
  BY <1>1, LockStep DEF Arrive, Enter, Phases, Underway, storeVars, callVars
<1>2. CASE ReadGit(r) \/ ReadFiles(r) \/ IncompleteStatus(r) \/ Check(r) \/ CopyIndex(r)
  <2>1. PICK p \in {"readFiles", "check", "copy", "git", "build", "finally"} : Goto(r, p)
    BY <1>2 DEF ReadGit, ReadFiles, IncompleteStatus, Check, CopyIndex, Answer
  <2>2. kind[r] \in StageKinds => p # "git"
    BY <1>2, <2>1 DEF ReadGit, ReadFiles, IncompleteStatus, Check, CopyIndex, Answer, Goto, Typed,
                      ServerTypeOK
  <2>3. phase[r] \in Underway /\ UNCHANGED <<lock, kind>>
    BY <1>2 DEF ReadGit, ReadFiles, IncompleteStatus, Check, CopyIndex, Underway, storeVars, callVars
  <2> QED
    BY <2>1, <2>2, <2>3, LockStep DEF Phases, Underway
<1>3. CASE (\E f \in Files : BuildEntry(r, f) \/ VerifyContent(r, f)) \/ RereadIndex(r)
  <2>1. phase[r] \in {"build", "verify", "reread"} /\ UNCHANGED <<lock, kind>>
    BY <1>3 DEF BuildEntry, VerifyContent, RereadIndex, storeVars, callVars
  <2>2. PICK p \in {"build", "verify", "reread", "publish", "finally"} : Goto(r, p)
    BY <1>3, <2>1 DEF BuildEntry, VerifyContent, RereadIndex, Answer, Goto, Typed, ServerTypeOK
  <2> QED
    BY <2>1, <2>2, LockStep DEF Phases, Underway
<1>4. CASE RunGit(r) \/ RunGitClean(r) \/ GitRefuses(r)
  <2>1. kind[r] \notin StageKinds
    BY <1>4 DEF RunGit, RunGitClean, GitRefuses, Typed, Progress, ProgressOf
  <2>2. UNCHANGED <<lock, kind>>
    BY <1>4, GitKeepsLock DEF GitRefuses, RunGit, RunGitClean, storeVars, callVars
  <2>3. Goto(r, "git clean") \/ Goto(r, "after") \/ Goto(r, "finally")
    BY <1>4 DEF RunGit, RunGitClean, GitRefuses, Answer
  <2> QED
    BY <2>1, <2>2, <2>3, LockStep DEF Phases
<1>5. CASE After(r) \/ Throws(r)
  BY <1>5, LockStep DEF After, Throws, Answer, Phases, Underway, storeVars, callVars
<1>6. CASE TakeLock(r)
  <2>1. CASE LockCreated
    BY <1>6, <2>1 DEF TakeLock, LockCreated, Goto, Typed, ServerTypeOK, Progress, ProgressOf,
                      LockDiscipline, StagingHoldsLock, LockReturned, Holds, Underway, callVars
  <2>2. CASE ~LockCreated
    BY <1>6, <2>2, LockStep DEF TakeLock, Answer, Phases, Underway, callVars
  <2> QED
    BY <2>1, <2>2
<1>7. CASE Publish(r)
  BY <1>7 DEF Publish, Goto, Typed, ServerTypeOK, Progress, ProgressOf,
              LockDiscipline, StagingHoldsLock, LockReturned, Holds, Underway, callVars
<1>8. CASE Finally(r)
  BY <1>8 DEF Finally, LockGivenBack, Goto, Typed, ServerTypeOK,
              LockDiscipline, StagingHoldsLock, LockReturned, Holds, Underway, callVars
<1> QED
  BY <1>1, <1>2, <1>3, <1>4, <1>5, <1>6, <1>7, <1>8 DEF Handle

\* and so does every step around the handlers;
LEMMA EnvironmentLock ==
  ASSUME Typed, LockDiscipline, Environment
  PROVE  LockDiscipline'
<1> USE DEF LockDiscipline, StagingHoldsLock, LockReturned, Holds
<1>1. ASSUME NEW r \in Requests, Call(r) PROVE LockDiscipline'
  <2>1. /\ phase' = [phase EXCEPT ![r] = "called"] /\ phase[r] = "idle" /\ UNCHANGED lock
        /\ \E k \in Kinds : kind' = [kind EXCEPT ![r] = k]
    BY <1>1 DEF Call, Goto, storeVars
  <2> QED
    BY <2>1 DEF Typed, ServerTypeOK, Underway
<1>2. ASSUME NEW s \in Servers, Crash(s) PROVE LockDiscipline'
  <2>1. /\ \A r \in Requests : phase'[r] = IF r \in Lost(s) THEN "lost" ELSE phase[r]
        /\ UNCHANGED <<lock, kind>>
    BY <1>2 DEF Crash, storeVars, callVars
  <2> QED
    BY <2>1 DEF Underway
<1>3. CASE \/ \E s \in Servers : BackgroundSnapshot(s)
           \/ \E f \in Files : Edit(f)
           \/ ExternalCommit
  BY <1>3 DEF BackgroundSnapshot, Edit, ExternalCommit, Commit, storeVars, callVars, handlerVars
<1>4. CASE ExternalLock \/ ExternalWrite \/ RemoveStaleLock
  BY <1>4 DEF ExternalLock, ExternalWrite, RemoveStaleLock, Locked, callVars, handlerVars, Underway
<1> QED
  BY <1>1, <1>2, <1>3, <1>4 DEF Environment

\* so it holds throughout.
LEMMA LockInvariant == Spec => [](Typed /\ LockDiscipline)
<1>1. Init => LockDiscipline
  BY DEF Init, StoreInit, LockDiscipline, StagingHoldsLock, LockReturned, Underway
<1>2. Typed /\ LockDiscipline /\ [Next]_vars => LockDiscipline'
  <2> SUFFICES ASSUME Typed, LockDiscipline, [Next]_vars PROVE LockDiscipline'
    OBVIOUS
  <2>1. CASE Next
    BY <2>1, EnvironmentLock, HandleLock DEF Next
  <2>2. CASE UNCHANGED vars
    BY <2>2 DEF vars, storeVars, callVars, handlerVars, LockDiscipline, StagingHoldsLock,
                LockReturned, Holds
  <2> QED
    BY <2>1, <2>2
<1> QED
  BY <1>1, <1>2, TypedInvariant, PTL DEF Spec

\* updateStageTargets works under an index.lock of its own from opening it to renaming it, whatever
\* other servers, another Git client and crashes do.
THEOREM StagingLocked == Spec => []StagingHoldsLock
<1>1. Typed /\ LockDiscipline => StagingHoldsLock
  BY DEF LockDiscipline
<1> QED
  BY <1>1, LockInvariant, PTL

\* A lock that a request created exists only while its mutation is under way, in its finally
\* block, or dead in a crash: no rejection and no exception leaves it behind.
THEOREM LockGivenUp == Spec => []LockReturned
<1>1. Typed /\ LockDiscipline => LockReturned
  BY DEF LockDiscipline
<1> QED
  BY <1>1, LockInvariant, PTL

-----------------------------------------------------------------------------
(* What the lock protects.                                                 *)

Guarded(r) == kind[r] \in StageKinds /\ phase[r] \in Underway

\* Any Git command that moves HEAD or writes the index needs the lock free.
LEMMA GitFreezes ==
  ASSUME Locked, NEW r \in Requests, RunGit(r) \/ RunGitClean(r)
  PROVE  UNCHANGED <<index, head, detached>>
BY DEF RunGit, RunGitClean, Commit, CanCommit, CheckoutDetached, CheckoutBranch, SwitchesCleanly,
       StashPush, StashPop, StashConflict, Checkout, ResetMixedToParent, ResetHard,
       CleanUntracked, historyVars

\* While a staging mutation works, only its own Publish changes the index,
\* and nothing moves HEAD.
LEMMA Frozen ==
  ASSUME Typed, LockDiscipline, NEW r \in Requests, Guarded(r), [Next]_vars
  PROVE  /\ UNCHANGED <<head, detached>>
         /\ UNCHANGED index \/ Publish(r)
<1>1. Holds(r) /\ Locked /\ lock # External
  BY DEF Guarded, LockDiscipline, StagingHoldsLock, Holds, Locked
<1>2. CASE UNCHANGED vars
  BY <1>2 DEF vars, storeVars, historyVars
<1>3. CASE Environment
  BY <1>1, <1>3 DEF Environment, Call, BackgroundSnapshot, Crash, Edit, ExternalLock, ExternalWrite,
                    ExternalCommit, Commit, CanCommit, RemoveStaleLock, storeVars, historyVars
<1>4. ASSUME NEW q \in Requests, Handle(q)
      PROVE  UNCHANGED <<head, detached>> /\ (UNCHANGED index \/ Publish(r))
  <2>1. CASE RunGit(q) \/ RunGitClean(q)
    BY <1>1, <2>1, GitFreezes
  <2>2. CASE Publish(q)
    <3>1. Holds(q)
      BY <2>2 DEF Publish, LockDiscipline, StagingHoldsLock, Underway, Typed, Progress, ProgressOf
    <3> QED
      BY <1>1, <2>2, <3>1 DEF Holds, Publish, historyVars
  <2>3. CASE ~(RunGit(q) \/ RunGitClean(q) \/ Publish(q))
    BY <1>4, <2>3 DEF Handle, Arrive, Enter, Finally, TakeLock, ReadGit, ReadFiles, IncompleteStatus,
                      Check, CopyIndex, BuildEntry, VerifyContent, RereadIndex, GitRefuses, After,
                      Throws, storeVars, historyVars
  <2> QED
    BY <2>1, <2>2, <2>3
<1> QED
  BY <1>2, <1>3, <1>4 DEF Next

\* The steps of a handler leave the other requests where they are.
LEMMA OthersStay ==
  ASSUME Typed, NEW r \in Requests, NEW q \in Requests \ {r}, Handle(q)
  PROVE  phase'[r] = phase[r]
<1>1. PICK p \in Phases : phase' = phase \/ Goto(q, p)
  <2>1. CASE Arrive(q) \/ Enter(q) \/ Finally(q) \/ TakeLock(q) \/ ReadGit(q) \/ ReadFiles(q)
    BY <2>1 DEF Arrive, Enter, Finally, TakeLock, ReadGit, ReadFiles, Answer, Goto, Phases
  <2>2. CASE IncompleteStatus(q) \/ Check(q) \/ CopyIndex(q) \/ RereadIndex(q) \/ Publish(q)
    BY <2>2 DEF IncompleteStatus, Check, CopyIndex, RereadIndex, Publish, Answer, Goto, Phases
  <2>3. CASE \E f \in Files : BuildEntry(q, f) \/ VerifyContent(q, f)
    BY <2>3 DEF BuildEntry, VerifyContent, Answer, Goto, Phases
  <2>4. CASE RunGit(q) \/ RunGitClean(q) \/ GitRefuses(q) \/ After(q) \/ Throws(q)
    BY <2>4 DEF RunGit, RunGitClean, GitRefuses, After, Throws, Answer, Goto, Phases
  <2> QED
    BY <2>1, <2>2, <2>3, <2>4 DEF Handle
<1> QED
  BY <1>1 DEF Goto, Typed, ServerTypeOK

\* What r itself holds changes only by r's own steps, or is lost.
LEMMA OwnSteps ==
  ASSUME Typed, NEW r \in Requests, Live(r), [Next]_vars, ~Handle(r)
  PROVE  \/ phase'[r] = "lost"
         \/ /\ phase'[r] = phase[r] /\ kind'[r] = kind[r] /\ targets'[r] = targets[r]
            /\ todo'[r] = todo[r] /\ accepted'[r] = accepted[r] /\ snapshot'[r] = snapshot[r]
            /\ original'[r] = original[r] /\ temporary'[r] = temporary[r]
<1> DEFINE Same == /\ phase'[r] = phase[r] /\ kind'[r] = kind[r] /\ targets'[r] = targets[r]
                   /\ todo'[r] = todo[r] /\ accepted'[r] = accepted[r] /\ snapshot'[r] = snapshot[r]
                   /\ original'[r] = original[r] /\ temporary'[r] = temporary[r]
<1>1. CASE UNCHANGED vars
  BY <1>1 DEF vars, callVars, handlerVars
<1>2. ASSUME NEW q \in Requests, Call(q) PROVE Same
  <2>1. q # r /\ phase' = [phase EXCEPT ![q] = "called"]
        /\ accepted' = [accepted EXCEPT ![q] = CurrentSnapshot]
        /\ UNCHANGED <<snapshot, original, temporary, todo>>
    BY <1>2 DEF Call, Goto, Live
  <2>2. /\ \E k \in Kinds : kind' = [kind EXCEPT ![q] = k]
        /\ \E T \in SUBSET Changed : targets' = [targets EXCEPT ![q] = T]
    BY <1>2 DEF Call
  <2> QED
    BY <2>1, <2>2 DEF Typed, ServerTypeOK
<1>3. ASSUME NEW s \in Servers, Crash(s) PROVE phase'[r] = "lost" \/ Same
  BY <1>3 DEF Crash, callVars
<1>4. CASE \/ \E s \in Servers : BackgroundSnapshot(s)
           \/ \E f \in Files : Edit(f)
           \/ ExternalLock \/ ExternalWrite \/ ExternalCommit \/ RemoveStaleLock
  BY <1>4 DEF BackgroundSnapshot, Edit, ExternalLock, ExternalWrite, ExternalCommit, RemoveStaleLock,
              callVars, handlerVars
<1>5. ASSUME NEW q \in Requests \ {r}, Handle(q) PROVE Same
  <2>1. UNCHANGED <<kind, targets>>
    BY <1>5 DEF Handle, Arrive, Enter, Finally, TakeLock, ReadGit, ReadFiles, IncompleteStatus,
                Check, CopyIndex, BuildEntry, VerifyContent, RereadIndex, Publish, RunGit,
                RunGitClean, GitRefuses, After, Throws, callVars
  <2>2. phase'[r] = phase[r]
    BY <1>5, OthersStay
  <2>3. accepted'[r] = accepted[r] /\ snapshot'[r] = snapshot[r]
    BY <1>5 DEF Handle, Arrive, Enter, Finally, TakeLock, ReadGit, ReadFiles, IncompleteStatus,
                Check, CopyIndex, BuildEntry, VerifyContent, RereadIndex, Publish, RunGit,
                RunGitClean, GitRefuses, After, Throws, Typed, ServerTypeOK
  <2>4. todo'[r] = todo[r] /\ original'[r] = original[r] /\ temporary'[r] = temporary[r]
    BY <1>5 DEF Handle, Arrive, Enter, Finally, TakeLock, ReadGit, ReadFiles, IncompleteStatus,
                Check, CopyIndex, BuildEntry, VerifyContent, RereadIndex, Publish, RunGit,
                RunGitClean, GitRefuses, After, Throws, Typed, ServerTypeOK
  <2> QED
    BY <2>1, <2>2, <2>3, <2>4
<1> QED
  BY <1>1, <1>2, <1>3, <1>4, <1>5 DEF Next, Environment

\* A request that is not under way gets no further than "called" by the
\* steps of others.
LEMMA OthersSteps ==
  ASSUME Typed, NEW r \in Requests, ~Live(r), [Next]_vars, ~Handle(r)
  PROVE  phase'[r] \in {phase[r], "called", "lost"}
<1>1. CASE UNCHANGED vars
  BY <1>1 DEF vars, handlerVars
<1>2. CASE Environment
  <2>1. ASSUME NEW q \in Requests, Call(q) PROVE phase' = [phase EXCEPT ![q] = "called"]
    BY <2>1 DEF Call, Goto
  <2>2. ASSUME NEW s \in Servers, Crash(s) PROVE phase'[r] \in {phase[r], "lost"}
    BY <2>2 DEF Crash
  <2>3. ASSUME NEW s \in Servers, BackgroundSnapshot(s) PROVE phase' = phase
    BY <2>3 DEF BackgroundSnapshot, handlerVars
  <2>4. ASSUME NEW f \in Files, Edit(f) PROVE phase' = phase
    BY <2>4 DEF Edit, handlerVars
  <2>5. CASE ExternalLock \/ ExternalWrite \/ ExternalCommit \/ RemoveStaleLock
    BY <2>5 DEF ExternalLock, ExternalWrite, ExternalCommit, RemoveStaleLock, handlerVars
  <2> QED
    BY <1>2, <2>1, <2>2, <2>3, <2>4, <2>5 DEF Environment, Typed, ServerTypeOK
<1>3. ASSUME NEW q \in Requests \ {r}, Handle(q) PROVE phase'[r] = phase[r]
  BY <1>3, OthersStay
<1> QED
  BY <1>1, <1>2, <1>3 DEF Next

\* The prospective index is the index it was copied from, but for targets.
Over(r) ==
  /\ original[r] = index
  /\ todo[r] \subseteq targets[r]
  /\ \A f \in Files \ targets[r] : temporary[r].entries[f] = index.entries[f]
  /\ temporary[r].unmerged \subseteq index.unmerged
  /\ index.unmerged \ temporary[r].unmerged \subseteq targets[r]
BuiltOver == \A r \in Requests : phase[r] \in {"build", "verify", "reread", "publish"} => Over(r)

\* Every step keeps it that a prospective index was built over the index it copied,
LEMMA BuiltOverStep ==
  ASSUME Typed, LockDiscipline, BuiltOver, [Next]_vars
  PROVE  BuiltOver'
<1> SUFFICES ASSUME NEW r \in Requests, phase'[r] \in {"build", "verify", "reread", "publish"}
             PROVE  Over(r)'
  BY DEF BuiltOver
<1>1. CASE ~Handle(r)
  <2>1. Live(r) /\ phase[r] = phase'[r]
    <3>1. Live(r)
      BY <1>1, OthersSteps DEF Live
    <3> QED
      BY <1>1, <3>1, OwnSteps
  <2>2. Guarded(r) /\ Over(r)
    BY <2>1 DEF Guarded, Underway, BuiltOver, Typed, Progress, ProgressOf
  <2>3. UNCHANGED index
    BY <1>1, <2>2, Frozen DEF Handle
  <2> QED
    BY <1>1, <2>1, <2>2, <2>3, OwnSteps DEF Over
<1>2. CASE CopyIndex(r)
  BY <1>2 DEF CopyIndex, Over, storeVars, callVars, Typed, ServerTypeOK
<1>3. ASSUME NEW f \in Files, BuildEntry(r, f) PROVE Over(r)'
  <2>1. Over(r) /\ temporary[r] \in Index /\ UNCHANGED <<index, original, targets>>
    BY <1>3 DEF BuildEntry, BuiltOver, Typed, Progress, ProgressOf, storeVars, callVars
  <2>2. /\ temporary'[r].unmerged = temporary[r].unmerged \ {f}
        /\ \A g \in Files \ {f} : temporary'[r].entries[g] = temporary[r].entries[g]
    BY <1>3, <2>1 DEF BuildEntry, Index, Tree, Typed, ServerTypeOK
  <2>3. f \in targets[r] /\ todo'[r] \subseteq targets[r]
    BY <1>3, <2>1 DEF BuildEntry, Over, Typed, ServerTypeOK
  <2> QED
    BY <2>1, <2>2, <2>3 DEF Over
<1>4. CASE (\E f \in Files : VerifyContent(r, f)) \/ RereadIndex(r)
  <2>1. Over(r) /\ UNCHANGED <<index, original, targets, temporary>> /\ todo'[r] \subseteq todo[r]
    BY <1>4 DEF VerifyContent, RereadIndex, BuiltOver, storeVars, callVars, Typed, ServerTypeOK
  <2> QED
    BY <2>1 DEF Over
<1>5. CASE Handle(r) /\ ~(\/ CopyIndex(r) \/ RereadIndex(r)
                          \/ \E f \in Files : BuildEntry(r, f) \/ VerifyContent(r, f))
  BY <1>5 DEF Handle, Arrive, Enter, Finally, TakeLock, ReadGit, ReadFiles, IncompleteStatus, Check,
              Publish, RunGit, RunGitClean, GitRefuses, After, Throws, Answer, Goto, Typed,
              ServerTypeOK
<1> QED
  BY <1>1, <1>2, <1>3, <1>4, <1>5

\* so it holds throughout.
LEMMA BuiltOverInvariant == Spec => [](Typed /\ LockDiscipline /\ BuiltOver)
<1>1. Init => BuiltOver
  BY DEF Init, BuiltOver
<1>2. Typed /\ LockDiscipline /\ BuiltOver /\ [Next]_vars => BuiltOver'
  BY BuiltOverStep
<1> QED
  BY <1>1, <1>2, LockInvariant, PTL DEF Spec

\* Only the action Publish publishes: no other step of another request moves it past publish.
LEMMA PublishesOnly ==
  ASSUME Typed, NEW r \in Requests, [Next]_vars, Publishes(r)
  PROVE  Publish(r)
<1>1. Live(r) /\ phase'[r] # phase[r] /\ phase'[r] # "lost"
  BY DEF Publishes, Live
<1>2. Handle(r)
  BY <1>1, OwnSteps
<1> QED
  BY <1>2 DEF Publishes, Handle, Arrive, Enter, Finally, TakeLock, ReadGit, ReadFiles,
     IncompleteStatus, Check, CopyIndex, BuildEntry, VerifyContent, RereadIndex, RunGit,
     RunGitClean, GitRefuses, After, Throws, Answer, Goto, Typed, ServerTypeOK

\* Renaming index.lock over the index changes the entries of the request's targets only: no update
\* that another server or Git client made to another path is lost.
THEOREM NoUpdateLost == Spec => NoLostIndexUpdate
<1> DEFINE Keeps == \A r \in Requests : Publishes(r) =>
       /\ \A f \in Files \ targets[r] : index'.entries[f] = index.entries[f]
       /\ index'.unmerged \subseteq index.unmerged
       /\ index.unmerged \ index'.unmerged \subseteq targets[r]
<1>1. Typed /\ BuiltOver /\ [Next]_vars => Keeps
  <2> SUFFICES ASSUME Typed, BuiltOver, [Next]_vars, NEW r \in Requests, Publishes(r)
               PROVE  /\ \A f \in Files \ targets[r] : index'.entries[f] = index.entries[f]
                      /\ index'.unmerged \subseteq index.unmerged
                      /\ index.unmerged \ index'.unmerged \subseteq targets[r]
    OBVIOUS
  <2>1. Publish(r) /\ Over(r)
    BY PublishesOnly DEF Publishes, BuiltOver
  <2> QED
    BY <2>1 DEF Publish, Over
<1> QED
  BY <1>1, BuiltOverInvariant, PTL DEF Spec, NoLostIndexUpdate

\* A handler at work on a fresh snapshot was not served the last one before.
LEMMA FreshBefore ==
  ASSUME Typed, NEW r \in Requests, [Next]_vars, r \notin standIns',
         phase'[r] \in {"readFiles", "check", "copy", "build", "verify", "reread", "publish", "git"}
  PROVE  r \notin standIns /\ ~IncompleteStatus(r)
<1>1. ~IncompleteStatus(r) /\ ~Finally(r)
  BY DEF IncompleteStatus, Finally, Answer, Goto, Typed, ServerTypeOK
<1>2. CASE UNCHANGED vars
  BY <1>1, <1>2 DEF vars, boundVars
<1>3. CASE Environment
  BY <1>1, <1>3 DEF Environment, Call, BackgroundSnapshot, Crash, Edit, ExternalLock, ExternalWrite,
                    ExternalCommit, RemoveStaleLock, boundVars
<1>4. ASSUME NEW q \in Requests, Handle(q) PROVE r \notin standIns
  <2>1. CASE IncompleteStatus(q) \/ Finally(q)
    BY <1>1, <2>1 DEF IncompleteStatus, Finally
  <2>2. CASE ~(IncompleteStatus(q) \/ Finally(q))
    BY <1>4, <2>2 DEF Handle, Arrive, Enter, TakeLock, ReadGit, ReadFiles, Check, CopyIndex, BuildEntry,
                      VerifyContent, RereadIndex, Publish, RunGit, RunGitClean, GitRefuses, After,
                      Throws, boundVars
  <2> QED
    BY <2>1, <2>2
<1> QED
  BY <1>1, <1>2, <1>3, <1>4 DEF Next

\* Between its revision check and its publication a staging mutation that was served a fresh
\* snapshot has in hand the HEAD and the index as they are.
Seen(r) == /\ snapshot[r].index = index
           /\ snapshot[r].head = head /\ snapshot[r].detached = detached
SeenStill == \A r \in Requests \ standIns : kind[r] \in StageKinds =>
  /\ phase[r] \in {"readFiles", "check", "copy", "build", "verify", "reread", "publish"} => Seen(r)
  /\ phase[r] \in {"copy", "build", "verify", "reread", "publish"} => snapshot[r] = accepted[r]

\* Every step keeps it that a staging mutation works on what the client accepted.
LEMMA SeenStep ==
  ASSUME Typed, LockDiscipline, SeenStill, [Next]_vars
  PROVE  SeenStill'
<1> DEFINE Late == {"copy", "build", "verify", "reread", "publish"}
<1> SUFFICES ASSUME NEW r \in Requests \ standIns', kind'[r] \in StageKinds,
                    phase'[r] \in {"readFiles", "check"} \cup Late
             PROVE  Seen(r)' /\ (phase'[r] \in Late => snapshot'[r] = accepted'[r])
  BY DEF SeenStill
<1> r \notin standIns /\ ~IncompleteStatus(r)
  BY FreshBefore
<1>1. CASE ~Handle(r)
  <2>1. Live(r)
    BY <1>1, OthersSteps DEF Live
  <2>2. /\ phase'[r] = phase[r] /\ kind'[r] = kind[r]
        /\ accepted'[r] = accepted[r] /\ snapshot'[r] = snapshot[r]
    BY <1>1, <2>1, OwnSteps
  <2>3. Guarded(r) /\ Seen(r) /\ (phase[r] \in Late => snapshot[r] = accepted[r])
    BY <2>2 DEF Guarded, Underway, SeenStill
  <2>4. UNCHANGED <<head, detached, index>>
    BY <1>1, <2>3, Frozen DEF Handle
  <2> QED
    BY <2>2, <2>3, <2>4 DEF Seen
<1>2. CASE ReadGit(r)
  BY <1>2 DEF ReadGit, CurrentSnapshot, Seen, Goto, storeVars, historyVars, Typed, ServerTypeOK
<1>3. CASE ReadFiles(r)
  <2>1. Seen(r) /\ snapshot[r] \in Snapshot
    BY <1>3 DEF ReadFiles, SeenStill, callVars, Typed, Progress, ProgressOf
  <2>2. /\ snapshot'[r].index = snapshot[r].index /\ snapshot'[r].head = snapshot[r].head
        /\ snapshot'[r].detached = snapshot[r].detached /\ phase'[r] = "check"
    BY <1>3, <2>1 DEF ReadFiles, Goto, Snapshot, Typed, ServerTypeOK
  <2> QED
    BY <1>3, <2>1, <2>2 DEF ReadFiles, Seen, storeVars, historyVars
<1>4. CASE Check(r)
  BY <1>4 DEF Check, SameRevision, Answer, Goto, SeenStill, Seen, storeVars, historyVars, callVars,
              Typed, ServerTypeOK
<1>5. CASE \/ CopyIndex(r) \/ RereadIndex(r)
           \/ \E f \in Files : BuildEntry(r, f) \/ VerifyContent(r, f)
  <2>1. /\ phase[r] \in Late
        /\ UNCHANGED <<kind, accepted, snapshot, index, head, detached>>
    BY <1>5 DEF CopyIndex, RereadIndex, BuildEntry, VerifyContent, storeVars, historyVars, callVars
  <2> QED
    BY <2>1 DEF SeenStill, Seen
<1>6. CASE Handle(r) /\ ~(\/ ReadGit(r) \/ ReadFiles(r) \/ Check(r) \/ CopyIndex(r) \/ RereadIndex(r)
                          \/ \E f \in Files : BuildEntry(r, f) \/ VerifyContent(r, f))
  BY <1>6 DEF Handle, Arrive, Enter, Finally, TakeLock,
              Publish, RunGit, RunGitClean, GitRefuses, After, Throws, Answer, Goto, Typed,
              ServerTypeOK
<1> QED
  BY <1>1, <1>2, <1>3, <1>4, <1>5, <1>6

\* An index is published only over the HEAD and index whose revision the client accepted, but for a
\* request whose check was served the last snapshot: a stale staging mutation is rejected.
THEOREM StagingNotStale == Spec => StaleStagingRejected
<1> DEFINE Fresh == \A r \in Requests : Publishes(r) /\ r \notin standIns =>
       accepted[r].index = index /\ accepted[r].head = head /\ accepted[r].detached = detached
<1>1. Init => SeenStill
  BY DEF Init, SeenStill
<1>2. Typed /\ LockDiscipline /\ SeenStill /\ [Next]_vars => SeenStill'
  BY SeenStep
<1>3. Typed /\ SeenStill /\ [Next]_vars => Fresh
  BY DEF SeenStill, Seen, Publishes, Typed, Progress, ProgressOf
<1> QED
  BY <1>1, <1>2, <1>3, LockInvariant, PTL DEF Spec, StaleStagingRejected
-----------------------------------------------------------------------------
(* The Git commands.                                                       *)

\* A request moves by its own steps, by being sent, or in a crash; only its own change the files.
LEMMA MovesBy ==
  ASSUME Typed, NEW r \in Requests, [Next]_vars, phase'[r] # phase[r]
  PROVE  Handle(r) \/ UNCHANGED <<worktree, stash>>
<1> SUFFICES ASSUME ~Handle(r)
             PROVE  UNCHANGED <<worktree, stash>>
  OBVIOUS
<1>1. CASE UNCHANGED vars
  BY <1>1 DEF vars, storeVars
<1>2. CASE Environment
  <2>1. ASSUME NEW f \in Files, Edit(f) PROVE phase' = phase
    BY <2>1 DEF Edit, handlerVars
  <2> QED
    BY <1>2, <2>1 DEF Environment, Call, BackgroundSnapshot, Crash, ExternalLock, ExternalWrite,
                      ExternalCommit, Commit, RemoveStaleLock, storeVars
<1>3. ASSUME NEW q \in Requests \ {r}, Handle(q) PROVE phase'[r] = phase[r]
  BY <1>3, OthersStay
<1> QED
  BY <1>1, <1>2, <1>3 DEF Next

Holding(f) == /\ worktree[f] # Absent => Kept(f, worktree[f])
              /\ \A i \in DOMAIN stash : stash[i].work[f] # Absent => Kept(f, stash[i].work[f])

\* What stays in place is kept.
LEMMA InPlace ==
  ASSUME NEW f \in Files, UNCHANGED <<worktree, stash>>
  PROVE  Holding(f)
BY DEF Holding, Kept

\* Switching commits overwrites only what HEAD's commit records.
LEMMA SwitchKeepsWork ==
  ASSUME StoreTypeOK, NEW c \in CommitIds, SwitchesCleanly(c), SwitchTree(c), UNCHANGED <<tree, stash>>,
         NEW f \in Files
  PROVE  Holding(f)
<1>1. worktree'[f] = worktree[f] \/ worktree[f] = tree[head][f]
  BY DEF SwitchesCleanly, SwitchTree
<1>2. head \in CommitIds
  BY DEF StoreTypeOK
<1> QED
  BY <1>1, <1>2 DEF Holding, Kept

\* Stashing moves the working tree to the head of the stash, the others one down;
LEMMA StashKeepsWork ==
  ASSUME StoreTypeOK, StashPush, NEW f \in Files
  PROVE  Holding(f)
<1> DEFINE e == [base |-> head, index |-> index, work |-> worktree]
<1>1. e \in StashEntry /\ e.work = worktree /\ stash \in Seq(StashEntry) /\ stash' = <<e>> \o stash
  BY DEF StoreTypeOK, StashPush, StashEntry
<1> HIDE DEF e
<1>2. <<e>> \in Seq(StashEntry) /\ Len(<<e>>) = 1 /\ <<e>>[1] = e
  BY <1>1
<1>3. /\ Len(stash) \in Nat /\ DOMAIN stash = 1..Len(stash) /\ DOMAIN stash' = 1..(Len(stash) + 1)
      /\ stash'[1] = e /\ \A i \in 1..Len(stash) : stash'[i + 1] = stash[i]
  BY <1>1, <1>2
<1>4. 1 \in DOMAIN stash' /\ \A i \in DOMAIN stash : i + 1 \in DOMAIN stash'
  BY <1>3
<1> QED
  BY <1>1, <1>3, <1>4 DEF Holding, Kept

\* popping it writes its head to the working tree, where nothing but what HEAD records is overwritten.
LEMMA PopKeepsWork ==
  ASSUME StoreTypeOK, StashPop, NEW f \in Files
  PROVE  Holding(f)
<1> DEFINE s == Head(stash)
<1>1. /\ stash \in Seq(StashEntry) /\ stash # <<>> /\ stash' = Tail(stash) /\ tree' = tree
      /\ worktree' = [g \in Files |-> IF g \in StashTouched THEN s.work[g] ELSE worktree[g]]
      /\ head \in CommitIds /\ index.entries[f] = index.entries[f]
  BY DEF StoreTypeOK, StashPop, historyVars
<1>2. /\ Len(stash) \in Nat /\ DOMAIN stash = 1..Len(stash) /\ s = stash[1] /\ s \in StashEntry
      /\ DOMAIN stash' = 1..(Len(stash) - 1) /\ \A i \in 1..(Len(stash) - 1) : stash'[i] = stash[i + 1]
  BY <1>1
<1>3. s.base \in CommitIds
  BY <1>2 DEF StashEntry
<1>4. worktree[f] # Absent => Kept(f, worktree[f])
  <2>1. CASE f \in StashTouched
    <3>1. f \notin Changed
      BY <2>1 DEF StashPop, StashBlocked
    <3>2. worktree[f] = tree[head][f]
      BY <3>1 DEF Changed
    <3> QED
      BY <1>1, <3>2 DEF Kept
  <2>2. CASE f \notin StashTouched
    BY <1>1, <2>2 DEF Kept
  <2> QED
    BY <2>1, <2>2
<1>5. Kept(f, s.work[f])
  <2>1. CASE f \in StashTouched
    BY <1>1, <2>1 DEF Kept
  <2>2. CASE f \notin StashTouched
    <3>1. s.work[f] = tree[s.base][f]
      BY <2>2 DEF StashTouched
    <3> QED
      BY <1>1, <1>3, <3>1 DEF Kept
  <2> QED
    BY <2>1, <2>2
<1>6. ASSUME NEW i \in DOMAIN stash
      PROVE  Kept(f, stash[i].work[f])
  <2>1. CASE i = 1
    BY <1>2, <1>5, <2>1
  <2>2. CASE i # 1
    <3>1. i - 1 \in DOMAIN stash' /\ stash'[i - 1] = stash[i]
      BY <1>2, <2>2
    <3> QED
      BY <3>1 DEF Kept
  <2> QED
    BY <2>1, <2>2
<1> QED
  BY <1>4, <1>6 DEF Holding

\* Only "clean" goes on to `git clean`.
CleansAfterReset == \A r \in Requests : phase[r] = "git clean" => kind[r] = "clean"

\* A step of a mutation other than "clean" keeps the work.
LEMMA HandleKeepsWork ==
  ASSUME Typed, CleansAfterReset, NEW r \in Requests, Handle(r), kind[r] # "clean", NEW f \in Files
  PROVE  Holding(f)
<1>1. CASE RunGit(r)
  <2>1. CASE Commit \/ StashConflict \/ ResetMixedToParent
    BY <2>1, InPlace DEF Commit, StashConflict, ResetMixedToParent
  <2>2. CASE kind[r] = "checkout" /\ CheckoutDetached(goal[r])
    BY <2>2, SwitchKeepsWork DEF CheckoutDetached, Typed, ServerTypeOK
  <2>3. CASE CheckoutBranch
    BY <2>3, SwitchKeepsWork DEF CheckoutBranch, Typed, StoreTypeOK
  <2>4. CASE StashPush
    BY <2>4, StashKeepsWork DEF Typed
  <2>5. CASE StashPop
    BY <2>5, PopKeepsWork DEF Typed
  <2> QED
    BY <1>1, <2>1, <2>2, <2>3, <2>4, <2>5 DEF RunGit, Checkout
<1>2. CASE RunGitClean(r)
  BY <1>2 DEF RunGitClean, CleansAfterReset
<1>3. CASE ~(RunGit(r) \/ RunGitClean(r))
  <2>1. UNCHANGED <<worktree, stash>>
    <3>1. CASE Arrive(r) \/ Enter(r) \/ Finally(r) \/ TakeLock(r) \/ ReadGit(r) \/ ReadFiles(r)
      BY <3>1 DEF Arrive, Enter, Finally, TakeLock, ReadGit, ReadFiles, storeVars
    <3>2. CASE IncompleteStatus(r) \/ Check(r) \/ CopyIndex(r) \/ RereadIndex(r) \/ Publish(r)
      BY <3>2 DEF IncompleteStatus, Check, CopyIndex, RereadIndex, Publish, storeVars
    <3>3. CASE \E g \in Files : BuildEntry(r, g) \/ VerifyContent(r, g)
      BY <3>3 DEF BuildEntry, VerifyContent, storeVars
    <3>4. CASE GitRefuses(r) \/ After(r) \/ Throws(r)
      BY <3>4 DEF GitRefuses, After, Throws, storeVars
    <3> QED
      BY <1>3, <3>1, <3>2, <3>3, <3>4 DEF Handle
  <2> QED
    BY <2>1, InPlace
<1> QED
  BY <1>1, <1>2, <1>3

\* Every step keeps it that only "clean" goes on to `git clean`.
LEMMA CleansStep ==
  ASSUME Typed, CleansAfterReset, [Next]_vars
  PROVE  CleansAfterReset'
<1> SUFFICES ASSUME NEW r \in Requests, phase'[r] = "git clean"
             PROVE  kind'[r] = "clean"
  BY DEF CleansAfterReset
<1>1. CASE ~Handle(r)
  <2>1. Live(r)
    BY <1>1, OthersSteps DEF Live
  <2>2. phase'[r] = phase[r] /\ kind'[r] = kind[r]
    BY <1>1, <2>1, OwnSteps
  <2> QED
    BY <2>2 DEF CleansAfterReset
<1>2. CASE RunGit(r)
  <2>1. phase' = [phase EXCEPT ![r] = IF kind[r] = "clean" THEN "git clean" ELSE "after"] /\ kind' = kind
    BY <1>2 DEF RunGit, Goto, callVars
  <2> QED
    BY <2>1 DEF Typed, ServerTypeOK
<1>3. CASE Handle(r) /\ ~RunGit(r)
  <2>1. CASE Arrive(r) \/ Enter(r) \/ Finally(r) \/ TakeLock(r) \/ ReadGit(r) \/ ReadFiles(r)
    BY <2>1 DEF Arrive, Enter, Finally, TakeLock, ReadGit, ReadFiles, Answer, Goto, Typed, ServerTypeOK
  <2>2. CASE IncompleteStatus(r) \/ Check(r) \/ CopyIndex(r) \/ RereadIndex(r) \/ Publish(r)
    BY <2>2 DEF IncompleteStatus, Check, CopyIndex, RereadIndex, Publish, Answer, Goto, Typed, ServerTypeOK
  <2>3. CASE \E f \in Files : BuildEntry(r, f) \/ VerifyContent(r, f)
    BY <2>3 DEF BuildEntry, VerifyContent, Answer, Goto, Typed, ServerTypeOK
  <2>4. CASE RunGitClean(r) \/ GitRefuses(r) \/ After(r) \/ Throws(r)
    BY <2>4 DEF RunGitClean, GitRefuses, After, Throws, Answer, Goto, Typed, ServerTypeOK
  <2> QED
    BY <1>3, <2>1, <2>2, <2>3, <2>4 DEF Handle
<1> QED
  BY <1>1, <1>2, <1>3

\* Whatever two servers, an editor and another Git client do meanwhile, no mutation but "clean" loses
\* what the working tree or a stash held of a file.
THEOREM WorkIsKept == Spec => WorkKept
<1> DEFINE Keeps == \A r \in Requests : phase'[r] # phase[r] /\ kind[r] # "clean" =>
                      \A f \in Files : Holding(f)
<1>1. Init => CleansAfterReset
  BY DEF Init, CleansAfterReset
<1>2. Typed /\ CleansAfterReset /\ [Next]_vars => CleansAfterReset'
  BY CleansStep
<1>3. Typed /\ CleansAfterReset /\ [Next]_vars => Keeps
  BY MovesBy, HandleKeepsWork, InPlace
<1>4. Keeps => \A r \in Requests : phase'[r] # phase[r] /\ kind[r] # "clean" =>
         \A f \in Files : /\ worktree[f] # Absent => Kept(f, worktree[f])
                          /\ \A i \in DOMAIN stash : stash[i].work[f] # Absent => Kept(f, stash[i].work[f])
  BY DEF Holding
<1> QED
  BY <1>1, <1>2, <1>3, <1>4, TypedInvariant, PTL DEF Spec, WorkKept
-----------------------------------------------------------------------------
(* One server at work, and no other Git client so far.                     *)

\* Where nobody else writes now, nobody else wrote before.
LEMMA AloneBefore ==
  ASSUME Typed, Alone', [Next]_vars
  PROVE  /\ Alone
         /\ ~ExternalLock /\ ~ExternalCommit
<1>1. CASE UNCHANGED vars
  BY <1>1 DEF vars, callVars, boundVars, Alone, ExternalLock, ExternalCommit, Typed, ServerTypeOK
<1>2. CASE Environment
  <2>1. CASE \E r \in Requests : Call(r)
    <3>1. PICK r \in Requests : Call(r)
      BY <2>1
    <3>2. /\ phase[r] = "idle"
          /\ \E s \in Servers : server' = [server EXCEPT ![r] = s]
          /\ externals' = externals
      BY <3>1 DEF Call, boundVars
    <3>3. server[r] = None
      BY <3>2 DEF Typed, Progress, ProgressOf
    <3>4. \A q \in Requests : server[q] # None => server'[q] = server[q]
      BY <3>2, <3>3 DEF Typed, ServerTypeOK
    <3>5. Alone
      BY <3>2, <3>4 DEF Alone
    <3> QED
      BY <3>2, <3>5 DEF Alone, ExternalLock, ExternalCommit, Typed, ServerTypeOK
  <2>2. CASE ~\E r \in Requests : Call(r)
    BY <1>2, <2>2 DEF Environment, BackgroundSnapshot, Crash, Edit, ExternalLock, ExternalWrite,
                      ExternalCommit, RemoveStaleLock, callVars, boundVars, Alone, Typed, ServerTypeOK
  <2> QED
    BY <2>1, <2>2
<1>3. ASSUME NEW r \in Requests, Handle(r)
      PROVE  UNCHANGED <<server, externals>>
  BY <1>3 DEF Handle, Arrive, Enter, Finally, TakeLock, ReadGit, ReadFiles, IncompleteStatus, Check,
              CopyIndex, BuildEntry, VerifyContent, RereadIndex, Publish, RunGit, RunGitClean,
              GitRefuses, After, Throws, callVars, boundVars
<1>4. CASE \E r \in Requests : Handle(r)
  BY <1>3, <1>4 DEF Alone, ExternalLock, ExternalCommit, Typed, ServerTypeOK
<1> QED
  BY <1>1, <1>2, <1>4 DEF Next

\* Nobody else took the lock.
NoOther == Alone => lock # External

\* As long as nobody else writes, no other Git client takes the lock.
LEMMA NoOtherStep ==
  ASSUME Typed, NoOther, [Next]_vars
  PROVE  NoOther'
<1> SUFFICES ASSUME Alone'
             PROVE  lock' # External
  BY DEF NoOther
<1>1. lock # External /\ ~ExternalLock
  BY AloneBefore DEF NoOther
<1>2. CASE UNCHANGED vars
  BY <1>1, <1>2 DEF vars, storeVars
<1>3. CASE Environment
  BY <1>1, <1>3 DEF Environment, Call, BackgroundSnapshot, Crash, Edit, ExternalWrite, ExternalCommit,
                    Commit, RemoveStaleLock, storeVars
<1>4. ASSUME NEW r \in Requests, Handle(r) PROVE lock' # External
  <2>1. CASE Arrive(r) \/ Enter(r) \/ Finally(r) \/ TakeLock(r) \/ ReadGit(r) \/ ReadFiles(r)
    BY <1>1, <2>1 DEF Arrive, Enter, Finally, LockGivenBack, TakeLock, ReadGit, ReadFiles, storeVars
  <2>2. CASE IncompleteStatus(r) \/ Check(r) \/ CopyIndex(r) \/ RereadIndex(r) \/ Publish(r)
    BY <1>1, <2>2 DEF IncompleteStatus, Check, CopyIndex, RereadIndex, Publish, storeVars
  <2>3. CASE \E f \in Files : BuildEntry(r, f) \/ VerifyContent(r, f)
    BY <1>1, <2>3 DEF BuildEntry, VerifyContent, storeVars
  <2>4. CASE RunGit(r) \/ RunGitClean(r)
    BY <1>1, <2>4, GitKeepsLock
  <2>5. CASE GitRefuses(r) \/ After(r) \/ Throws(r)
    BY <1>1, <2>5 DEF GitRefuses, After, Throws, storeVars
  <2> QED
    BY <1>4, <2>1, <2>2, <2>3, <2>4, <2>5 DEF Handle
<1> QED
  BY <1>2, <1>3, <1>4 DEF Next

\* While a mutation is past the coordinator and nobody else writes, the index and HEAD are its own.
LEMMA AloneFrozen ==
  ASSUME Alone', Typed, NoOther, NEW r \in Requests, Active(r), [Next]_vars, ~Handle(r)
  PROVE  UNCHANGED <<index, head, detached>>
<1>1. Alone /\ ~ExternalLock /\ ~ExternalWrite /\ ~ExternalCommit
  BY AloneBefore DEF ExternalWrite, NoOther
<1>2. CASE UNCHANGED vars
  BY <1>2 DEF vars, storeVars, historyVars
<1>3. CASE Environment
  BY <1>1, <1>3 DEF Environment, Call, BackgroundSnapshot, Crash, Edit, RemoveStaleLock, storeVars,
                    historyVars
<1>4. ASSUME NEW q \in Requests \ {r}, Handle(q) PROVE UNCHANGED <<index, head, detached>>
  <2>1. CASE Arrive(q)
    BY <2>1 DEF Arrive, storeVars, historyVars
  <2>2. CASE ~Arrive(q)
    <3>1. phase[q] \notin {"idle", "called", "done", "lost"} /\ (phase[q] = "queued" => IsTurn(q))
      BY <1>4, <2>2 DEF Handle, Enter, Finally, TakeLock, ReadGit, ReadFiles, IncompleteStatus,
                  Check, CopyIndex, BuildEntry, VerifyContent, RereadIndex, Publish, RunGit,
                  RunGitClean, GitRefuses, After, Throws
    <3>2. Live(q) /\ Live(r) /\ IsTurn(q) /\ IsTurn(r)
      BY <3>1 DEF Live, Active, Typed, TurnHeld
    <3>3. server[q] = server[r]
      BY <1>1, <3>2, MutationAssumption DEF Alone, Typed, Progress, ProgressOf
    <3> QED
      BY <3>2, <3>3 DEF IsTurn
  <2> QED
    BY <2>1, <2>2
<1> QED
  BY <1>2, <1>3, <1>4 DEF Next

\* Between its revision check and its Git command a mutation that was served a fresh snapshot has
\* in hand the HEAD and the index as they are.
GitSeen == Alone => \A r \in Requests \ standIns : kind[r] \notin StageKinds =>
  /\ phase[r] \in {"readFiles", "check", "git"} => Seen(r)
  /\ phase[r] = "git" => snapshot[r] = accepted[r]

\* Every step keeps it that Git commands run on what the client accepted.
LEMMA GitSeenStep ==
  ASSUME Typed, NoOther, GitSeen, [Next]_vars
  PROVE  GitSeen'
<1> SUFFICES ASSUME Alone', NEW r \in Requests \ standIns', kind'[r] \notin StageKinds,
                    phase'[r] \in {"readFiles", "check", "git"}
             PROVE  Seen(r)' /\ (phase'[r] = "git" => snapshot'[r] = accepted'[r])
  BY DEF GitSeen
<1> Alone /\ r \notin standIns /\ ~IncompleteStatus(r)
  BY AloneBefore, FreshBefore
<1>1. CASE ~Handle(r)
  <2>1. Live(r)
    BY <1>1, OthersSteps DEF Live
  <2>2. /\ phase'[r] = phase[r] /\ kind'[r] = kind[r]
        /\ accepted'[r] = accepted[r] /\ snapshot'[r] = snapshot[r]
    BY <1>1, <2>1, OwnSteps
  <2>3. Active(r) /\ Seen(r) /\ (phase[r] = "git" => snapshot[r] = accepted[r])
    BY <2>2 DEF Active, GitSeen
  <2>4. UNCHANGED <<index, head, detached>>
    BY <1>1, <2>3, AloneFrozen
  <2> QED
    BY <2>2, <2>3, <2>4 DEF Seen
<1>2. CASE ReadGit(r)
  BY <1>2 DEF ReadGit, CurrentSnapshot, Seen, Goto, storeVars, historyVars, Typed, ServerTypeOK
<1>3. CASE ReadFiles(r)
  <2>1. Seen(r) /\ snapshot[r] \in Snapshot
    BY <1>3 DEF ReadFiles, GitSeen, callVars, Typed, Progress, ProgressOf
  <2>2. /\ snapshot'[r].index = snapshot[r].index /\ snapshot'[r].head = snapshot[r].head
        /\ snapshot'[r].detached = snapshot[r].detached /\ phase'[r] = "check"
    BY <1>3, <2>1 DEF ReadFiles, Goto, Snapshot, Typed, ServerTypeOK
  <2> QED
    BY <1>3, <2>1, <2>2 DEF ReadFiles, Seen, storeVars, historyVars
<1>4. CASE Check(r)
  BY <1>4 DEF Check, SameRevision, Answer, Goto, GitSeen, Seen, storeVars, historyVars, callVars,
              Typed, ServerTypeOK
<1>5. CASE Handle(r) /\ ~(ReadGit(r) \/ ReadFiles(r) \/ Check(r))
  <2>1. CASE Arrive(r) \/ Enter(r) \/ Finally(r) \/ TakeLock(r)
    <3>1. phase'[r] \in {"queued", "lock", "readGit", "done", "finally"}
      BY <2>1 DEF Arrive, Enter, Finally, TakeLock, Answer, Goto, Typed, ServerTypeOK
    <3> QED
      BY <3>1
  <2>2. CASE CopyIndex(r) \/ RereadIndex(r) \/ Publish(r) \/ \E f \in Files : BuildEntry(r, f) \/ VerifyContent(r, f)
    <3>1. phase'[r] \in {"build", "verify", "reread", "publish", "after", "finally"}
      BY <2>2 DEF CopyIndex, RereadIndex, Publish, BuildEntry, VerifyContent, Answer, Goto, Typed, ServerTypeOK
    <3> QED
      BY <3>1
  <2>3. CASE RunGit(r) \/ RunGitClean(r) \/ GitRefuses(r) \/ After(r) \/ Throws(r)
    <3>1. phase'[r] \in {"git clean", "after", "finally"}
      BY <2>3 DEF RunGit, RunGitClean, GitRefuses, After, Throws, Answer, Goto, Typed, ServerTypeOK
    <3> QED
      BY <3>1
  <2> QED
    BY <1>5, <2>1, <2>2, <2>3 DEF Handle
<1> QED
  BY <1>1, <1>2, <1>3, <1>4, <1>5

\* As long as one server takes the requests and no other Git client writes, a commit or Git workspace
\* action whose check was served a fresh snapshot runs on the very HEAD and index its client
\* accepted, whatever an editor and crashes do.
THEOREM GitRunsOnAccepted == Spec => GitRunsOnAcceptedIndex
<1> DEFINE Fresh == Alone => \A r \in Requests \ standIns :
       phase[r] = "git" /\ phase'[r] \in {"git clean", "after"} =>
       accepted[r].index = index /\ accepted[r].head = head /\ accepted[r].detached = detached
<1>1. Init => NoOther /\ GitSeen
  BY DEF Init, StoreInit, NoOther, GitSeen
<1>2. Typed /\ NoOther /\ GitSeen /\ [Next]_vars => NoOther' /\ GitSeen'
  BY NoOtherStep, GitSeenStep
<1>3. Typed /\ GitSeen => Fresh
  BY DEF GitSeen, Seen, Typed, Progress, ProgressOf
<1> QED
  BY <1>1, <1>2, <1>3, TypedInvariant, PTL DEF Spec, GitRunsOnAcceptedIndex
-----------------------------------------------------------------------------
(* The content that is staged, when contents only grow newer.              *)

ContentsGrow == ~EditorMayRevert /\ Kinds \subseteq StageKinds \cup {"commit"}
Newest       == newest \in Nat /\ \A f \in Files : worktree[f] \in Nat /\ worktree[f] <= newest

\* No step but the editor's changes the working tree, and that one to a content newer than all.
LEMMA WorktreeGrows ==
  ASSUME ContentsGrow, Typed, CleansAfterReset, Newest, [Next]_vars
  PROVE  Newest' /\ \A f \in Files : worktree'[f] \in Nat /\ worktree[f] <= worktree'[f]
<1>1. CASE UNCHANGED <<worktree, newest>>
  BY <1>1 DEF Newest
<1>2. ASSUME NEW f \in Files, Edit(f)
      PROVE  Newest' /\ \A g \in Files : worktree'[g] \in Nat /\ worktree[g] <= worktree'[g]
  <2>1. worktree \in [Files -> Contents]
    BY DEF Typed, StoreTypeOK, Tree
  <2>2. newest' = newest + 1 /\ worktree' = [worktree EXCEPT ![f] = newest + 1]
    <3>1. PICK c \in Contents : /\ c = newest + 1
                                /\ worktree' = [worktree EXCEPT ![f] = c]
                                /\ newest' = IF c > newest THEN c ELSE newest
      BY <1>2 DEF Edit, ContentsGrow
    <3>2. newest \in Nat /\ newest + 1 > newest
      BY DEF Newest
    <3> QED
      BY <3>1, <3>2
  <2>3. \A g \in Files : worktree'[g] = IF g = f THEN newest + 1 ELSE worktree[g]
    BY <2>1, <2>2
  <2> QED
    BY <2>2, <2>3 DEF Newest
<1>3. CASE Environment /\ ~\E f \in Files : Edit(f)
  <2>1. UNCHANGED <<worktree, newest>>
    BY <1>3 DEF Environment, Call, BackgroundSnapshot, Crash, ExternalLock, ExternalWrite, ExternalCommit,
                Commit, RemoveStaleLock, storeVars, boundVars
  <2> QED
    BY <1>1, <2>1
<1>4. ASSUME NEW r \in Requests, Handle(r) PROVE UNCHANGED <<worktree, newest>>
  <2>1. CASE Arrive(r) \/ Enter(r) \/ Finally(r) \/ TakeLock(r) \/ ReadGit(r) \/ ReadFiles(r)
    BY <2>1 DEF Arrive, Enter, Finally, TakeLock, ReadGit, ReadFiles, storeVars, boundVars
  <2>2. CASE IncompleteStatus(r) \/ Check(r) \/ CopyIndex(r) \/ RereadIndex(r) \/ Publish(r)
    BY <2>2 DEF IncompleteStatus, Check, CopyIndex, RereadIndex, Publish, storeVars, boundVars
  <2>3. CASE \E f \in Files : BuildEntry(r, f) \/ VerifyContent(r, f)
    BY <2>3 DEF BuildEntry, VerifyContent, storeVars, boundVars
  <2>4. CASE RunGit(r) \/ RunGitClean(r)
    <3>1. kind[r] \in StageKinds \cup {"commit"} /\ kind[r] \notin StageKinds
      BY <2>4 DEF RunGit, RunGitClean, Typed, Progress, ProgressOf, Live, ContentsGrow
    <3>2. kind[r] = "commit"
      BY <3>1
    <3>3. ~RunGitClean(r)
      BY <3>2 DEF RunGitClean, CleansAfterReset
    <3>4. Commit /\ UNCHANGED boundVars
      BY <2>4, <3>2, <3>3 DEF RunGit
    <3> QED
      BY <3>4 DEF Commit, boundVars
  <2>5. CASE GitRefuses(r) \/ After(r) \/ Throws(r)
    BY <2>5 DEF GitRefuses, After, Throws, storeVars, boundVars
  <2> QED
    BY <1>4, <2>1, <2>2, <2>3, <2>4, <2>5 DEF Handle
<1>5. CASE UNCHANGED vars
  BY <1>1, <1>5 DEF vars, storeVars, boundVars
<1> QED
  BY <1>1, <1>2, <1>3, <1>4, <1>5 DEF Next

\* While a staging mutation works nobody commits.
LEMMA TreesFrozen ==
  ASSUME Typed, LockDiscipline, NEW r \in Requests, Guarded(r), [Next]_vars
  PROVE  UNCHANGED tree
<1>1. ~Commit
  BY DEF Guarded, LockDiscipline, StagingHoldsLock, Holds, Commit, CanCommit, Locked
<1>2. CASE UNCHANGED vars
  BY <1>2 DEF vars, storeVars, historyVars
<1>3. CASE Environment
  BY <1>1, <1>3 DEF Environment, Call, BackgroundSnapshot, Crash, Edit, ExternalLock, ExternalWrite,
                    ExternalCommit, RemoveStaleLock, storeVars, historyVars
<1>4. ASSUME NEW q \in Requests, Handle(q)
      PROVE  UNCHANGED tree
  <2>1. CASE Arrive(q) \/ Enter(q) \/ Finally(q) \/ TakeLock(q) \/ ReadGit(q) \/ ReadFiles(q)
    BY <2>1 DEF Arrive, Enter, Finally, TakeLock, ReadGit, ReadFiles, storeVars, historyVars
  <2>2. CASE IncompleteStatus(q) \/ Check(q) \/ CopyIndex(q) \/ RereadIndex(q) \/ Publish(q)
    BY <2>2 DEF IncompleteStatus, Check, CopyIndex, RereadIndex, Publish, storeVars, historyVars
  <2>3. CASE \E f \in Files : BuildEntry(q, f) \/ VerifyContent(q, f)
    BY <2>3 DEF BuildEntry, VerifyContent, storeVars, historyVars
  <2>4. CASE RunGit(q) \/ RunGitClean(q)
    BY <1>1, <2>4 DEF RunGit, RunGitClean, CheckoutDetached, CheckoutBranch, StashPush, StashPop,
                      StashConflict, Checkout, ResetMixedToParent, ResetHard, CleanUntracked, historyVars
  <2>5. CASE GitRefuses(q) \/ After(q) \/ Throws(q)
    BY <2>5 DEF GitRefuses, After, Throws, storeVars, historyVars
  <2> QED
    BY <1>4, <2>1, <2>2, <2>3, <2>4, <2>5 DEF Handle
<1> QED
  BY <1>2, <1>3, <1>4 DEF Next

\* The prospective entry of a target: for "stage" a content no older than the accepted one and no
\* newer than the file; it is the accepted one once that was verified.
BuiltFor(r, f) ==
  \/ /\ kind[r] = "stage" /\ temporary[r].entries[f] \in Nat
     /\ accepted[r].work[f] <= temporary[r].entries[f] /\ temporary[r].entries[f] <= worktree[f]
  \/ kind[r] = "unstage" /\ temporary[r].entries[f] = tree[head][f]
VerifiedFor(r, f) == kind[r] = "stage" => temporary[r].entries[f] = accepted[r].work[f]
ContentOf(r) ==
  /\ phase[r] = "check" => \A f \in snapshot[r].listed : snapshot[r].work[f] <= worktree[f]
  /\ phase[r] \in {"copy", "build", "verify", "reread", "publish"} =>
       \A f \in targets[r] : accepted[r].work[f] \in Nat /\ accepted[r].work[f] <= worktree[f]
  /\ phase[r] = "build" => \A f \in targets[r] \ todo[r] : BuiltFor(r, f)
  /\ phase[r] \in {"verify", "reread", "publish"} => \A f \in targets[r] : BuiltFor(r, f)
  /\ phase[r] = "verify" => \A f \in targets[r] \ todo[r] : VerifiedFor(r, f)
  /\ phase[r] \in {"reread", "publish"} => \A f \in targets[r] : VerifiedFor(r, f)
StagedContent == \A r \in Requests \ standIns : kind[r] \in StageKinds => ContentOf(r)

\* The parts of a snapshot.
LEMMA SnapshotParts ==
  ASSUME NEW snap \in Snapshot
  PROVE  snap.listed \subseteq Files /\ \A f \in Files : snap.work[f] \in Nat
<1>1. snap.listed \subseteq Files /\ snap.work \in [Files -> Contents]
  BY DEF Snapshot, Tree
<1>2. Contents \subseteq Nat
  BY DEF Contents
<1> QED
  BY <1>1, <1>2

\* A file that was read or built stays so while it grows newer.
LEMMA ContentStays ==
  ASSUME Typed, NEW r \in Requests, ContentOf(r), kind[r] \in StageKinds,
         phase[r] \in {"check", "copy", "build", "verify", "reread", "publish"},
         phase'[r] = phase[r], kind'[r] = kind[r], targets'[r] = targets[r], todo'[r] = todo[r],
         accepted'[r] = accepted[r], snapshot'[r] = snapshot[r], temporary'[r] = temporary[r],
         UNCHANGED <<head, tree>>,
         \A f \in Files : worktree[f] \in Nat /\ worktree'[f] \in Nat /\ worktree[f] <= worktree'[f]
  PROVE  ContentOf(r)'
<1>1. targets[r] \subseteq Files
  BY DEF Typed, ServerTypeOK
<1>2. phase[r] = "check" => /\ snapshot[r].listed \subseteq Files
                            /\ \A f \in Files : snapshot[r].work[f] \in Nat
  BY SnapshotParts DEF Typed, Progress, ProgressOf
<1>3. \A f \in targets[r] : accepted[r].work[f] \in Nat /\ accepted[r].work[f] <= worktree[f] =>
        accepted'[r].work[f] \in Nat /\ accepted'[r].work[f] <= worktree'[f]
  BY <1>1
<1>4. \A f \in targets[r] : BuiltFor(r, f) => BuiltFor(r, f)'
  BY <1>1 DEF BuiltFor
<1>5. \A f \in targets[r] : VerifiedFor(r, f) => VerifiedFor(r, f)'
  BY DEF VerifiedFor
<1>6. phase[r] = "check" => \A f \in snapshot'[r].listed : snapshot'[r].work[f] <= worktree'[f]
  BY <1>2 DEF ContentOf
<1> QED
  BY <1>3, <1>4, <1>5, <1>6 DEF ContentOf

\* Every step keeps it that a prospective entry lies between the accepted content and the file's.
LEMMA StagedContentStep ==
  ASSUME ContentsGrow, Typed, LockDiscipline, BuiltOver, SeenStill, CleansAfterReset,
         Newest, StagedContent, [Next]_vars
  PROVE  StagedContent'
<1> DEFINE Later == {"check", "copy", "build", "verify", "reread", "publish"}
<1> SUFFICES ASSUME NEW r \in Requests \ standIns', kind'[r] \in StageKinds
             PROVE  ContentOf(r)'
  BY DEF StagedContent
<1> SUFFICES ASSUME phase'[r] \in Later
             PROVE  ContentOf(r)'
  BY DEF ContentOf
<1> r \notin standIns /\ ~IncompleteStatus(r)
  BY FreshBefore
<1>2. \A f \in Files : worktree[f] \in Nat /\ worktree'[f] \in Nat /\ worktree[f] <= worktree'[f]
  BY WorktreeGrows DEF Newest
<1>3. CASE ~Handle(r)
  <2>1. Live(r)
    BY <1>3, OthersSteps DEF Live
  <2>2. /\ phase'[r] = phase[r] /\ kind'[r] = kind[r] /\ targets'[r] = targets[r] /\ todo'[r] = todo[r]
        /\ accepted'[r] = accepted[r] /\ snapshot'[r] = snapshot[r] /\ temporary'[r] = temporary[r]
    BY <1>3, <2>1, OwnSteps
  <2>3. Guarded(r) /\ ContentOf(r)
    BY <1>3, <2>2 DEF Guarded, Underway, StagedContent
  <2>4. UNCHANGED <<head, tree>>
    BY <2>3, Frozen, TreesFrozen
  <2> QED
    BY <1>2, <1>3, <2>2, <2>3, <2>4, ContentStays
<1>4. CASE ReadFiles(r)
  <2>1. /\ snapshot[r] \in Snapshot /\ UNCHANGED <<worktree, kind>>
        /\ phase' = [phase EXCEPT ![r] = "check"]
        /\ snapshot' = [snapshot EXCEPT ![r] = [snapshot[r] EXCEPT !.work =
                    [f \in Files |-> IF f \in snapshot[r].listed THEN worktree[f] ELSE @[f]]]]
    BY <1>4 DEF ReadFiles, Goto, Typed, Progress, ProgressOf, storeVars, callVars
  <2>2. phase'[r] = "check" /\ snapshot'[r].listed = snapshot[r].listed /\ snapshot[r].listed \subseteq Files
        /\ \A f \in snapshot[r].listed : snapshot'[r].work[f] = worktree[f]
    BY <2>1 DEF Snapshot, Typed, ServerTypeOK
  <2> QED
    BY <1>2, <2>1, <2>2 DEF ContentOf
<1>5. CASE Check(r)
  <2>1. /\ phase[r] = "check" /\ phase'[r] = "copy" /\ snapshot[r] = accepted[r]
        /\ targets[r] \subseteq snapshot[r].listed /\ kind[r] \in StageKinds
        /\ UNCHANGED <<worktree, accepted, targets>>
    <3>1. phase[r] = "check" /\ UNCHANGED <<worktree, accepted, targets, kind>> /\ kind[r] \in StageKinds
      BY <1>5 DEF Check, storeVars, callVars
    <3>2. phase'[r] # "finally"
      BY <1>5
    <3>3. ~Goto(r, "finally")
      BY <3>2 DEF Goto, Typed, ServerTypeOK
    <3>4. SameRevision(r) /\ Admissible(r) /\ Goto(r, "copy")
      BY <1>5, <3>1, <3>3 DEF Check, Answer
    <3>5. StagingAdmissible(r)
      <4>1. kind[r] # "commit"
        BY <3>1 DEF StageKinds
      <4> QED
        BY <3>1, <3>4, <4>1, Zenon DEF Admissible
    <3> QED
      BY <3>1, <3>4, <3>5 DEF SameRevision, StagingAdmissible, Goto, Typed, ServerTypeOK
  <2>2. \A f \in targets[r] : accepted[r].work[f] \in Nat /\ accepted[r].work[f] <= worktree[f]
    <3>1. snapshot[r] \in Snapshot /\ ContentOf(r)
      BY <2>1 DEF StagedContent, Typed, Progress, ProgressOf
    <3> QED
      BY <2>1, <3>1, SnapshotParts DEF ContentOf
  <2> QED
    BY <2>1, <2>2 DEF ContentOf
<1>6. CASE CopyIndex(r)
  <2>1. /\ phase[r] = "copy" /\ phase'[r] = "build" /\ todo'[r] = targets[r] /\ UNCHANGED <<worktree, accepted, targets, kind>>
    BY <1>6 DEF CopyIndex, Goto, storeVars, callVars, Typed, ServerTypeOK
  <2> QED
    BY <2>1 DEF ContentOf, StagedContent
<1>7. ASSUME NEW f \in Files, BuildEntry(r, f)
      PROVE  ContentOf(r)'
  <2>1. /\ phase[r] = "build" /\ f \in todo[r] /\ kind[r] \in StageKinds /\ temporary[r] \in Index
        /\ UNCHANGED <<worktree, head, tree, accepted, targets, kind>> /\ ContentOf(r)
    BY <1>7 DEF BuildEntry, StagedContent, Typed, Progress, ProgressOf, storeVars, historyVars, callVars
  <2>2. snapshot[r].head = head
    BY <2>1 DEF SeenStill, Seen
  <2>3. f \in targets[r] /\ targets[r] \subseteq Files
    BY <2>1 DEF BuiltOver, Over, Typed, ServerTypeOK
  <2>4. /\ temporary'[r].entries[f] = NewEntry(r, f)
        /\ \A g \in Files \ {f} : temporary'[r].entries[g] = temporary[r].entries[g]
    BY <1>7, <2>1 DEF BuildEntry, Index, Tree, Typed, ServerTypeOK
  <2>5. BuiltFor(r, f)'
    <3>1. CASE kind[r] = "stage"
      <4>1. temporary'[r].entries[f] = worktree[f]
        BY <2>4, <3>1 DEF NewEntry
      <4>2. accepted[r].work[f] \in Nat /\ accepted[r].work[f] <= worktree[f] /\ worktree[f] \in Nat
        BY <1>2, <2>1, <2>3 DEF ContentOf
      <4> QED
        BY <2>1, <3>1, <4>1, <4>2 DEF BuiltFor
    <3>2. CASE kind[r] # "stage"
      <4>1. kind[r] = "unstage"
        BY <2>1, <3>2 DEF StageKinds
      <4> QED
        BY <2>1, <2>2, <2>4, <3>2, <4>1 DEF NewEntry, BuiltFor
    <3> QED
      BY <3>1, <3>2
  <2>6. \A g \in targets[r] \ todo[r] : BuiltFor(r, g)'
    <3>1. \A g \in targets[r] \ todo[r] : BuiltFor(r, g) /\ g \in Files \ {f}
      BY <2>1, <2>3 DEF ContentOf
    <3> QED
      BY <2>1, <2>4, <3>1 DEF BuiltFor
  <2>7. \A g \in targets[r] : accepted'[r].work[g] \in Nat /\ accepted'[r].work[g] <= worktree'[g]
    BY <2>1 DEF ContentOf
  <2>8. CASE todo[r] = {f}
    <3>1. phase'[r] = "verify" /\ todo'[r] = targets[r]
      BY <1>7, <2>8 DEF BuildEntry, Goto, Typed, ServerTypeOK
    <3> QED
      BY <2>1, <2>5, <2>6, <2>7, <2>8, <3>1 DEF ContentOf
  <2>9. CASE todo[r] # {f}
    <3>1. phase'[r] = "build" /\ todo'[r] = todo[r] \ {f}
      BY <1>7, <2>1, <2>9 DEF BuildEntry, Typed, ServerTypeOK
    <3> QED
      BY <2>1, <2>5, <2>6, <2>7, <3>1 DEF ContentOf
  <2> QED
    BY <2>8, <2>9
<1>8. ASSUME NEW f \in Files, VerifyContent(r, f)
      PROVE  ContentOf(r)'
  <2>1. /\ phase[r] = "verify" /\ f \in todo[r] /\ kind[r] \in StageKinds
        /\ UNCHANGED <<worktree, head, tree, accepted, targets, kind, temporary>> /\ ContentOf(r)
    BY <1>8 DEF VerifyContent, StagedContent, Typed, Progress, ProgressOf, storeVars, historyVars, callVars
  <2>2. /\ SameContent(r, f) /\ todo'[r] = todo[r] \ {f}
        /\ phase'[r] = IF todo[r] = {f} THEN "reread" ELSE "verify"
    BY <1>8 DEF VerifyContent, Answer, Goto, Typed, ServerTypeOK
  <2>3. f \in targets[r] => VerifiedFor(r, f)
    BY <1>2, <2>1, <2>2 DEF ContentOf, BuiltFor, VerifiedFor, SameContent
  <2>4. \A g \in targets[r] : /\ BuiltFor(r, g)' /\ accepted'[r].work[g] \in Nat
                              /\ accepted'[r].work[g] <= worktree'[g]
    BY <2>1 DEF ContentOf, BuiltFor
  <2>5. \A g \in targets[r] \ (todo[r] \ {f}) : VerifiedFor(r, g)'
    BY <2>1, <2>3 DEF ContentOf, VerifiedFor
  <2>6. CASE todo[r] = {f}
    BY <2>1, <2>2, <2>4, <2>5, <2>6 DEF ContentOf
  <2>7. CASE todo[r] # {f}
    BY <2>1, <2>2, <2>4, <2>5, <2>7 DEF ContentOf
  <2> QED
    BY <2>6, <2>7
<1>9. CASE RereadIndex(r)
  <2>1. /\ phase[r] = "reread" /\ phase'[r] = "publish"
        /\ UNCHANGED <<worktree, head, tree, accepted, targets, kind, temporary>> /\ ContentOf(r)
    BY <1>9 DEF RereadIndex, Answer, Goto, StagedContent, Typed, ServerTypeOK, storeVars, historyVars, callVars
  <2> QED
    BY <2>1 DEF ContentOf, BuiltFor, VerifiedFor
<1>10. CASE Handle(r) /\ ~(\/ ReadFiles(r) \/ Check(r) \/ CopyIndex(r) \/ RereadIndex(r)
                           \/ \E f \in Files : BuildEntry(r, f) \/ VerifyContent(r, f))
  <2>1. CASE Arrive(r) \/ Enter(r) \/ Finally(r) \/ TakeLock(r) \/ ReadGit(r)
    <3>1. phase'[r] \in {"queued", "lock", "readGit", "readFiles", "done", "finally"}
      BY <2>1 DEF Arrive, Enter, Finally, TakeLock, ReadGit, Answer, Goto, Typed, ServerTypeOK
    <3> QED
      BY <3>1
  <2>2. CASE Publish(r) \/ RunGit(r) \/ RunGitClean(r) \/ GitRefuses(r) \/ After(r) \/ Throws(r)
    <3>1. phase'[r] \in {"git clean", "after", "finally"}
      BY <2>2 DEF Publish, RunGit, RunGitClean, GitRefuses, After, Throws, Answer, Goto, Typed, ServerTypeOK
    <3> QED
      BY <3>1
  <2> QED
    BY <1>10, <2>1, <2>2 DEF Handle
<1> QED
  BY <1>3, <1>4, <1>5, <1>6, <1>7, <1>8, <1>9, <1>10

\* So what is published for a target is the content whose revision the client accepted, or HEAD's entry:
\* an edit between the reading of the file and the renaming of the index is not staged unseen.
THEOREM AcceptedIsStaged ==
  ASSUME ContentsGrow
  PROVE  Spec => AcceptedContentStaged
<1> DEFINE I == SeenStill /\ CleansAfterReset /\ Newest /\ StagedContent
           Right == \A r \in Requests : Publishes(r) /\ r \notin standIns => \A f \in targets[r] :
             index'.entries[f] = IF kind[r] = "stage" THEN accepted[r].work[f] ELSE tree[head][f]
<1>1. Init => I
  <2> SUFFICES ASSUME Init
               PROVE  I
    OBVIOUS
  <2>1. SeenStill /\ CleansAfterReset /\ StagedContent
    BY DEF Init, SeenStill, CleansAfterReset, StagedContent, ContentOf
  <2>2. Newest
    BY DEF Init, StoreInit, Newest
  <2> QED
    BY <2>1, <2>2
<1>2. Typed /\ LockDiscipline /\ BuiltOver /\ I /\ [Next]_vars => I'
  BY SeenStep, CleansStep, WorktreeGrows, StagedContentStep
<1>3. Typed /\ I /\ [Next]_vars => Right
  <2> SUFFICES ASSUME Typed, I, [Next]_vars, NEW r \in Requests \ standIns, Publishes(r),
                      NEW f \in targets[r]
               PROVE  index'.entries[f] = IF kind[r] = "stage" THEN accepted[r].work[f] ELSE tree[head][f]
    OBVIOUS
  <2>1. Publish(r) /\ phase[r] = "publish"
    BY PublishesOnly DEF Publishes
  <2>2. kind[r] \in StageKinds /\ index' = temporary[r]
    BY <2>1 DEF Publish, Typed, Progress, ProgressOf
  <2>3. BuiltFor(r, f) /\ VerifiedFor(r, f)
    BY <2>1, <2>2 DEF StagedContent, ContentOf
  <2> QED
    BY <2>2, <2>3 DEF BuiltFor, VerifiedFor
<1> QED
  BY <1>1, <1>2, <1>3, BuiltOverInvariant, PTL DEF Spec, AcceptedContentStaged
=============================================================================
