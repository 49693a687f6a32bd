------------------------- MODULE RepositoryMutations -------------------------
(***************************************************************************)
(* The mutations of one Git repository that Couchview servers perform:     *)
(* staging and unstaging whole files, committing, and the Git workspace    *)
(* actions (GitRepository.updateStageTargets and commit,                   *)
(* RepositoryGitActions.perform), serialised within one server process by  *)
(* its RepositoryMutationCoordinator.  Around them act an editor of the    *)
(* working tree, another Git client, further Couchview servers over the    *)
(* same repository, and process crashes.                                   *)
(*                                                                         *)
(* A request carries the snapshot its client last accepted.  Every await   *)
(* of the code that lets another actor in separates two actions here.      *)
(***************************************************************************)
EXTENDS GitStore

CONSTANTS
  Servers,          \* the server processes that have the repository open
  Kinds,            \* the mutations clients ask for in this configuration
  MaxExternal,      \* bound: commands of the other Git client
  MaxCrashes,       \* bound: server crashes
  EditorMayRevert,  \* may the editor write a content that existed before?
  StatusMayFail     \* may `git status` produce no identity twice in a row?

StageKinds  == {"stage", "unstage"}
ActionKinds == {"checkout", "return", "stash", "restore-stash", "undo-last-commit", "clean"}
AllKinds    == StageKinds \cup {"commit"} \cup ActionKinds

ASSUME MutationAssumption ==
  /\ Kinds \subseteq AllKinds
  /\ None \notin Servers
  /\ MaxExternal \in Nat /\ MaxCrashes \in Nat
  /\ EditorMayRevert \in BOOLEAN /\ StatusMayFail \in BOOLEAN

\* What an operation revision identifies: HEAD, the branch, the index, and
\* for each listed path its content revision.  A path Git did not list
\* counts as unmodified.
Snapshot == [head : CommitIds, detached : BOOLEAN, index : Index,
             listed : SUBSET Files, work : Tree]

Phases == {"idle", "called", "queued", "lock", "readGit", "readFiles", "check", "copy", "build",
           "verify", "reread", "publish", "git", "git clean", "after", "finally", "done", "lost"}
Replies == {None, "ok", "locked", "changed", "refused", "error"}

VARIABLES
  server,     \* the server a request is sent to
  kind,       \* what it asks for
  targets,    \* the files to stage or unstage
  goal,       \* the commit to check out
  accepted,   \* the snapshot whose revision the request carries
  phase,      \* the next step of its handler
  snapshot,   \* the handler's fresh snapshot
  original,   \* the index it read before building
  temporary,  \* the prospective index in its temporary file
  todo,       \* the targets the current loop has left
  reply,      \* the outcome of the request
  queue,      \* per server, the mutations chained by its coordinator
  last,       \* per server, RepositorySnapshotService.lastSnapshot
  newest,     \* the newest content the editor has written
  externals,  \* commands the other Git client has made
  crashes,    \* crashes so far
  standIns    \* history: requests served the last snapshot in place of a fresh one

callVars    == <<server, kind, targets, goal>>
handlerVars == <<accepted, phase, snapshot, original, temporary, todo, reply>>
serverVars  == <<queue, last>>
boundVars   == <<newest, externals, crashes, standIns>>
vars == <<storeVars, callVars, handlerVars, serverVars, boundVars>>

TypeOK ==
  /\ StoreTypeOK
  /\ server \in [Requests -> Servers \cup {None}]
  /\ kind \in [Requests -> Kinds \cup {None}]
  /\ targets \in [Requests -> SUBSET Files]
  /\ goal \in [Requests -> CommitIds]
  /\ accepted \in [Requests -> Snapshot \cup {None}]
  /\ phase \in [Requests -> Phases]
  /\ snapshot \in [Requests -> Snapshot \cup {None}]
  /\ original \in [Requests -> Index \cup {None}]
  /\ temporary \in [Requests -> Index \cup {None}]
  /\ todo \in [Requests -> SUBSET Files]
  /\ reply \in [Requests -> Replies]
  /\ queue \in [Servers -> Seq(Requests)]
  /\ last \in [Servers -> Snapshot \cup {None}]
  /\ newest \in Contents /\ externals \in 0..MaxExternal /\ crashes \in 0..MaxCrashes
  /\ standIns \subseteq Requests

Init ==
  /\ StoreInit
  /\ server = [r \in Requests |-> None] /\ kind = [r \in Requests |-> None]
  /\ targets = [r \in Requests |-> {}] /\ goal = [r \in Requests |-> Unborn]
  /\ accepted = [r \in Requests |-> None]
  /\ phase = [r \in Requests |-> "idle"]
  /\ snapshot = [r \in Requests |-> None]
  /\ original = [r \in Requests |-> None] /\ temporary = [r \in Requests |-> None]
  /\ todo = [r \in Requests |-> {}]
  /\ reply = [r \in Requests |-> None]
  /\ queue = [s \in Servers |-> <<>>] /\ last = [s \in Servers |-> None]
  /\ newest = 1 /\ externals = 0 /\ crashes = 0 /\ standIns = {}

-----------------------------------------------------------------------------
(* Helpers.                                                                *)

Goto(r, p)      == phase' = [phase EXCEPT ![r] = p]
Answer(r, with) == Goto(r, "finally") /\ reply' = [reply EXCEPT ![r] = with]

CurrentSnapshot ==
  [head |-> head, detached |-> detached, index |-> index, listed |-> Changed,
   work |-> [f \in Files |-> IF f \in Changed THEN worktree[f] ELSE index.entries[f]]]

\* lastSnapshot is kept only where a status read may fail: nothing else here reads it.
Remember(s, snap) == last' = IF StatusMayFail THEN [last EXCEPT ![s] = snap] ELSE last

Holds(r) == lock = r

-----------------------------------------------------------------------------
(* A client's request, and the coordinator.                                *)

\* The client acts on the repository as it is now; the request is delivered later.
Call(r) ==
  /\ phase[r] = "idle"
  /\ \E s \in Servers, k \in Kinds, T \in SUBSET Changed, c \in CommitIds :
       /\ IF k \in StageKinds THEN T # {} ELSE T = {}
       /\ IF k = "checkout" THEN c \in 1..commits ELSE c = Unborn
       /\ server' = [server EXCEPT ![r] = s]
       /\ kind' = [kind EXCEPT ![r] = k]
       /\ targets' = [targets EXCEPT ![r] = T]
       /\ goal' = [goal EXCEPT ![r] = c]
  /\ accepted' = [accepted EXCEPT ![r] = CurrentSnapshot]
  /\ Goto(r, "called")
  /\ UNCHANGED <<storeVars, snapshot, original, temporary, todo, reply, serverVars, boundVars>>

\* RepositoryMutationCoordinator.run: chain behind the mutations already there.
Arrive(r) ==
  /\ phase[r] = "called"
  /\ queue' = [queue EXCEPT ![server[r]] = Append(@, r)]
  /\ Goto(r, "queued")
  /\ UNCHANGED <<storeVars, callVars, accepted, snapshot, original, temporary, todo, reply,
                 last, boundVars>>

\* Mutant of IsTurn: the coordinator does not chain.
NoTurns(r) == TRUE
IsTurn(r) == queue[server[r]] # <<>> /\ Head(queue[server[r]]) = r

Enter(r) ==
  /\ phase[r] = "queued"
  /\ IsTurn(r)
  /\ Goto(r, IF kind[r] \in StageKinds THEN "lock" ELSE "readGit")
  /\ UNCHANGED <<storeVars, callVars, accepted, snapshot, original, temporary, todo, reply,
                 serverVars, boundVars>>

\* Mutant of LockGivenBack: the finally block forgets the lock.
LockKept(r)      == lock
LockGivenBack(r) == IF Holds(r) THEN None ELSE lock

\* Mutant of TurnReleased: release() is not called.
TurnKept(r)     == queue
TurnReleased(r) == [queue EXCEPT ![server[r]] = Tail(@)]

\* The finally blocks: give back an owned lock, drop the temporary index,
\* and release the next mutation of the chain.
Finally(r) ==
  /\ phase[r] = "finally"
  /\ lock' = LockGivenBack(r)
  /\ queue' = TurnReleased(r)
  /\ Goto(r, "done")
  /\ accepted' = [accepted EXCEPT ![r] = None] /\ snapshot' = [snapshot EXCEPT ![r] = None]
  /\ original' = [original EXCEPT ![r] = None] /\ temporary' = [temporary EXCEPT ![r] = None]
  /\ todo' = [todo EXCEPT ![r] = {}]
  /\ standIns' = standIns \ {r}
  /\ UNCHANGED <<worktree, index, historyVars, stash, callVars, reply, last, newest, externals,
                 crashes>>

-----------------------------------------------------------------------------
(* Steps every mutation shares: a fresh snapshot and the revision check.   *)

\* open(index.lock, "wx").  Mutant: open without "x", over a lock that exists.
LockTruncated == TRUE
LockCreated   == lock = None

TakeLock(r) ==
  /\ phase[r] = "lock"
  /\ \/ /\ LockCreated
        /\ lock' = r
        /\ Goto(r, "readGit") /\ UNCHANGED reply
     \/ /\ ~LockCreated
        /\ Answer(r, "locked") /\ UNCHANGED lock
  /\ UNCHANGED <<worktree, index, historyVars, stash, callVars, accepted, snapshot, original,
                 temporary, todo, serverVars, boundVars>>

\* `git status` and `git diff-index`, run together.
ReadGit(r) ==
  /\ phase[r] = "readGit"
  /\ snapshot' = [snapshot EXCEPT ![r] = [CurrentSnapshot EXCEPT !.work = index.entries]]
  /\ Goto(r, "readFiles")
  /\ UNCHANGED <<storeVars, callVars, accepted, original, temporary, todo, reply, serverVars,
                 boundVars>>

\* The content revisions of the listed files, read after the status.
ReadFiles(r) ==
  /\ phase[r] = "readFiles"
  /\ LET snap == [snapshot[r] EXCEPT !.work =
                    [f \in Files |-> IF f \in snapshot[r].listed THEN worktree[f] ELSE @[f]]]
     IN /\ snapshot' = [snapshot EXCEPT ![r] = snap]
        /\ Remember(server[r], snap)
  /\ Goto(r, "check")
  /\ UNCHANGED <<storeVars, callVars, accepted, original, temporary, todo, reply, queue, boundVars>>

\* A status without an identity, twice: the last verified snapshot is served instead.
IncompleteStatus(r) ==
  /\ StatusMayFail
  /\ phase[r] = "readGit"
  /\ \/ /\ last[server[r]] # None
        /\ snapshot' = [snapshot EXCEPT ![r] = last[server[r]]]
        /\ standIns' = standIns \cup {r}
        /\ Goto(r, "check") /\ UNCHANGED reply
     \/ /\ last[server[r]] = None
        /\ Answer(r, "error") /\ UNCHANGED <<snapshot, standIns>>
  /\ UNCHANGED <<storeVars, callVars, accepted, original, temporary, todo, serverVars, newest,
                 externals, crashes>>

Reachable(c, from) ==
  LET up[n \in CommitIds] == \/ n = c
                             \/ n # Unborn /\ parent[n] < n /\ up[parent[n]]
  IN up[from]

\* What each mutation demands of the snapshot, and of Git's own records.
StagingAdmissible(r) == targets[r] \subseteq snapshot[r].listed
CommitAdmissible(r) ==
  snapshot[r].index.unmerged = {} /\ snapshot[r].index.entries # tree[snapshot[r].head]
ActionAdmissible(r) ==
  LET snap == snapshot[r]
  IN CASE kind[r] = "checkout"   -> /\ snap.listed = {}
                                    /\ Reachable(goal[r], head) \/ Reachable(goal[r], tip)
       [] kind[r] = "return"     -> snap.listed = {} /\ snap.detached /\ fromBranch
       [] kind[r] = "stash"      -> snap.listed # {} /\ snap.index.unmerged = {}
       [] kind[r] = "restore-stash"    -> snap.listed = {} /\ stash # <<>>
       [] kind[r] = "undo-last-commit" -> ~snap.detached /\ parent[head] # Unborn
       [] kind[r] = "clean"      -> snap.head # Unborn
       [] OTHER                  -> FALSE
Admissible(r) == CASE kind[r] \in StageKinds -> StagingAdmissible(r)
                   [] kind[r] = "commit"     -> CommitAdmissible(r)
                   [] OTHER                  -> ActionAdmissible(r)

\* Mutant of SameRevision: the revision is not compared.
AnyRevision(r)  == TRUE
SameRevision(r) == snapshot[r] = accepted[r]

Check(r) ==
  /\ phase[r] = "check"
  /\ \/ ~SameRevision(r) /\ Answer(r, "changed")
     \/ SameRevision(r) /\ ~Admissible(r) /\ Answer(r, "refused")
     \/ /\ SameRevision(r) /\ Admissible(r)
        /\ Goto(r, IF kind[r] \in StageKinds THEN "copy" ELSE "git")
        /\ UNCHANGED reply
  /\ UNCHANGED <<storeVars, callVars, accepted, snapshot, original, temporary, todo, serverVars,
                 boundVars>>

-----------------------------------------------------------------------------
(* Staging and unstaging, under the index lock.                            *)

CopyIndex(r) ==
  /\ phase[r] = "copy"
  /\ original' = [original EXCEPT ![r] = index]
  /\ temporary' = [temporary EXCEPT ![r] = index]
  /\ todo' = [todo EXCEPT ![r] = targets[r]]
  /\ Goto(r, "build")
  /\ UNCHANGED <<storeVars, callVars, accepted, snapshot, reply, serverVars, boundVars>>

\* The entry a target gets: the file as it is now, or the one of the snapshot's HEAD.
\* Mutant: no entry at all instead of HEAD's.
NoEntry(r, f)  == IF kind[r] = "stage" THEN worktree[f] ELSE None
NewEntry(r, f) == IF kind[r] = "stage" THEN worktree[f] ELSE tree[snapshot[r].head][f]

BuildEntry(r, f) ==
  /\ phase[r] = "build"
  /\ f \in todo[r]
  /\ temporary' = [temporary EXCEPT ![r] = [entries  |-> [@.entries EXCEPT ![f] = NewEntry(r, f)],
                                            unmerged |-> @.unmerged \ {f}]]
  /\ IF todo[r] = {f}
     THEN todo' = [todo EXCEPT ![r] = targets[r]] /\ Goto(r, "verify")
     ELSE todo' = [todo EXCEPT ![r] = @ \ {f}] /\ UNCHANGED phase
  /\ UNCHANGED <<storeVars, callVars, accepted, snapshot, original, reply, serverVars, boundVars>>

\* The content revision again, without its cache.  Mutant: a cached revision is trusted.
CachedContent(r, f) == TRUE
SameContent(r, f)   == worktree[f] = accepted[r].work[f]

VerifyContent(r, f) ==
  /\ phase[r] = "verify"
  /\ f \in todo[r]
  /\ \/ /\ SameContent(r, f)
        /\ todo' = [todo EXCEPT ![r] = @ \ {f}]
        /\ IF todo[r] = {f} THEN Goto(r, "reread") ELSE UNCHANGED phase
        /\ UNCHANGED reply
     \/ /\ ~SameContent(r, f)
        /\ Answer(r, "changed") /\ UNCHANGED todo
  /\ UNCHANGED <<storeVars, callVars, accepted, snapshot, original, temporary, serverVars,
                 boundVars>>

\* bytesEqual(originalIndex, currentIndex)
RereadIndex(r) ==
  /\ phase[r] = "reread"
  /\ \/ index = original[r] /\ Goto(r, "publish") /\ UNCHANGED reply
     \/ index # original[r] /\ Answer(r, "changed")
  /\ UNCHANGED <<storeVars, callVars, accepted, snapshot, original, temporary, todo, serverVars,
                 boundVars>>

\* rename(index.lock, index): the new index appears as the lock disappears.
Publish(r) ==
  /\ phase[r] = "publish"
  /\ index' = temporary[r]
  /\ lock' = None
  /\ Goto(r, "after")
  /\ UNCHANGED <<worktree, historyVars, stash, callVars, accepted, snapshot, original, temporary,
                 todo, reply, serverVars, boundVars>>

-----------------------------------------------------------------------------
(* Committing and the Git workspace actions: one Git command after the     *)
(* check, two for "clean".  Git takes the index lock itself.               *)

\* `checkout --detach`, which refuses to overwrite a change.  Mutant: `checkout --force`.
ForcedCheckout(c) ==
  /\ ~Locked
  /\ worktree' = tree[c] /\ index' = Clean(tree[c])
  /\ head' = c /\ detached' = TRUE /\ fromBranch' = ~detached
  /\ UNCHANGED <<lock, tree, parent, commits, tip, stash>>
Checkout(c) == CheckoutDetached(c)

RunGit(r) ==
  /\ phase[r] = "git"
  /\ \/ kind[r] = "commit"           /\ Commit
     \/ kind[r] = "checkout"         /\ Checkout(goal[r])
     \/ kind[r] = "return"           /\ CheckoutBranch
     \/ kind[r] = "stash"            /\ StashPush
     \/ kind[r] = "restore-stash"    /\ (StashPop \/ StashConflict)
     \/ kind[r] = "undo-last-commit" /\ ResetMixedToParent
     \/ kind[r] = "clean"            /\ ResetHard
  /\ Goto(r, IF kind[r] = "clean" THEN "git clean" ELSE "after")
  /\ UNCHANGED <<callVars, accepted, snapshot, original, temporary, todo, reply, serverVars,
                 boundVars>>

RunGitClean(r) ==
  /\ phase[r] = "git clean"
  /\ CleanUntracked
  /\ Goto(r, "after")
  /\ UNCHANGED <<callVars, accepted, snapshot, original, temporary, todo, reply, serverVars,
                 boundVars>>

\* A command that meets index.lock is answered 423; any may fail for reasons of its own.  A
\* failed pop over a repository that changed meanwhile is taken for a conflict.
GitRefuses(r) ==
  /\ phase[r] \in {"git", "git clean"}
  /\ \/ Answer(r, IF Locked THEN "locked" ELSE "error") /\ UNCHANGED last
     \/ /\ kind[r] = "restore-stash" /\ CurrentSnapshot # snapshot[r]
        /\ Answer(r, "ok") /\ Remember(server[r], CurrentSnapshot)
  /\ UNCHANGED <<storeVars, callVars, accepted, snapshot, original, temporary, todo, queue, boundVars>>

-----------------------------------------------------------------------------
(* The end of a mutation, and its failures.                                *)

\* The snapshot the response is made from, perhaps the last verified one;
\* without one the mutation stands and the answer is an error.
After(r) ==
  /\ phase[r] = "after"
  /\ \/ Answer(r, "ok") /\ Remember(server[r], CurrentSnapshot)
     \/ StatusMayFail /\ last[server[r]] # None /\ Answer(r, "ok") /\ UNCHANGED last
     \/ Answer(r, "error") /\ UNCHANGED last
  /\ UNCHANGED <<storeVars, callVars, accepted, snapshot, original, temporary, todo, queue, boundVars>>

\* Any Git command or file operation on the way may throw.
Throws(r) ==
  /\ phase[r] \in {"readGit", "readFiles", "copy", "build", "verify", "reread", "publish"}
  /\ Answer(r, "error")
  /\ UNCHANGED <<storeVars, callVars, accepted, snapshot, original, temporary, todo, serverVars,
                 boundVars>>

-----------------------------------------------------------------------------
(* The other actors.                                                       *)

\* Another request of the server (GET changes, the watcher, the poller) takes a snapshot.
BackgroundSnapshot(s) ==
  /\ StatusMayFail
  /\ last[s] # CurrentSnapshot
  /\ Remember(s, CurrentSnapshot)
  /\ UNCHANGED <<storeVars, callVars, handlerVars, queue, boundVars>>

\* The editor saves a file.
Edit(f) ==
  /\ \E c \in Contents :
       /\ c # worktree[f]
       /\ c = newest + 1 \/ (EditorMayRevert /\ c <= newest)
       /\ worktree' = [worktree EXCEPT ![f] = c]
       /\ newest' = IF c > newest THEN c ELSE newest
  /\ UNCHANGED <<index, lock, historyVars, stash, callVars, handlerVars, serverVars, externals,
                 crashes, standIns>>

\* The other Git client takes the lock, then writes the index, or commits.
ExternalLock ==
  /\ externals < MaxExternal /\ ~Locked
  /\ lock' = External /\ externals' = externals + 1
  /\ UNCHANGED <<worktree, index, historyVars, stash, callVars, handlerVars, serverVars, newest,
                 crashes, standIns>>
ExternalWrite ==
  /\ lock = External /\ lock' = None
  /\ \E f \in Files : index' = [entries  |-> [index.entries EXCEPT ![f] = worktree[f]],
                                unmerged |-> index.unmerged \ {f}]
  /\ UNCHANGED <<worktree, historyVars, stash, callVars, handlerVars, serverVars, boundVars>>
ExternalCommit ==
  /\ externals < MaxExternal /\ Commit
  /\ externals' = externals + 1
  /\ UNCHANGED <<callVars, handlerVars, serverVars, newest, crashes, standIns>>

\* The process dies and starts again: its requests are lost, an index.lock it created stays.
Lost(s) == {r \in Requests : server[r] = s /\ phase[r] \notin {"idle", "called", "done", "lost"}}
Crash(s) ==
  /\ crashes < MaxCrashes /\ crashes' = crashes + 1
  /\ Lost(s) # {}
  /\ phase' = [r \in Requests |-> IF r \in Lost(s) THEN "lost" ELSE phase[r]]
  /\ accepted' = [r \in Requests |-> IF r \in Lost(s) THEN None ELSE accepted[r]]
  /\ snapshot' = [r \in Requests |-> IF r \in Lost(s) THEN None ELSE snapshot[r]]
  /\ original' = [r \in Requests |-> IF r \in Lost(s) THEN None ELSE original[r]]
  /\ temporary' = [r \in Requests |-> IF r \in Lost(s) THEN None ELSE temporary[r]]
  /\ todo' = [r \in Requests |-> IF r \in Lost(s) THEN {} ELSE todo[r]]
  /\ queue' = [queue EXCEPT ![s] = <<>>] /\ last' = [last EXCEPT ![s] = None]
  /\ standIns' = standIns \ Lost(s)
  /\ UNCHANGED <<storeVars, callVars, reply, newest, externals>>

\* The user deletes an index.lock that a dead process left.
RemoveStaleLock ==
  /\ lock \in Requests /\ phase[lock] = "lost"
  /\ lock' = None
  /\ UNCHANGED <<worktree, index, historyVars, stash, callVars, handlerVars, serverVars, boundVars>>

-----------------------------------------------------------------------------
\* A step of the server on behalf of request r.
Handle(r) ==
  \/ Arrive(r) \/ Enter(r) \/ TakeLock(r) \/ ReadGit(r) \/ ReadFiles(r) \/ IncompleteStatus(r)
  \/ Check(r) \/ CopyIndex(r)
  \/ \E f \in Files : BuildEntry(r, f) \/ VerifyContent(r, f)
  \/ RereadIndex(r) \/ Publish(r) \/ RunGit(r) \/ RunGitClean(r) \/ GitRefuses(r)
  \/ After(r) \/ Throws(r) \/ Finally(r)

Environment ==
  \/ \E r \in Requests : Call(r)
  \/ \E s \in Servers : BackgroundSnapshot(s) \/ Crash(s)
  \/ \E f \in Files : Edit(f)
  \/ ExternalLock \/ ExternalWrite \/ ExternalCommit \/ RemoveStaleLock

Next == Environment \/ \E r \in Requests : Handle(r)

Spec == Init /\ [][Next]_vars

\* The event loop runs what is ready, and every Git command ends or is timed out.
FairSpec == Spec /\ \A r \in Requests : WF_vars(Handle(r))

-----------------------------------------------------------------------------
(* Properties.                                                             *)

Underway == {"readGit", "readFiles", "check", "copy", "build", "verify", "reread", "publish"}

\* While a staging mutation works, from taking index.lock to its rename, the lock is its own:
\* nobody else's index write can fall between its revision check and its publication.
StagingHoldsLock ==
  \A r \in Requests : kind[r] \in StageKinds /\ phase[r] \in Underway => Holds(r)

\* index.lock outlives its creator only when the process died: every other way out of a
\* staging mutation (rejection, exception, success) removes it or renames it away.
LockReturned ==
  lock \in Requests => kind[lock] \in StageKinds /\ phase[lock] \in Underway \cup {"finally", "lost"}

Publishes(r) == phase[r] = "publish" /\ phase'[r] = "after"

\* Publishing the prospective index changes the entries of the targets and no other: an index
\* update made by another server or Git client is never lost.
NoLostIndexUpdate ==
  [][\A r \in Requests : Publishes(r) =>
       /\ \A f \in Files \ targets[r] : index'.entries[f] = index.entries[f]
       /\ index'.unmerged \subseteq index.unmerged
       /\ index.unmerged \ index'.unmerged \subseteq targets[r]]_vars

\* "Stale mutations are rejected" (src/README.md): an index is published only over the very
\* HEAD and index whose revision the client accepted, unless the revision check was served the
\* last snapshot for want of a fresh one.
StaleStagingRejected ==
  [][\A r \in Requests : Publishes(r) /\ r \notin standIns =>
       accepted[r].index = index /\ accepted[r].head = head /\ accepted[r].detached = detached]_vars

\* What is staged for a target is the content whose revision the client accepted; what an
\* unstaged target gets back is HEAD's entry, with the same exception.
AcceptedContentStaged ==
  [][\A r \in Requests : Publishes(r) /\ r \notin standIns => \A f \in targets[r] :
       index'.entries[f] = IF kind[r] = "stage" THEN accepted[r].work[f] ELSE tree[head][f]]_vars

\* One server took every request so far, and no other Git client wrote.
Alone == /\ externals = 0
         /\ \A q, r \in Requests : server[q] # None /\ server[r] # None => server[q] = server[r]

\* As long as nobody else writes, a commit or Git workspace action runs on the HEAD and index the
\* client accepted, so that a commit records exactly the staged index the client saw and an undo
\* undoes that commit.  The same exception.
GitRunsOnAcceptedIndex ==
  [][Alone => \A r \in Requests \ standIns :
       phase[r] = "git" /\ phase'[r] \in {"git clean", "after"} =>
       accepted[r].index = index /\ accepted[r].head = head /\ accepted[r].detached = detached]_vars

\* "clean" aside, no mutation loses what the working tree or a stash held of a file: the
\* content stays in the working tree, in a stash, or in a commit.
Kept(f, c) == \/ worktree'[f] = c
              \/ \E n \in CommitIds : tree'[n][f] = c
              \/ \E i \in DOMAIN stash' : stash'[i].work[f] = c
WorkKept ==
  [][\A r \in Requests : phase'[r] # phase[r] /\ kind[r] # "clean" =>
       \A f \in Files : /\ worktree[f] # Absent => Kept(f, worktree[f])
                        /\ \A i \in DOMAIN stash : stash[i].work[f] # Absent => Kept(f, stash[i].work[f])
    ]_vars

\* Within one server process no two mutations are past the coordinator at once.
Active(r) == phase[r] \notin {"idle", "called", "queued", "done", "lost"}
SerialPerServer ==
  \A r1, r2 \in Requests : Active(r1) /\ Active(r2) /\ server[r1] = server[r2] => r1 = r2

\* Every request is answered, in every interleaving of rejections, exceptions and lock
\* conflicts, unless its server process dies: the chain of mutations never stalls.
EveryCallAnswered ==
  \A r \in Requests : phase[r] = "called" ~> phase[r] \in {"done", "lost"}
=============================================================================
