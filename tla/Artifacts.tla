------------------------------ MODULE Artifacts ------------------------------
(***************************************************************************)
(* The artifacts of one repository (ArtifactService, ArtifactStore,        *)
(* ArtifactDatabase): definitions and build rows in SQLite, payload        *)
(* directories beside it, and the runs that execute a definition's command,*)
(* capture its output and record the build.                                *)
(*                                                                         *)
(* A row and its payload are written, evicted and removed in separate      *)
(* steps, by requests of one or several server processes over the same     *)
(* database and directory; a crash may fall between any two.  The runner   *)
(* appears with its status and its rule of one run per command;            *)
(* CommandRunner has the rest of it.  Builds are ordered by their          *)
(* insertion.                                                              *)
(***************************************************************************)
EXTENDS Sequences, Naturals, FiniteSets, Functions, SequencesExt

CONSTANTS
  Servers,       \* server processes over one database
  Artifacts,     \* artifact ids, each a fresh UUID
  Runs,          \* run ids; a run's build has an id of its own, written the same here
  None, Removed,
  MaxRetained,   \* ARTIFACT_RETAINED_BUILDS
  MaxRevision,   \* bound: revisions of a definition
  MaxCrashes,    \* bound: crashes
  MaxErrors      \* bound: failing database transactions

Run == [server : Servers, artifact : Artifacts]

ASSUME ArtifactAssumption ==
  /\ Removed \notin Nat /\ None \notin Run
  /\ MaxRetained \in Nat \ {0} /\ MaxRevision \in Nat \ {0}
  /\ MaxCrashes \in Nat /\ MaxErrors \in Nat

Phases  == {"idle", "opening", "running", "capture", "copying", "captured", "cancelling",
            "evicting", "done"}

VARIABLES
  \* SQLite
  registered,   \* the repository's catalog entry
  definition,   \* revision of each definition, 0 before it is created
  builds,       \* rows of each artifact, newest first
  \* the payload directory
  files,        \* of each build: none, partial or whole
  \* memory of the server processes
  server,       \* starting, sweeping, verifying, serving or down
  expected,     \* the rows a starting server read
  deleted,      \* deletedArtifacts
  removing,     \* artifacts whose directory a deletion has yet to remove
  forgetting,   \* how far a DELETE of the repository is: no, files, row
  \* runs
  run,          \* server and artifact of a run
  phase, stopped, outcome, obsolete,
  late,         \* history: artifacts with a start accepted while the repository was being removed
  crashes, errors

store   == <<registered, definition, builds>>
memory  == <<server, expected, deleted, removing, forgetting>>
runVars == <<run, phase, stopped, outcome, obsolete, late>>
bounds  == <<crashes, errors>>
vars    == <<store, files, memory, runVars, bounds>>

TypeOK ==
  /\ registered \in BOOLEAN
  /\ definition \in [Artifacts -> 0..MaxRevision \cup {Removed}]
  /\ builds \in [Artifacts -> Seq(Runs)]
  /\ files \in [Runs -> {"none", "partial", "whole"}]
  /\ server \in [Servers -> {"sweeping", "verifying", "serving", "down"}]
  /\ expected \in [Servers -> SUBSET Runs]
  /\ deleted \in [Servers -> SUBSET Artifacts]
  /\ removing \in [Servers -> SUBSET Artifacts]
  /\ forgetting \in [Servers -> {"no", "files", "row"}]
  /\ run \in [Runs -> Run \cup {None}]
  /\ phase \in [Runs -> Phases]
  /\ stopped \in [Runs -> BOOLEAN]
  /\ outcome \in [Runs -> {"none", "rejected", "succeeded", "failed", "stopped", "lost"}]
  /\ obsolete \in [Runs -> SUBSET Runs]
  /\ late \subseteq Artifacts
  /\ crashes \in 0..MaxCrashes /\ errors \in 0..MaxErrors
  /\ \A a \in Artifacts : /\ Len(builds[a]) <= MaxRetained
                          /\ builds[a] # <<>> => registered /\ definition[a] \in 1..MaxRevision
                          /\ \A b \in Range(builds[a]) : run[b].artifact = a

Init ==
  /\ registered = TRUE
  /\ definition = [a \in Artifacts |-> 0]
  /\ builds = [a \in Artifacts |-> <<>>]
  /\ files = [r \in Runs |-> "none"]
  /\ server = [s \in Servers |-> "down"]
  /\ expected = [s \in Servers |-> {}]
  /\ deleted = [s \in Servers |-> {}]
  /\ removing = [s \in Servers |-> {}]
  /\ forgetting = [s \in Servers |-> "no"]
  /\ run = [r \in Runs |-> None]
  /\ phase = [r \in Runs |-> "idle"]
  /\ stopped = [r \in Runs |-> FALSE]
  /\ outcome = [r \in Runs |-> "none"]
  /\ obsolete = [r \in Runs |-> {}]
  /\ late = {}
  /\ crashes = 0 /\ errors = 0

Exists(a)   == definition[a] \in 1..MaxRevision
Rows        == UNION {Range(builds[a]) : a \in Artifacts}
RunsOf(a)   == {r \in Runs : run[r] # None /\ run[r].artifact = a}
IsActive(r) == phase[r] \notin {"idle", "opening", "done"}
Busy(s, a)  == \E r \in RunsOf(a) : IsActive(r) /\ run[r].server = s

Goto(r, p) == phase' = [phase EXCEPT ![r] = p]
\* The runner's finish: a stop request decides the outcome.
Ends(r, how) ==
  /\ Goto(r, "done")
  /\ outcome' = [outcome EXCEPT ![r] = IF stopped[r] THEN "stopped" ELSE how]
Without(gone) == files' = [r \in Runs |-> IF r \in gone THEN "none" ELSE files[r]]

\* The elements of a sequence that are in a set, in their order: each follows as many as are
\* selected before it.
Selected(q, S) ==
  LET places == {i \in DOMAIN q : q[i] \in S}
  IN [n \in 1..Cardinality(places) |->
        q[CHOOSE i \in places : Cardinality({j \in places : j < i}) = n - 1]]

-----------------------------------------------------------------------------
(* Definitions: compare and set on their revision.                         *)

CreateDefinition(s, a) ==
  /\ server[s] = "serving" /\ registered
  /\ definition[a] = 0
  /\ definition' = [definition EXCEPT ![a] = 1]
  /\ UNCHANGED <<registered, builds, files, memory, runVars, bounds>>

\* A stale or missing definition is answered 409 or 404 and stays as it is.
UpdateDefinition(s, a, expectedRevision) ==
  /\ server[s] = "serving" /\ registered
  /\ definition[a] = expectedRevision /\ expectedRevision < MaxRevision
  /\ definition' = [definition EXCEPT ![a] = @ + 1]
  /\ UNCHANGED <<registered, builds, files, memory, runVars, bounds>>

\* stopArtifact and stopOwnerRepository of the runner of s
StopAll(which) == stopped' = [r \in Runs |-> stopped[r] \/ (r \in which /\ IsActive(r))]

\* The definition and its rows go at once, the payload directory afterwards.
DeleteDefinition(s, a) ==
  /\ server[s] = "serving" /\ registered
  /\ Exists(a)
  /\ deleted' = [deleted EXCEPT ![s] = @ \cup {a}]
  /\ StopAll({r \in RunsOf(a) : run[r].server = s})
  /\ definition' = [definition EXCEPT ![a] = Removed]
  /\ builds' = [builds EXCEPT ![a] = <<>>]
  /\ removing' = [removing EXCEPT ![s] = @ \cup {a}]
  /\ UNCHANGED <<registered, files, server, expected, forgetting, run, phase, outcome, obsolete, late,
                 bounds>>

DeleteArtifactFiles(s, a) ==
  /\ a \in removing[s]
  /\ removing' = [removing EXCEPT ![s] = @ \ {a}]
  /\ Without(RunsOf(a))
  /\ UNCHANGED <<store, server, expected, deleted, forgetting, runVars, bounds>>

\* DELETE of the repository: stop its runs, remove its directory, then its catalog entry.
ForgetRepository(s) ==
  /\ server[s] = "serving" /\ registered
  /\ forgetting[s] = "no"
  /\ StopAll({r \in Runs : run[r] # None /\ run[r].server = s})
  /\ deleted' = [deleted EXCEPT ![s] = @ \cup {a \in Artifacts : Exists(a)}]
  /\ forgetting' = [forgetting EXCEPT ![s] = "files"]
  /\ UNCHANGED <<store, files, server, expected, removing, run, phase, outcome, obsolete, late, bounds>>

DeleteRepositoryFiles(s) ==
  /\ forgetting[s] = "files"
  /\ forgetting' = [forgetting EXCEPT ![s] = "row"]
  /\ Without(Runs)
  /\ UNCHANGED <<store, server, expected, deleted, removing, runVars, bounds>>

ForgetRow(s) ==
  /\ forgetting[s] = "row"
  /\ forgetting' = [forgetting EXCEPT ![s] = "no"]
  /\ registered' = FALSE
  /\ definition' = [a \in Artifacts |-> Removed]
  /\ builds' = [a \in Artifacts |-> <<>>]
  /\ UNCHANGED <<files, server, expected, deleted, removing, runVars, bounds>>

-----------------------------------------------------------------------------
(* A run.                                                                  *)

\* start reads the definition, takes it off deletedArtifacts and waits for the repository.
Request(s, r, a) ==
  /\ server[s] = "serving"
  /\ phase[r] = "idle"
  /\ Exists(a)
  /\ run' = [run EXCEPT ![r] = [server |-> s, artifact |-> a]]
  /\ deleted' = [deleted EXCEPT ![s] = @ \ {a}]
  /\ late' = IF forgetting[s] = "no" THEN late ELSE late \cup {a}
  /\ Goto(r, "opening")
  /\ UNCHANGED <<store, files, server, expected, removing, forgetting, stopped, outcome, obsolete,
                 bounds>>

\* The repository may be gone by then, and the runner refuses a second run of an artifact.
Launch(r) ==
  /\ phase[r] = "opening"
  /\ IF registered /\ ~Busy(run[r].server, run[r].artifact)
     THEN Goto(r, "running") /\ UNCHANGED outcome
     ELSE Goto(r, "done") /\ outcome' = [outcome EXCEPT ![r] = "rejected"]
  /\ UNCHANGED <<store, files, memory, run, stopped, obsolete, late, bounds>>

Stop(r) ==
  /\ IsActive(r)
  /\ ~stopped[r]
  /\ stopped' = [stopped EXCEPT ![r] = TRUE]
  /\ UNCHANGED <<store, files, memory, run, phase, outcome, obsolete, late, bounds>>

CommandEnds(r) ==
  /\ phase[r] = "running"
  /\ \/ ~stopped[r] /\ Goto(r, "capture") /\ UNCHANGED outcome
     \/ Ends(r, "failed")
  /\ UNCHANGED <<store, files, memory, run, stopped, obsolete, late, bounds>>

\* capture looks at the output and makes the build's directory, or throws.
CaptureBegins(r) ==
  /\ phase[r] = "capture"
  /\ \/ /\ ~stopped[r]
        /\ files' = [files EXCEPT ![r] = "partial"]
        /\ Goto(r, "copying") /\ UNCHANGED outcome
     \/ Ends(r, "failed") /\ UNCHANGED files
  /\ UNCHANGED <<store, memory, run, stopped, obsolete, late, bounds>>

\* The payload is copied to a temporary name and renamed; a directory removed meanwhile, an
\* output that changed, one too large or an abort makes it fail and remove the directory.
CaptureEnds(r) ==
  /\ phase[r] = "copying"
  /\ \/ /\ files[r] = "partial"
        /\ files' = [files EXCEPT ![r] = "whole"]
        /\ Goto(r, "captured") /\ UNCHANGED outcome
     \/ Without({r}) /\ Ends(r, "failed")
  /\ UNCHANGED <<store, memory, run, stopped, obsolete, late, bounds>>

\* Mutant: an artifact deleted meanwhile is not noticed.
StopNoticed(r) == stopped[r]
Cancelled(r)   == stopped[r] \/ run[r].artifact \in deleted[run[r].server]

CancelCapture(r) ==
  /\ phase[r] = "captured"
  /\ Cancelled(r)
  /\ Goto(r, "cancelling")
  /\ UNCHANGED <<store, files, memory, run, stopped, outcome, obsolete, late, bounds>>
RemoveCapture(r) ==
  /\ phase[r] = "cancelling"
  /\ Without({r})
  /\ Ends(r, "failed")
  /\ UNCHANGED <<store, memory, run, stopped, obsolete, late, bounds>>

\* insertBuild: the rows beyond the retained ones go in the same transaction, their payload
\* after it.  Mutant: every older payload goes.
Kept(all)       == SubSeq(all, 1, IF Len(all) > MaxRetained THEN MaxRetained ELSE Len(all))
Superseded(all) == Range(Tail(all))
Dropped(all)    == Range(all) \ Range(Kept(all))

\* ORDER BY created_at DESC, rowid DESC.  Mutant: oldest first.
OldestFirst(r, a) == Append(builds[a], r)
NewestFirst(r, a) == <<r>> \o builds[a]

InsertBuild(r) ==
  LET a   == run[r].artifact
      all == NewestFirst(r, a)
  IN /\ phase[r] = "captured"
     /\ ~Cancelled(r)
     /\ Exists(a)
     /\ builds' = [builds EXCEPT ![a] = Kept(all)]
     /\ obsolete' = [obsolete EXCEPT ![r] = Dropped(all)]
     /\ Goto(r, "evicting")
     /\ UNCHANGED <<registered, definition, files, memory, run, stopped, outcome, late, bounds>>

\* The definition is gone, a foreign key, or the database fails.  The payload stays behind.
InsertFails(r) ==
  /\ phase[r] = "captured"
  /\ ~Cancelled(r)
  /\ \/ ~Exists(run[r].artifact) /\ UNCHANGED errors
     \/ errors < MaxErrors /\ errors' = errors + 1
  /\ Ends(r, "failed")
  /\ UNCHANGED <<store, files, memory, run, stopped, obsolete, late, crashes>>

EvictAndFinish(r) ==
  /\ phase[r] = "evicting"
  /\ Without(obsolete[r])
  /\ obsolete' = [obsolete EXCEPT ![r] = {}]
  /\ Ends(r, "succeeded")
  /\ UNCHANGED <<store, memory, run, stopped, late, bounds>>

-----------------------------------------------------------------------------
(* Processes: start-up reconciles rows and directories.                    *)

\* ArtifactService.create: all rows are read before the directories are looked at.
Boot(s) ==
  /\ server[s] = "down"
  /\ server' = [server EXCEPT ![s] = "sweeping"]
  /\ expected' = [expected EXCEPT ![s] = Rows]
  /\ UNCHANGED <<store, files, deleted, removing, forgetting, runVars, bounds>>

\* Mutant: nothing is an orphan.
NoOrphans(s) == {}
Orphans(s)   == {r \in Runs : files[r] # "none" /\ r \notin expected[s]}
RemoveOrphans(s) ==
  /\ server[s] = "sweeping"
  /\ Without(Orphans(s))
  /\ server' = [server EXCEPT ![s] = "verifying"]
  /\ UNCHANGED <<store, expected, deleted, removing, forgetting, runVars, bounds>>

\* Rows whose payload is missing are deleted with what is left of them.
Missing(s) == {b \in expected[s] : files[b] # "whole"}
DeleteMissing(s) ==
  /\ server[s] = "verifying"
  /\ builds' = [a \in Artifacts |-> Selected(builds[a], Runs \ Missing(s))]
  /\ Without(Missing(s))
  /\ server' = [server EXCEPT ![s] = "serving"]
  /\ expected' = [expected EXCEPT ![s] = {}]
  /\ UNCHANGED <<registered, definition, deleted, removing, forgetting, runVars, bounds>>

Crash(s) ==
  /\ crashes < MaxCrashes
  /\ server[s] # "down"
  /\ crashes' = crashes + 1
  /\ server' = [server EXCEPT ![s] = "down"]
  /\ expected' = [expected EXCEPT ![s] = {}]
  /\ deleted' = [deleted EXCEPT ![s] = {}]
  /\ removing' = [removing EXCEPT ![s] = {}]
  /\ forgetting' = [forgetting EXCEPT ![s] = "no"]
  /\ LET mine == {r \in Runs : run[r] # None /\ run[r].server = s /\ phase[r] # "done"}
     IN /\ phase' = [r \in Runs |-> IF r \in mine THEN "done" ELSE phase[r]]
        /\ outcome' = [r \in Runs |-> IF r \in mine THEN "lost" ELSE outcome[r]]
        /\ obsolete' = [r \in Runs |-> IF r \in mine THEN {} ELSE obsolete[r]]
  /\ UNCHANGED <<store, files, run, stopped, late, errors>>

-----------------------------------------------------------------------------
RunStep(r) ==
  \/ Launch(r) \/ CaptureBegins(r) \/ CaptureEnds(r) \/ CancelCapture(r)
  \/ RemoveCapture(r) \/ InsertBuild(r) \/ InsertFails(r) \/ EvictAndFinish(r)
ServerStep(s) ==
  \/ RemoveOrphans(s) \/ DeleteMissing(s) \/ DeleteRepositoryFiles(s) \/ ForgetRow(s)
  \/ \E a \in Artifacts : DeleteArtifactFiles(s, a)
UserStep(s) ==
  \/ Boot(s) \/ Crash(s) \/ ForgetRepository(s)
  \/ \E a \in Artifacts :
       \/ CreateDefinition(s, a) \/ DeleteDefinition(s, a)
       \/ \E revision \in 1..MaxRevision : UpdateDefinition(s, a, revision)
       \/ \E r \in Runs : Request(s, r, a)

Next == \/ \E r \in Runs : RunStep(r) \/ Stop(r) \/ CommandEnds(r)
        \/ \E s \in Servers : ServerStep(s) \/ UserStep(s)

Spec == Init /\ [][Next]_vars

\* The event loop and the file system finish what they began.  A command ends when it was
\* stopped, SIGKILL ends it; otherwise it may run for ever.
FairSpec ==
  /\ Spec
  /\ \A r \in Runs : WF_vars(RunStep(r)) /\ WF_vars(stopped[r] /\ CommandEnds(r))
  /\ \A s \in Servers : WF_vars(ServerStep(s))

-----------------------------------------------------------------------------
(* Properties, of one server process unless the constants say otherwise.   *)

\* What can be downloaded of an artifact is its latest successful builds, newest first: they
\* leave when newer ones replace them or the artifact goes, whatever fails or crashes.
Available == [a \in Artifacts |-> Selected(builds[a], {b \in Runs : files[b] = "whole"})]
History   == INSTANCE ArtifactHistory WITH history <- Available, Builds <- Runs
HistoryKept == History!Spec

\* Beside the types: a server that answers requests lists no build without its payload, also after a crash
\* between the two, unless the repository is being removed.
BuildsHavePayload ==
  /\ TypeOK
  /\ \A s \in Servers : server[s] = "serving" /\ forgetting[s] = "no" =>
       \A b \in Rows : files[b] = "whole"

\* No payload outlives its reason: each is of a row, of a run at work, about to be evicted or
\* removed, or waits for a start-up to sweep it.  Two kinds are left behind: by a failing
\* database, and by a removal of the repository during which a start of the artifact was
\* accepted, since that start takes the artifact off deletedArtifacts.
Accounted(b) ==
  \/ b \in Rows \/ phase[b] \in {"copying", "captured", "cancelling"}
  \/ \E r \in Runs : b \in obsolete[r]
  \/ \E s \in Servers : server[s] # "serving" \/ run[b].artifact \in removing[s]
  \/ errors > 0 /\ outcome[b] = "failed"
  \/ ~registered /\ run[b].artifact \in late
PayloadsAccounted == \A b \in Runs : files[b] # "none" => Accounted(b)

\* The payloads of a deleted artifact, or of a forgotten repository, come to be gone, those of
\* runs that began before and ended after the deletion included; but for a start accepted while
\* the repository was being removed.
RemovedArtifactsGone ==
  \A a \in Artifacts :
    definition[a] = Removed ~> \/ \A r \in RunsOf(a) : files[r] = "none"
                               \/ \E s \in Servers : server[s] # "serving"
                               \/ ~registered /\ a \in late
=============================================================================
