# Couchview in TLA+

This directory specifies the parts of Couchview where several actors meet: mutations of a Git
repository that more than one program writes, the event streams, revisions and review marks that
keep browsers up to date, the subprocesses the server runs and the artifacts they build, the terminal
and SSH connections that move from one transport to another, and dictation. TLC checks the
specifications on small instances; TLAPS proves most of their safety, that of the three refinements
included, for instances of any size.

Paths below are relative to the root of the repository checkout, as in `PROJECT.json`
(`src/src/server/repository.ts` is `src/server/repository.ts` of the project).

## 1. Inventory

Couchview is a local-first application. One Bun process serves a browser or a native client; several
processes may serve the same repositories over one SQLite database. Git, the index, the working
tree and the stash belong to the user: editors, other Git clients and other Couchview servers
change them at any time.

| Component | State | Operations | Interaction | What is hard |
|---|---|---|---|---|
| Repository mutations (`repository.ts`, `git/actions.ts`, `git/mutationCoordinator.ts`) | none of its own but `index.lock` and a temporary index; a promise chain per process | stage, unstage, commit, checkout, return, stash, restore, undo, clean | HTTP requests carry the operation revision the client accepted; runs Git | other writers between check and effect, exceptions half way, a crash with the lock |
| Snapshots (`repositorySnapshot.ts`, `repositoryContent.ts`) | last snapshot, build in flight, content cache | build, join, refresh by the watcher | read by every mutation, route, watcher and poller | status and contents are read one after the other; a status may fail |
| Server events (`serverEvents.ts`) | per stream: the revisions delivered, readiness | open, emit, poll, close | mutations and the watcher emit; the poller compares with Git and SQLite | lost connections, notifications that overtake each other, several servers |
| Client view (`useRepositoryEvents`, `useRepositoryWorkspace`, `useReviewStatus`, `useStagingWorkflow`) | files and marks shown, pending staging request | handle an event, refresh, stage, mark | fetches after an event | answers out of order, events while a request is pending |
| Command runner (`repositoryCommandRunner.ts`) | runs with status, output, process, timer; listeners | start, output, stop, close, prune, subscribe | owned by package commands and artifacts; event streams listen | exits and stops in any order, descendants that hold pipes, bounded history |
| Package commands (`packageCommands.ts`, `usePackageRuns`) | run metadata | discover, start, stop | the runner | discovery awaits, stop answers against status events |
| Artifacts (`artifactService.ts`, `artifactStore.ts`, `artifactDatabase.ts`) | definitions, builds, payload directories | define, start, capture, delete, reconcile | the runner's finalizer, SQLite and files | two stores to keep in step, crashes, deletion during capture |
| State database (`database.ts`) | catalog, marks, profiles, revisions | compare-and-set updates | every server process | several processes |
| Review marks (`repositoryReview.ts`) | marks with the content revision they were made for | set, clear, read | snapshot, database, events | content changes between check and write |
| Repository manager (`repositories.ts`) | open repositories, listeners | get, register, remove | every route | concurrent first use, removal |
| Diffs (`repositoryDiff.ts`, `useDiffReview`) | the client's cache | fetch, prefetch | snapshot | answers out of order |
| Terminal (`terminal*.ts`) | tickets, one attachment per repository, transport state | issue, attach, take over, switch transport, renew | WebSocket, WebRTC, tmux | hand-over of buffered output, leases |
| Remote bridge, native clients | pairings, devices, tickets, leases | pair, claim, revoke, connect | the same transports | single use, expiry |
| Speech, voice commands | reservations, queue, worker | admit, transcribe, abort | a local service or worker | one bound over three kinds of entries |
| Persisted client state (`persistedAtom.ts`) | value, hydration, write queue | hydrate, write, refresh | several tabs over one store | updates before hydration, writes of two tabs |
| Command line (`cliServer.ts`, `cliSupervisor.ts`) | registered instances | serve, reuse, restart | signals, the database | a second start, a signal during a restart |

`PROJECT.json` lists the same components with their files and status, and under `hazards` the places
where each can go wrong with the properties that would notice.

What makes each component correct:

* Mutations: no other writer's index update is lost; nothing happens to a repository the client has
  not seen; what is staged is what was reviewed; no content disappears; every request is answered.
* Events: once the repository is left alone, every stream has been told the latest revisions and
  every client shows the latest files and marks.
* Runner: the limits on concurrency, output and history hold; no process escapes the record; a stop
  request ends the run and decides its outcome; listeners miss nothing.
* Artifacts: the builds on offer are the latest ones and have their files; no files outlive their
  reason.
* Review marks: a file is shown reviewed only at a content somebody marked, and what clients show
  becomes what is stored.
* Terminal and bridge: whichever transport carries them, bytes stay in order, none is repeated, and
  none is lost while the connection holds; the two halves agree in the end, and nothing stays
  open for a peer that is gone.
* Speech: the bound holds, a cancelled recording is not transcribed, every upload is answered, every
  dictation ends and gives the microphone back.

## 2. Modules

| Module | Role |
|---|---|
| `GitStore` | the repository on disk as the server uses it; external: Git commands as atomic changes that need a free `index.lock` |
| `RepositoryMutations` | the mutation handlers, the coordinator, the editor, the other Git client, further servers, crashes |
| `ServerEvents` | streams, watcher, poller, clients |
| `ReviewMarks` | marks from the click to the row in SQLite and back, over changing files |
| `CommandRunner` | runs, process groups, event streams of runs |
| `ArtifactHistory` | abstract: the builds of an artifact that can be downloaded |
| `Artifacts` | definitions, builds, payload directories; implements `ArtifactHistory` |
| `BytePipe` | abstract: one direction of a connection that may change its transport |
| `Frames` | pieces of a stream among the control frames of a connection |
| `TerminalTransport` | both halves of a terminal attachment; its output implements `BytePipe` |
| `RemoteBridge` | both halves of a bridged SSH connection; its output implements `BytePipe` |
| `SpeechService` | the upload route and the queue in front of the transcriber |
| `Dictation` | the client's provider and recorder, composed with `SpeechService` |
| `MC...` | definitions the instances of these modules need |
| `RepositoryMutationsProofs`, `CommandRunnerProofs`, `ArtifactsProofs`, `DictationProofs`, `TerminalTransportProofs`, `RemoteBridgeProofs`, `ReviewMarksProofs` | the theorems about the module of that name (`DictationProofs`: also about `SpeechService`) |
| `ProofLemmas` | facts several of them share: least elements, sums over finite sets, streams of numbered messages, what a connection carries of one |

### RepositoryMutations over GitStore

A request is in one `phase` of its handler; each `await` that lets another actor in ends a phase.
For a staging request they follow `updateStageTargets`: `lock` (create `index.lock` exclusively),
`readGit` and `readFiles` (status, then the contents of the listed files), `check` (the operation
revision and the targets), `copy`, `build` (one target after the other), `verify` (contents without
the cache), `reread` (the raw index), `publish` (rename), `after` (the response's snapshot) and
`finally`. Commits and actions go from `check` to `git`, which takes the lock inside Git.
`Throws` and `GitRefuses` leave any phase by an exception. `Arrive`, `Enter` and `Finally` are the
coordinator's chain. `accepted[r]` is the snapshot whose revision the request carries; comparing
hashes of a snapshot is comparing snapshots.

A tree maps each path to a content number, 0 for no file. The editor writes new numbers
(`newest + 1`), or old ones again when `EditorMayRevert`. A snapshot lists the paths Git reports and
the contents of those only. `StatusMayFail` adds the status that brings no identity twice, where
`lastSnapshot` is served; the history variable `standIns` keeps the requests at work on such a snapshot. The repository begins with a linear history of any length up to the bound and,
where stashes are allowed, with none or one over its first commit, so that undo, checkout and restore have
something to work on from the first request.

Abstracted: renames and directory conflicts, ignored files, file modes, hooks, partial effects of a
Git command, and the failure to unlink `index.lock` itself.

### ServerEvents

A repository has an operation revision (a counter for files, index and HEAD) and a state revision (the
number of review writes in SQLite). `stream[c]` holds the two revisions the server considers delivered.
`EmitChanges`, `EmitState`, `Watched` and `Polled` compare and send; `HandleEvent` does what
`useRepositoryEvents` does for each type, as far as files go; the marks are in `ReviewMarks`. `Serve`,
`Answered` and `FetchFails` are a request for the files and its end. Requests of one client overlap, are
served and answered in any order, and may fail: `markConnectionFailure` at most reports it, and but for the
refresh that follows a staging nobody asks again. `lapsed[c]` records that the news of files a client had
last was lost in this way. `Stage` to `StageAnswered` are the client's own staging request, during which
`Queue` keeps the latest "changes" event back. `Edit` and `ReviewElsewhere` stand for editors, other
servers and other programs.

### ReviewMarks

Where `ServerEvents` counts reviews, this module has them: `store` is the table, `rows[c]` the list a
client shows, `puts` the writes under way with their phase, `gets` its fetches. `SetReviewed`,
`UnreviewMultiple` and `UndoReview` change the rows at once and send; `PutArrives`, `EndSnapshot` and
`StoreReview` are the server's handler: check the targets against a snapshot that may be older than
the request, then store file by file. `Answered` and `Lost` are success and failure at the client, with
`Fails` putting the previous mark back on whatever row the list holds by then. A content revision is a
number, and no file returns to an earlier one. `Tell` sends an event of any legal kind as soon as a
stream is behind: which one is due is the subject of `ServerEvents`. Sending and arrival of a fetch are
one step. `ReviewElsewhere` is the client of another server.

A fetch may fail (`FetchFails`); the rows stay as they are, the marks that were to follow the files are not
fetched, and no fetch is repeated. `missed[c]` is what a client has not fetched since a fetch of it failed.
`lapses` records the two further ways in which the code leaves a client with a mark that is not stored: a single
mark was put back after a failure, or a "changes" event whose operation revision the client shows
already was passed over, with the marks of another server it stood for.

### CommandRunner

`command[r]` is the stored command of a run, kept as history after it left the map `commands`. `alive[r]`
holds the processes that keep the output pipes open: the leader and one descendant stand for a process group.
`MonitorEnds` waits for the leader's exit code and for the pipes, `FinalizerEnds` is the finalizer of artifact
runs, `KillTimer` the SIGKILL three seconds after a stop. `stream[s]` is what an event stream has been told.
`startedAt` is the wall clock, any member of `Times` at any start: two runs may share a millisecond, and a
later one may carry an earlier time. `place` is the order of insertion in the map, which decides among equal
times as JavaScript's stable sort does (`SortsBefore`). SIGTERM has no action of its own: processes may exit
at any time and may also stay. A descendant that leaves the process group while holding the pipes is not
represented; such a run would not end. Pieces of output have sizes, not texts.

### Artifacts, an ArtifactHistory

`definition` and `builds` are the rows, `files` the payload directory: "none", "partial" or "whole" for
each build. A run goes through `Request` (which reads the definition and then awaits), `Launch`,
`CommandEnds`, `CaptureBegins`, `CaptureEnds`, `InsertBuild` (the transaction that also drops the rows
past `MaxRetained`) and `EvictAndFinish` (the files of those rows), with `CancelCapture` and
`RemoveCapture` where it was stopped or its artifact deleted. `DeleteDefinition` and `ForgetRepository`
change rows first and leave the files to `DeleteArtifactFiles` and `DeleteRepositoryFiles`. `Boot`,
`RemoveOrphans` and `DeleteMissing` are the start-up's comparison of the two stores; `Crash` may fall
between any two steps, `InsertFails` is a transaction the database refuses.

The refinement maps `history` to the rows whose files are whole: what a user can download. `InsertBuild`
publishes, a deletion withdraws, everything else (capture, eviction, start-up, crash) is a stutter. Of the
runner there is the status and the rule of one run per command; the rest is `CommandRunner`. The
content of a build is read in one step at the end of its capture. `late` records the artifacts a start of which
was accepted while their repository was being removed (`Request` while `forgetting`).

### TerminalTransport and RemoteBridge, each a BytePipe

Both connect two halves by a WebSocket and, once negotiated, a WebRTC data channel. The connections
deliver in order, each for itself, and either end of either one may close at any moment; a message is in
`toClient`, `toServer` or on the channel (`down`, `up`) until the handler of its receiver takes it. The
actions are named after the handlers: `message`, `socketMessage`, `handleChannelMessage`,
`handleDataChannelMessage`, `sendOffer`, `negotiationTimer`, `LeaseExpires` and so on. Bytes are pieces
numbered as written; a buffer holds `Capacity` of them. A lease is "fresh" or "due"; its renewal and
its expiry race.

The refinement's queue is what is under way in the order it will be shown: WebSocket, switching buffer,
channel. `Joined` maps to `open`: the two halves still belong together. Where the terminal keeps the
attachment after a failed switch and may try again (`attempt`), the bridge hands over once, and a failure
after the switch closes it. The abstract pipe drops a piece only while its environment says `full`, to which both
map `BufferFull`, a switch under way whose buffer holds `Capacity` pieces:
`terminalAttachmentManager.ts:186` and `remoteBridgeService.ts:252`. For SSH even that is a loss, see
`OutputComplete` in section 3.

### SpeechService and Dictation

`AdmitUpload` reserves, `EnqueueReserved` trades the reservation for a place in the queue, `Settle` and
`Timeout` end the active job, `Abort` is the request's signal, `Close` the service's end, and `Pump`,
part of each of them, starts the next job. In `Dictation` a client has a `phase`, the dictation of the present
`generationRef` (`current`), the progress of each `recorder.start()` and the captures whose microphone is
on. Cancelling breaks the connection at once, and the service learns of it later. Refusals, timeouts and
failures are one answer.

## 3. Runs

| Run | Instance | What it shows |
|---|---|---|
| `staging` | 2 servers, 2 requests (stage, unstage), 2 files, 1 command of another Git client, 1 crash | the lock is held and returned; one mutation per server at a time; no lost update; stale requests rejected; the accepted content is staged |
| `mutations` | 1 server, 2 requests of every kind but unstage, 1 file, up to 2 commits and 1 stash to begin with, failing status reads, 1 crash | no mutation but clean loses a content of the working tree or stash; Git commands run on what the client accepted; every request is answered |
| `watched_files` | 1 client with 2 requests under way, 3 revisions, 1 incident: a lost stream, a staging or a mark | streams catch up; a client that only reads comes to show the latest files |
| `run_history` | 3 runs of 2 groups and 2 keys, 2 places, 2 clock times, 1 retained run | admission, owned processes, outcome of stopped runs; the newest runs are retained |
| `run_output` | 1 run, 5 pieces of sizes 1, 2 and 4 against a bound of 3, 2 streams, nothing retained | bounded output; no gap for a stream that reconnects, nor a missed end; a stopped run ends |
| `artifact_builds` | 1 server, 1 artifact, 3 runs, 2 retained builds, 1 crash, 1 refused transaction | `ArtifactHistory` is implemented; every listed build has its files; files outlive their reason only where section 3 says so; those of a removed artifact go |
| `terminal_handoff` | 2 attempts, 2 pieces each way, buffers of 1 | output implements `BytePipe`; input stays in order; the halves agree on the path; hand-overs end |
| `bridge_streams` | 3 pieces of output, 2 of input, buffers of 1 | output implements `BytePipe`; input is intact; the target is released |
| `bridge_overflow` | 3 pieces of output, buffers of 1 | violated: `OutputComplete` |
| `review_marks` | 1 client and another server, 2 files, 2 contents, 3 incidents | what a client fetches was marked by somebody; marks converge |
| `review_rollback` | 1 client, 1 file, 2 incidents | violated: `ContentChangeClearsMark` |
| `dictation` | 1 client, 3 dictations, 2 admitted, 3 bytes, uploads of 1 or 2 | capacity; cancelled recordings are not transcribed; uploads answered; legal phases; the microphone; dictations end |

Where a module's `TypeOK` is not in the list of a run, it is the first conjunct of one of the properties
(`BuildsHavePayload`, `PathsAgree`, `InputIntact`, `CapacityKept`, `OneStartHoldsTheMicrophone`,
`AdmissionHolds`).

Why these bounds suffice. Two requests are needed for every interference between mutations; what a
third would have prepared for them (a commit to undo or check out, a stash) the initial states hold. Two contents
distinguish "as accepted" from "changed", and "left behind in a stash or commit" from "written
since". One foreign command and one crash are each the single disturbance of a handler. The events
need two revisions to be stale and a third to be stale again after an answer, and two requests
under way to overtake each other. Two clock times are the same, in order or stepped back. The runner's limits
are 1 and 2 so that every limit is reached; a history of one run makes every second completion
prune, and three runs let a third start over a pruned one. Output is left out of `run_history`
(`MaxWrites = 0`) and checked alone in `run_output`. Three builds against two retained ones evict once,
with the deletion, the crash or the refused transaction at any step before or after. Two pieces of
output against a buffer of one let one piece wait, one overflow, and either be overtaken on the
other connection; the second attempt meets what the first left behind. Three incidents are a mark,
the change of its content and a failure, or a mark here, one elsewhere and an undo. Three dictations are one in
transcription, one in the queue and one that is refused. Symmetry is used where values differ
only in name and no liveness property is checked.

No run checks for deadlock: each system may stop when all requests are answered, all connections
closed and the bounds used up.

### What the violations show

`bridge_overflow`: "Couchview carries the complete SSH byte stream over the configured Couchview origin", and "a
failed negotiation before handoff simply continues on WebSocket" (`docs/guides/remote-bridge.md:9` and 18); the
tests of both halves call the hand-over lossless (`remoteBridgeService.test.ts:372`,
`remoteBridgeClient.test.ts:384`). While the hand-over waits for the proxy, output of sshd is held back. The chunk
that would exceed the buffer (1 MiB) makes `routeTcpOutput` give the negotiation up and return
(`remoteBridgeService.ts:253`): what was held back goes out over the WebSocket, the chunk itself does not, and
the next ones follow. In the trace both halves are back on the WebSocket with nothing under way, sshd wrote
two pieces and ssh read the first. SSH numbers and authenticates its packets, so the session would not survive it.
The terminal drops in the same way; what it shows is redrawn by tmux, and no document claims more.

`review_rollback`: "Mark reviewed to record the current content revision. A later content change clears
that mark." (`src/README.md:54`). A user removes a mark; the
file changes and the list is fetched again, now unmarked at the new content; the server refuses the
removal with 409 because the content changed; and the failed write puts the old mark back on the new row
(`useReviewStatus.ts:129`). Nothing fetches the marks after that, so the file stays shown as reviewed
at a content nobody reviewed until the next event.

### Where a property is claimed with a condition

Each of these was found by running TLC on an instance without the condition.

* `GitRunsOnAcceptedIndex` is claimed as long as one server has taken all requests and no other Git client has
  written (`Alone`). `commit` compares the revision at `repository.ts:507` and
  starts `git commit` at 523 without `index.lock`: a second server, or any Git client, can change the index in
  between. The coordinator excludes this within one process.
* `AcceptedContentStaged` is claimed for files that do not return to an old content. `git add` reads the file
  before its content is compared again (`repository.ts:451`); one that appears between the two only is staged.
* `StaleStagingRejected`, `AcceptedContentStaged` and `GitRunsOnAcceptedIndex` except the requests in `standIns`:
  when a status fails to identify the repository, twice, the last verified snapshot is served as fresh to the
  request (`repositorySnapshot.ts:109`) and a stale revision matches. Requests after it are not excepted.
* `FilesObserved` is claimed as long as nobody stages or marks. Every event counts as
  delivering both revisions (`serverEvents.ts:48` and 77), but a client that gets a "changes" event for its own
  staging ignores it, with the mark it may stand for, and one that gets a "state" event fetches marks
  only, whatever files it stands for. It also excepts a client whose last news was lost on its own side
  (`lapsed`): the fetch it led to failed, which `markConnectionFailure` reports and nobody repeats
  (`useRepositoryEvents.ts:116` to 130), or an older list arrived after a newer one, which `refreshChanges` does
  not compare (`useRepositoryWorkspace.ts:84`). The server has counted the revision as delivered, so such a client
  stays stale until the next event. A later fetch that succeeds ends the exception.
* `MarksConverge` is claimed while `lapses` is empty, and for a client that has fetched again whatever
  it failed to fetch (`missed`), see `ReviewMarks` above. The fetch after a failed bulk removal or undo
  (`useReviewStatus.ts:192` and 236) is the likeliest to fail, with the connection that lost the write. Answers
  to fetches come in order in `ReviewMarks`; nothing in the code establishes that order.
* `NewestRetained` speaks of the recorded time. After a step of the clock backwards a run may be kept longer than
  one that started after it, and of runs with one time the one that was started first is kept.
* `BuildsHavePayload` is claimed for one server. A second one over the same database sweeps directories at its
  start-up, the one of a build the first is about to insert included.
* `PayloadsAccounted` excepts the payload of an insertion the database refused: it stays until the next start-up.
  `docs/security.md:32` says that failed runs retain no payload; this run counts as failed and retains one until then.
* `PayloadsAccounted` and `RemovedArtifactsGone` except, once the repository is gone, the artifacts in `late`. The
  route removes a repository in two steps, `artifacts.forgetRepository` and `repositories.forget`
  (`serverRepositoryRoutes.ts:75`), with an await between them. A start accepted there finds the definition, takes
  the artifact off `deletedArtifacts` again (`artifactService.ts:173`), and its capture ends when the row is
  gone: the insertion fails and the files stay. `docs/security.md:32` and 69 say otherwise. The next start-up
  sweeps them.
* `OutputPiped` allows the loss of a piece written while a switching buffer is full (for SSH, see
  `bridge_overflow`), and `InputInOrder` that a failed switch discards
  what the browser held back (`terminalWebRtc.ts:93`).
* `InputIntact` is claimed without gaps until the proxy gave up. An answer that comes after the proxy's own
  negotiation timer, or a switch before its end of the channel is open, makes it close the connection with
  "unexpected control data" (`remoteBridgeClient.ts:571`), although `docs/guides/remote-bridge.md` lets a
  negotiation that failed before the handoff continue on the WebSocket.
* `OneStartHoldsTheMicrophone` assumes that no more than one start waits at a time. `usePcmRecorder.ts:42` looks for a
  capture before it awaits the microphone. After a cancel and a second start during the prompt both
  open one, the first stays on with no owner, and the late return of the first start cancels the
  capture of the second (`SpeechProvider.tsx:259`) while the phase becomes "recording".

### Fairness

* `RepositoryMutations`: weak fairness of each request's handler. Bun's event loop runs what is ready,
  every Git command ends or is killed by its timeout. Clients, editors, other Git clients and crashes
  owe nothing; a lock they keep is answered with 423.
* `ServerEvents`: weak fairness of reconnecting (EventSource and its native counterpart retry), of
  emissions, of handling; a request is served, and answered or failing; the poll timer fires; strong
  fairness of `Polled` says that not every poll fails. The watcher owes nothing, and every fetch may fail.
* `ReviewMarks`: weak fairness of the poll and its snapshot, of events, requests and answers, of storing.
  Nobody has to mark, edit or fail; failures are among the incidents the bound counts.
* `CommandRunner`: weak fairness of noticing that a process ended, of the end of a finalizer and of the
  kill timer. No process has to exit by itself; SIGKILL ends a process.
* `Artifacts`: weak fairness of each run's own steps and of the server's (the event loop and the file system
  finish what they began), and of the end of a command that was stopped. A command may run for ever
  otherwise, and a server that crashed need not come back.
* `TerminalTransport`, `RemoteBridge`: weak fairness of delivery on an open connection, of timers and of the
  expiry of leases, and of noticing a connection the other side lost (pings and Bun's `idleTimeout`; ICE consent).
  Nothing makes a direct path come about, a peer answer or a lease be renewed.
* `SpeechService`, `Dictation`: weak fairness of reading an upload or failing to, of the timeout of the active
  job and of giving up after it, of the recorder's time limit, of receiving an answer and of the timer that
  clears an error. The transcriber may stay silent, and nobody need answer a permission prompt.

## 4. Proofs

Every theorem is about the module's own `Spec`, for any sets and any bounds its named assumption allows;
TLC evaluates the assumptions on every run. A further hypothesis is in the third column.

| Theorem | States | Hypothesis |
|---|---|---|
| **RepositoryMutationsProofs** | | |
| `TypeCorrect` | `Spec => []TypeOK` | |
| `MutationsSerial` | `Spec => []SerialPerServer` | |
| `StagingLocked` | `Spec => []StagingHoldsLock` | |
| `LockGivenUp` | `Spec => []LockReturned` | |
| `NoUpdateLost` | `Spec => NoLostIndexUpdate` | |
| `WorkIsKept` | `Spec => WorkKept` | |
| `StagingNotStale` | `Spec => StaleStagingRejected` | |
| `AcceptedIsStaged` | `Spec => AcceptedContentStaged` | contents do not return (`ContentsGrow`) |
| `GitRunsOnAccepted` | `Spec => GitRunsOnAcceptedIndex` | |
| **CommandRunnerProofs** | | |
| `Typing` | `Spec => []Typed` | |
| `StopDecides` | `Spec => []StopWins` | |
| `ProcessesAreOwned` | `Spec => []ProcessesOwned` | |
| `AdmissionIsKept` | `Spec => []AdmissionHolds` | |
| `OutputStaysBounded` | `Spec => []OutputBounded` | |
| `StreamsAreInformed` | `Spec => []StreamsInformed` | |
| `NewestAreRetained` | `Spec => []NewestRetained` | |
| **DictationProofs** | | |
| `DictationInvariant` | `Spec => []IInv` | |
| `CapacityIsKept` | `Spec => []CapacityKept` | |
| `CancelledStaysOut` | `Spec => CancelledNotTranscribed` | |
| `MovesAreLegal` | `Spec => MovesLegal` | |
| `MicrophoneIsGivenBack` | `Spec => OneStartHoldsTheMicrophone` | |
| **ArtifactsProofs** | | |
| `ArtifactTypes` | `Spec => []TypeOK` | |
| `BuildsKeepTheirPayload` | `Spec => []BuildsHavePayload` | one server |
| `PayloadsHaveReasons` | `Spec => []PayloadsAccounted` | one server |
| `HistoryIsKept` | `Spec => HistoryKept`: `Artifacts` implements `ArtifactHistory` | one server |
| **TerminalTransportProofs** | | |
| `InputStaysInOrder` | `Spec => []InputInOrder` | |
| `PathsStayAgreed` | `Spec => []PathsAgree` | |
| `OutputIsPiped` | `Spec => Pipe!Init /\ [][Pipe!Next]_(Pipe!vars)`: the safety of `OutputPiped` | |
| `OutputStaysInOrder` | `Spec => []Pipe!ShownInOrder` | |
| **RemoteBridgeProofs** | | |
| `InputStaysIntact` | `Spec => []InputIntact` | |
| `OutputOfBridgeIsPiped` | `Spec => OutputPipe!Init /\ [][OutputPipe!Next]_(OutputPipe!vars)`: the safety of `OutputPiped` | |
| `OutputOfBridgeStaysInOrder` | `Spec => []OutputPipe!ShownInOrder` | |
| **ReviewMarksProofs** | | |
| `TypesHold` | `Spec => []TypeOK` | |
| `RefreshedMarksAreMade` | `Spec => RefreshedMarksMade` | |

The hypotheses are those of section 3 under "Where a property is claimed with a condition"; the runs that
check these properties satisfy them, and without them TLC finds counterexamples. `ContentsGrow` is
`~EditorMayRevert` with the kinds of requests limited to staging, unstaging and committing: a checkout or
a popped stash brings an old content back as an editor may.

### Repository mutations

The argument has layers. `Typed` strengthens the types with what each phase knows of the handler's locals
(a request that is building has an original and a temporary index) and with the coordinator's queue: the
head of a server's queue is the one active request. That gives serialisation. `LockDiscipline` says that a
staging request at work holds `index.lock`, and that a lock of a request is one at work, in its `finally`,
or lost; every action of another actor that could write the index requires the lock to be free (`Frozen`).
So while a request holds the lock the index changes by its own rename only, and `BuiltOver` can say what
the temporary index is: the original one, which is still the index, with new entries for the targets done
so far. Publishing therefore touches targets only.

`StagingNotStale` adds `SeenStill`: the snapshot a request holds agrees with HEAD, branch and index while it
holds the lock, which is false when `lastSnapshot` stands in; hence it is claimed for requests not in `standIns`
(`FreshBefore`: a request at work on a fresh snapshot was not in it before either). `GitSeen` is the same
for commits and Git workspace actions, which hold no lock between their check and Git's own: there the
coordinator alone keeps others out, so the invariant is claimed while `Alone` holds, which no step brings back
once it is lost (`AloneBefore`). `AcceptedIsStaged`
needs an order on the contents. `StagedContent` says that an entry that was built lies between the
accepted content and the present one, and that the verification after it finds the present one equal to
the accepted one, which leaves no room between them; when contents may return, that is the gap of
`repository.ts:451`. `WorkIsKept` needs of the history only that a `git clean` is part of a "clean"
request (`CleansAfterReset`); for the rest, each Git command is shown to leave in the working tree, the
stash or a commit what it takes away.

### Command runner

`Typed` relates the fields of a record (`Consistent`: an active status means a process or a finalizer, a
stop request means stopping or stopped), the record to the processes and the map (`RunOK`), and streams
to listeners (`StreamOK`). `StopWins` and `ProcessesOwned` are instances of it. What every step
makes of the records is said once (`RunsGoOn`: a run keeps its group, key and start time, never becomes
active again, and its output grows by `appendOutput` only); admission and the bound on output follow,
the latter with the lemma that the sum of a sequence loses what its head weighs. `NewestRetained`
assumes nothing of the clock. The order of pruning is made total by the places of runs in the map,
which are distinct; each completed run then has a rank, and a lemma on finite sets says that of those
fewer than R others precede (`Newest`) there are at most R, and that R of them precede whatever was dropped.

### Speech and dictation

`Accounts` says the two counters of the service are sums, over the queue and over the reservations
(`SumFunctionOnSet`), `Places` that a request is waiting exactly when it is queued or being transcribed, and
a reservation is no smaller than what it is for. Each operation is then a change of a sum by one
summand. `ClientsOK` ties a client's phase to its present dictation; the legality of moves is
proved together with the invariant, step by step. `HeldBy` says what the recorder holds while at
most one start waits; it is kept by steps that respect that limit, so the temporal theorem goes through
"as long as".

### Artifacts

`Typed` holds of any number of servers: runs have a definition, rows are of runs that recorded them,
evicted builds are no rows (`LateTyped` adds the type of the history variable `late`). For one server,
`OneOK` adds what the start-up does (a process that does not serve has no run at work and read the rows
there are; after the sweep only rows have payloads) and what is true of the payload of each phase. While a repository is removed, payloads go before rows; the
invariant `WholeFirst` says the rows that still have theirs are the newest, so the rows
a user can download form a prefix of the list and the step of `InsertBuild` appends to it. A start accepted while
the repository is removed may capture files after they were removed; its artifact is in `late` from then on, and
once the row of the repository is gone this is the reason its payload has.
`HistoryIsKept` is a step simulation: `InsertBuild` is a publication, deletions are withdrawals, each other
action is a stutter (`NextHistory`, one lemma for each).

### Remote bridge

`InputIntact` speaks of the pieces sshd has read. The invariant must say where the others are: `Order`, that
what was read comes before what is on the WebSocket, that before what the switching buffer holds or the
channel carries, each in order; `Whole`, that none is missing until the proxy gave up. Why the channel
cannot overtake the WebSocket is the negotiation: `OneOffer` (one offer is made and answered once) and
`OneSwitch` (one switch is announced, one activation returned, all input on the WebSocket precedes the
activation, and the channel is used after it).

`OutputOfBridgeIsPiped` is a step simulation over the queue `OnItsWay`, which is joined from three places: what
the WebSocket carries, what the switching buffer holds, what the channel carries. A step of the handover that
moves the buffer to the channel, or a fallback that moves it back to the WebSocket, must leave the queue as it
was, and that is so only when the part between is empty. `Flow`, with the invariant above, says where output
cannot be: once the server left the WebSocket, no output follows the announced switch there; none is left there
when the stream is handed over; a proxy that waits for the channel's "ready" does not find output
before it. Whatever breaks a connection keeps a beginning of the queue (`Cuts`). Each handler is a lemma
that names the step of the pipe it is: `Writes`, `Shows`, `Cuts`, or none (`Rests`).
`OutputOfBridgeStaysInOrder` then follows from the pipe alone (`DeliveredOn` in `ProofLemmas`).

### Terminal

The invariant is the bridge's with attempts, of which several may be under way. `Offers` puts them in order: an
offer on the WebSocket is of a later attempt than what the server negotiates and the browser has an answer for, an
answer is of one the browser has not applied and of none after the present negotiation, and a channel is open at
either end only for an attempt that was answered. `Switches` follows the hand-over: one
"switch" is under way or one "activate", never both, neither for a negotiation whose answer was not applied or
whose channel the server has not accepted, and none once the stream was handed over (`Handed`). So an
"activate" that arrives is about the negotiation the server has, and the browser that becomes active uses
the channel the server listens on (`Paths`, of which `PathsAgree` is an instance). While the attachment
holds, a channel carries something only when `transport` is "webrtc"; so input read from the
WebSocket has none ahead of it on a channel, and `Order` is kept: what was read comes before what is under way on
either connection, and that before what the browser holds back. Pieces may be missing, since a failed switch
discards what was held back; the order and the absence of repetitions are what is left, and proved. Most
steps that give something up are one of three lemmas: `NothingStarts`, `ServerGivesUp`, `BrowserGivesUp`.

`OutputIsPiped` has the shape of the bridge's theorem, over the channel of the present attempt. Its `Flow` also
says which attempt may be shown: a channel whose stream is turned over is the browser's present one or one it has
closed, a channel carries output only to an end that was opened, and the ends of earlier attempts are
closed. So an attempt that was given up cannot put its output between that of a later one.

### Review marks

`IInv` says that requests in flight have different numbers and that a client is busy with exactly one
of them, and that every mark stored, read for an answer or asked for was made by a user (`MarksMade`); the
rows of a client are not in it, since a failed write may put a mark back on content it was not made
for, which is the violation of section 3.

### Inductions

The provers cannot instantiate an induction theorem. `ProofLemmas` takes a minimal counterexample in a
well-founded order of the library instead (`LeastExists` for numbers, `SmallestSet` for finite sets). In
this way it proves what `SumFunctionOnSet` is for a set with one more element (`SumRemove`), which the
community module defines by a recursive function over sets, and with it the bounds on queues and outputs.
What a connection carries of a stream (`Carried` in `Frames`, a recursive function over the length) is treated the
same way: `GathersExists` gives the function, `UpTo` its values for two connections that begin alike, and
`CarriedJoined` that joined connections carry joined streams.

### Model-checked only

* Every liveness property: `EveryCallAnswered`, `StreamsCatchUp`, `FilesObserved`, `StoppedRunEnds`,
  `RemovedArtifactsGone`, `HandoversEnd`, `TargetReleased`, `MarksConverge`, `UploadsAnswered` and
  `DictationsEnd`. `ENABLED` and fairness are beyond the prover.
* The fairness of the two implementations of `BytePipe` (`OutputPiped`): that a connection which holds delivers.
* The types of `ServerEvents`, which say little beside its two liveness properties.

## 5. Plan

1. Built: the modules of section 2, with three implementations of an abstract specification, and the
   theorems of section 4.
2. Proved: the safety of every module but `ServerEvents`, and every step of the three implementations.
3. Next, modules: `PersistedAtom` (tabs over one store), the repository manager (two first uses of one
   repository), terminal tickets and takeover, pairings and tickets of native clients, the supervisor, a
   settings profile under compare-and-set, snapshot builds that are joined.
4. An abstract specification of the coordinator as a fair queue of mutual exclusion.

## 6. Not modelled

`PROJECT.json` lists every part with its status. Of the parts modelled in part, these operations are left out:
tickets, takeover by a second browser, resizing and tmux for terminals; pairings, tickets and the SSH configuration
for the bridge; renaming and downloading for artifacts; audio formats, the platform recorders (the native
recorder has the shape of the browser's) and the transcriber's process for speech; navigation and the
switch between repositories for the client's view; profiles and migrations for the database.

Native clients, voice commands, persisted client state, settings profiles, the repository manager, the diff
cache and the command line have state worth a module and none yet.

The larger part of the tree has no state of the kind these specifications speak of. It is interface
components with their layout and styles, the diff engine with its highlighting, parsers of Git's output and
validators of messages, the harness of the tests, build scripts, and vendored or generated code. A model of a
component that maps its properties to markup would restate it. Authentication and origin checks are request
plumbing here and carry no state the properties speak of.
