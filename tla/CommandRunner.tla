---------------------------- MODULE CommandRunner ----------------------------
(***************************************************************************)
(* The subprocesses Couchview's server runs for package scripts and        *)
(* artifact commands (RepositoryCommandRunner): admission, captured        *)
(* output, cancellation with a grace period, finalizers, the event streams *)
(* that follow a run, and the history kept of completed runs.              *)
(*                                                                         *)
(* A command is started in a process group of its own.  Its leader is the  *)
(* process the server spawned; a descendant inherits the output pipes and  *)
(* may outlive the leader.  Processes are alive here while they hold the   *)
(* pipes: one that redirected its output is none of the runner's business. *)
(*                                                                         *)
(* A run is stamped with the wall clock in milliseconds: two runs may      *)
(* share a stamp, and a later run may carry an earlier one.                *)
(***************************************************************************)
EXTENDS Integers, Sequences, FiniteSets, FiniteSetsExt, Functions

CONSTANTS
  Runs,           \* run ids, each a fresh UUID
  Groups,         \* the pairs of an owner (packages, artifacts) and a repository
  Keys,           \* the commands of a group
  Streams,        \* event streams that listen to a run
  None,
  Finalizing,     \* the groups whose commands bring a finalizer (artifacts)
  Times,          \* what the wall clock may show when a run is started
  Sizes,          \* the sizes of the pieces of output a process writes
  MaxConcurrent,  \* maxConcurrentRuns
  MaxOutput,      \* maxOutputBytes
  Retained,       \* completedRunsPerOwner
  MaxWrites       \* bound: pieces of output of one run

ASSUME RunnerAssumption ==
  /\ IsFiniteSet(Runs) /\ IsFiniteSet(Streams)
  /\ None \notin Runs
  /\ Finalizing \subseteq Groups
  /\ Times \subseteq Nat
  /\ Sizes \subseteq Nat \ {0} /\ 1 \in Sizes
  /\ MaxConcurrent \in Nat \ {0} /\ MaxOutput \in Nat \ {0} /\ Retained \in Nat
  /\ MaxWrites \in Nat

ActiveStatuses == {"running", "stopping", "finalizing"}
EndStatuses    == {"succeeded", "failed", "stopped"}
Processes      == {"leader", "descendant"}
SequenceNumbers     == 1..(MaxWrites + 1)
Chunk          == [sequence : SequenceNumbers, size : 1..MaxOutput]

\* StoredCommand.  place: its place in the runner's map, which keeps the order of insertion;
\* process: command.process is set; finalizing: its finalizer is under way.
Command == [group : Groups, key : Keys, startedAt : Times, place : Nat,
            status : ActiveStatuses \cup EndStatuses,
            process : BOOLEAN, stopRequested : BOOLEAN, stopTimer : BOOLEAN,
            finalizing : BOOLEAN, output : Seq(Chunk), nextSequence : SequenceNumbers \cup {MaxWrites + 2}]

\* What an open stream has been told.
StreamState == [run : Runs, status : ActiveStatuses \cup EndStatuses, seen : SUBSET SequenceNumbers]

ASSUME NoneAssumption == None \notin Command /\ None \notin StreamState

VARIABLES
  command,    \* the record of every run ever started
  commands,   \* the runs in the runner's map
  listeners,  \* the streams that listen to a run
  stream,     \* what each open stream has been told of its run
  alive,      \* the processes of a run that hold its output pipes
  exited,     \* the exit code of its leader, None while it is alive
  closed      \* close() was called

vars == <<command, commands, listeners, stream, alive, exited, closed>>

TypeOK ==
  /\ command \in [Runs -> Command \cup {None}]
  /\ commands \subseteq {r \in Runs : command[r] # None}
  /\ listeners \in [Runs -> SUBSET Streams]
  /\ stream \in [Streams -> StreamState \cup {None}]
  /\ alive \in [Runs -> SUBSET Processes]
  /\ exited \in [Runs -> {"zero", "other", None}]
  /\ closed \in BOOLEAN
  /\ \A r \in Runs : command[r] # None =>
       /\ command[r].process /\ command[r].finalizing => FALSE
       /\ command[r].stopTimer => command[r].stopRequested

Init ==
  /\ command = [r \in Runs |-> None]
  /\ commands = {}
  /\ listeners = [r \in Runs |-> {}]
  /\ stream = [s \in Streams |-> None]
  /\ alive = [r \in Runs |-> {}]
  /\ exited = [r \in Runs |-> None]
  /\ closed = FALSE

Started == {r \in Runs : command[r] # None}
IsActive(r) == r \in Started /\ command[r].status \in ActiveStatuses
Active  == {r \in commands : IsActive(r)}

-----------------------------------------------------------------------------
(* Output and events.                                                      *)

Bytes(output) == SumFunction([i \in DOMAIN output |-> output[i].size])

\* Drop the oldest chunks until the rest fits; the newest one stays.  Mutant: drop one.
TrimmedOnce(output) == IF Bytes(output) > MaxOutput /\ Len(output) > 1 THEN Tail(output) ELSE output
Trimmed(output) ==
  LET rest(i) == SubSeq(output, i, Len(output))
  IN rest(Min({i \in DOMAIN output : Bytes(rest(i)) <= MaxOutput \/ i = Len(output)}))

\* appendOutput, up to its event
Appended(cmd, size) ==
  [cmd EXCEPT !.output = Trimmed(Append(@, [sequence |-> cmd.nextSequence,
                                            size |-> IF size > MaxOutput THEN MaxOutput ELSE size])),
              !.nextSequence = @ + 1]

\* emit: the listeners of run r are told of the chunks and, in the end, of the status.
Told(r, chunks, status) ==
  [s \in Streams |-> IF s \in listeners[r]
                     THEN [stream[s] EXCEPT !.seen = @ \cup chunks, !.status = status]
                     ELSE stream[s]]

-----------------------------------------------------------------------------
(* The end of a run.                                                       *)

\* The stable sort by startedAt, latest first: equal stamps stay in the order of the map.
SortsBefore(q, r) ==
  \/ command'[q].startedAt > command'[r].startedAt
  \/ command'[q].startedAt = command'[r].startedAt /\ command'[q].place < command'[r].place

\* Of the completed runs of a group, those that sort behind the first Retained.
\* Mutant: those that sort before the last Retained.
NewestOf(done) == {r \in done : Cardinality({q \in done : SortsBefore(r, q)}) >= Retained}
Obsolete(done) == {r \in done : Cardinality({q \in done : SortsBefore(q, r)}) >= Retained}

\* prune(owner, repositoryId); Known are the runs in the map
Prune(known, group) ==
  LET done == {r \in known : /\ command'[r].group = group
                             /\ command'[r].status \in EndStatuses}
  IN /\ commands' = known \ Obsolete(done)
     /\ listeners' = [r \in Runs |-> IF r \in Obsolete(done) THEN {} ELSE listeners[r]]

\* finish: the final status, its event, and the pruning.
Finish(r, cmd, chunks, status) ==
  /\ command' = [command EXCEPT ![r] = [cmd EXCEPT !.status = status, !.process = FALSE,
                                                   !.finalizing = FALSE, !.stopTimer = FALSE]]
  /\ stream' = Told(r, chunks, status)
  /\ Prune(commands \cup {r}, cmd.group)

-----------------------------------------------------------------------------
(* start                                                                   *)

\* Mutant of Busy: a run that is stopping does not count.
Running == {r \in commands : command[r].status = "running"}
Busy    == Active

NewCommand(g, k, t) ==
  [group |-> g, key |-> k, startedAt |-> t, place |-> Cardinality(Started), status |-> "running",
   process |-> FALSE, stopRequested |-> FALSE, stopTimer |-> FALSE, finalizing |-> FALSE,
   output |-> <<>>, nextSequence |-> 1]

Admitted(g, k) ==
  /\ Cardinality(Busy) < MaxConcurrent
  /\ \A r \in Busy : command[r].group # g \/ command[r].key # k

Start(r) ==
  /\ command[r] = None
  /\ \E g \in Groups, k \in Keys, t \in Times :
       /\ Admitted(g, k)
       /\ command' = [command EXCEPT ![r] = [NewCommand(g, k, t) EXCEPT !.process = TRUE]]
  /\ commands' = commands \cup {r}
  /\ alive' = [alive EXCEPT ![r] = Processes]
  /\ UNCHANGED <<listeners, stream, exited, closed>>

\* No executable, or spawn throws: the run fails at once, with the reason as its output.
StartFails(r) ==
  /\ command[r] = None
  /\ \E g \in Groups, k \in Keys, t \in Times :
       /\ Admitted(g, k)
       /\ Finish(r, Appended(NewCommand(g, k, t), 1), {1}, "failed")
  /\ UNCHANGED <<alive, exited, closed>>

-----------------------------------------------------------------------------
(* The processes of a run, and monitor, which waits for them.              *)

LeaderExits(r) ==
  /\ "leader" \in alive[r]
  /\ alive' = [alive EXCEPT ![r] = @ \ {"leader"}]
  /\ \E code \in {"zero", "other"} : exited' = [exited EXCEPT ![r] = code]
  /\ UNCHANGED <<command, commands, listeners, stream, closed>>
DescendantExits(r) ==
  /\ "descendant" \in alive[r]
  /\ alive' = [alive EXCEPT ![r] = @ \ {"descendant"}]
  /\ UNCHANGED <<command, commands, listeners, stream, exited, closed>>

\* captureStream reads a piece of output, perhaps left in a pipe by a dead process.
Output(r) ==
  /\ command[r] # None /\ command[r].process
  /\ command[r].nextSequence <= MaxWrites
  /\ \E size \in Sizes : command' = [command EXCEPT ![r] = Appended(@, size)]
  /\ stream' = [s \in Streams |-> IF s \in listeners[r]
                                  THEN [stream[s] EXCEPT !.seen = @ \cup {command[r].nextSequence}]
                                  ELSE stream[s]]
  /\ UNCHANGED <<commands, listeners, alive, exited, closed>>

\* The leader has exited and both pipes are closed.  Mutant: the pipes are not awaited.
LeaderGone(r)  == exited[r] # None
ProcessOver(r) == exited[r] # None /\ alive[r] = {}

MonitorEnds(r) ==
  /\ command[r] # None /\ command[r].process
  /\ ProcessOver(r)
  /\ LET cmd == command[r]
     IN \/ cmd.stopRequested /\ Finish(r, cmd, {}, "stopped")
        \/ ~cmd.stopRequested /\ exited[r] # "zero" /\ Finish(r, cmd, {}, "failed")
        \/ /\ ~cmd.stopRequested /\ exited[r] = "zero" /\ cmd.group \notin Finalizing
           /\ Finish(r, cmd, {}, "succeeded")
        \/ /\ ~cmd.stopRequested /\ exited[r] = "zero" /\ cmd.group \in Finalizing
           /\ command' = [command EXCEPT ![r] = [@ EXCEPT !.status = "finalizing", !.process = FALSE,
                                                          !.finalizing = TRUE]]
           /\ stream' = Told(r, {}, "finalizing")
           /\ UNCHANGED <<commands, listeners>>
  /\ UNCHANGED <<alive, exited, closed>>

\* The outcome of a run whose finalizer is done.  Mutant: a stop request is not looked at.
Unstopped(cmd, status) == status
Outcome(cmd, status)   == IF cmd.stopRequested THEN "stopped" ELSE status

\* The finalizer returns, or throws: a stopped run's finalizer sees its signal aborted.
FinalizerEnds(r) ==
  /\ command[r] # None /\ command[r].finalizing
  /\ LET cmd == command[r]
     IN \/ Finish(r, cmd, {}, Outcome(cmd, "succeeded"))
        \/ Finish(r, Appended(cmd, 1), {cmd.nextSequence}, Outcome(cmd, "failed"))
  /\ UNCHANGED <<alive, exited, closed>>

-----------------------------------------------------------------------------
(* stop.  What SIGTERM makes the processes do is left to them: they may    *)
(* exit at any time anyway.                                                *)

Stoppable(S) == {r \in S : IsActive(r) /\ command[r].status # "stopping"}

\* stop on each run of S, telling its listeners
StopEach(S) ==
  /\ command' = [r \in Runs |-> IF r \in S
                                THEN [command[r] EXCEPT !.stopRequested = TRUE, !.status = "stopping",
                                                        !.stopTimer = TRUE]
                                ELSE command[r]]
  /\ stream' = [s \in Streams |-> IF \E r \in S : s \in listeners[r]
                                  THEN [stream[s] EXCEPT !.status = "stopping"] ELSE stream[s]]

Stop(r) ==
  /\ r \in Stoppable(commands)
  /\ StopEach({r})
  /\ UNCHANGED <<commands, listeners, alive, exited, closed>>

\* stopOwnerRepository: the repository is removed.
StopGroup(g) ==
  LET S == {r \in Stoppable(commands) : command[r].group = g}
  IN /\ S # {}
     /\ StopEach(S)
     /\ UNCHANGED <<commands, listeners, alive, exited, closed>>

\* close: everything is stopped and nobody is told any more.  A request under way may still start.
Close ==
  /\ ~closed /\ closed' = TRUE
  /\ StopEach(Stoppable(commands))
  /\ listeners' = [r \in Runs |-> {}]
  /\ UNCHANGED <<commands, alive, exited>>

\* kill(command, "SIGKILL") reaches the process group.  Mutant: it reaches the child.
ChildOnly(r)  == {"leader"}
Signalled(r)  == alive[r]

\* The timer of stop, STOP_GRACE_MS later.
KillTimer(r) ==
  /\ command[r] # None /\ command[r].stopTimer
  /\ command' = [command EXCEPT ![r].stopTimer = FALSE]
  /\ IF command[r].process
     THEN /\ alive' = [alive EXCEPT ![r] = @ \ Signalled(r)]
          /\ exited' = [exited EXCEPT ![r] = IF "leader" \in alive[r] THEN "other" ELSE @]
     ELSE UNCHANGED <<alive, exited>>
  /\ UNCHANGED <<commands, listeners, stream, closed>>

-----------------------------------------------------------------------------
(* Event streams: openPackageRunEvents, openArtifactRunEvents.             *)

SequencesOf(cmd) == {cmd.output[i].sequence : i \in DOMAIN cmd.output}

\* What subscribe returns.  Mutant: only what is still to come is reported.
StatusOnly(r) == [run |-> r, status |-> command[r].status, seen |-> {}]
Snapshot(r)   == [run |-> r, status |-> command[r].status, seen |-> SequencesOf(command[r])]

Subscribe(s, r) ==
  /\ stream[s] = None /\ r \in commands
  /\ listeners' = [listeners EXCEPT ![r] = @ \cup {s}]
  /\ stream' = [stream EXCEPT ![s] = Snapshot(r)]
  /\ UNCHANGED <<command, commands, alive, exited, closed>>
Unsubscribe(s) ==
  /\ stream[s] # None
  /\ stream' = [stream EXCEPT ![s] = None]
  /\ listeners' = [r \in Runs |-> listeners[r] \ {s}]
  /\ UNCHANGED <<command, commands, alive, exited, closed>>

-----------------------------------------------------------------------------
RunStep(r) ==
  \/ LeaderExits(r) \/ DescendantExits(r) \/ Output(r)
  \/ MonitorEnds(r) \/ FinalizerEnds(r) \/ KillTimer(r)

Next ==
  \/ \E r \in Runs : Start(r) \/ StartFails(r) \/ RunStep(r) \/ Stop(r)
  \/ \E g \in Groups : StopGroup(g)
  \/ Close
  \/ \E s \in Streams : Unsubscribe(s) \/ \E r \in Runs : Subscribe(s, r)

Spec == Init /\ [][Next]_vars

\* Timers fire, what happened to a process is noticed, and a finalizer ends.  No process has to
\* exit of its own accord.
FairSpec ==
  /\ Spec
  /\ \A r \in Runs : WF_vars(MonitorEnds(r)) /\ WF_vars(FinalizerEnds(r)) /\ WF_vars(KillTimer(r))

-----------------------------------------------------------------------------
(* Properties.                                                             *)

\* Beside the types: no more than MaxConcurrent commands occupy the runner, and none twice: a command that is
\* stopping or finalizing is still in the way of the next start.
AdmissionHolds ==
  /\ TypeOK
  /\ Cardinality(Active) <= MaxConcurrent
  /\ \A r, q \in Active :
       command[r].group = command[q].group /\ command[r].key = command[q].key => r = q

\* No process that still writes is out of the runner's reach: it belongs to an active run the
\* map still holds, so that it counts as running and can be stopped.
ProcessesOwned ==
  \A r \in Runs : alive[r] # {} => r \in Active /\ command[r].process

\* "Bounded, reconnectable output" (src/README.md): what is kept of a run is a gapless suffix of
\* its output within maxOutputBytes.
OutputBounded ==
  \A r \in Started :
    LET output == command[r].output
    IN /\ Bytes(output) <= MaxOutput
       /\ \A i \in DOMAIN output : output[i].sequence = command[r].nextSequence - 1 - Len(output) + i

\* Until the runner is closed, an open stream knows every chunk that is kept of its run and its
\* latest status, even when the run was pruned the moment it ended.
StreamsInformed ==
  ~closed => \A s \in Streams : stream[s] # None =>
    /\ stream[s].status = command[stream[s].run].status
    /\ SequencesOf(command[stream[s].run]) \subseteq stream[s].seen

\* A run somebody stopped never ends as succeeded or failed, whatever its process or its
\* finalizer made of it in the meantime.
StopWins ==
  \A r \in Started : command[r].stopRequested => command[r].status \in {"stopping", "stopped"}

\* History: at most Retained completed runs of a group are kept, and no run that was dropped
\* is stamped later than those: whatever the order in which runs end, and also when the clock
\* stands still or steps back, Retained completed runs of its group are kept that carry its
\* time or a later one.
NewestRetained ==
  LET done(g) == {r \in commands : command[r].group = g /\ ~IsActive(r)}
  IN /\ \A g \in Groups : Cardinality(done(g)) <= Retained
     /\ \A r \in Started \ commands :
          /\ ~IsActive(r)
          /\ Cardinality({q \in done(command[r].group) :
                            command[q].startedAt >= command[r].startedAt}) >= Retained

\* Cancellation works: a run that is asked to stop ends, even when its processes ignore SIGTERM
\* or a descendant outlives the command it was started by.
StoppedRunEnds ==
  \A r \in Runs : (IsActive(r) /\ command[r].stopRequested) ~> ~IsActive(r)
=============================================================================
