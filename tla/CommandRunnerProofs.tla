------------------------ MODULE CommandRunnerProofs ------------------------
(***************************************************************************)
(* Theorems about CommandRunner, for any number of runs, groups, keys and  *)
(* streams and any limits: types and admission, the ownership of           *)
(* processes, the outcome of a stopped run, the bound on the output kept,  *)
(* what event streams know, and the history of completed runs.             *)
(***************************************************************************)
EXTENDS CommandRunner, ProofLemmas, SequenceTheorems

USE RunnerAssumption, NoneAssumption

-----------------------------------------------------------------------------
(* The inductive invariant.                                                *)

\* What the fields of a stored command say of each other.
Consistent(cmd) ==
  /\ cmd.status \in ActiveStatuses <=> (cmd.process \/ cmd.finalizing)
  /\ ~(cmd.process /\ cmd.finalizing)
  /\ cmd.status = "running" => cmd.process
  /\ cmd.status = "finalizing" => cmd.finalizing
  /\ cmd.stopRequested <=> cmd.status \in {"stopping", "stopped"}
  /\ cmd.stopTimer => cmd.stopRequested
  /\ cmd.status \in ActiveStatuses => cmd.nextSequence <= MaxWrites + 1

\* A run's record, its processes and its place in the map agree.
RunOK(r) ==
  /\ command[r] = None => alive[r] = {} /\ listeners[r] = {}
  /\ command[r] # None =>
       /\ Consistent(command[r])
       /\ alive[r] # {} => command[r].process
       /\ IsActive(r) => r \in commands

\* Streams and listeners point at each other; a stream whose run can still change listens to it.
StreamOK(s) ==
  /\ \A r \in Runs : s \in listeners[r] => stream[s] # None /\ stream[s].run = r
  /\ stream[s] # None =>
       /\ command[stream[s].run] # None
       /\ ~closed /\ IsActive(stream[s].run) => s \in listeners[stream[s].run]

Typed == /\ TypeOK
         /\ \A r \in Runs : RunOK(r)
         /\ \A s \in Streams : StreamOK(s)

\* Every run has a place of its own in the map, behind those of the runs before it.
PlacesDistinct ==
  /\ \A r \in Started : command[r].place < Cardinality(Started)
  /\ \A r, q \in Started : command[r].place = command[q].place => r = q
-----------------------------------------------------------------------------
(* Output.                                                                 *)

\* The chunks of an output are numbered without a gap, up to the next number.
Gapless(cmd) ==
  \A i \in DOMAIN cmd.output : cmd.output[i].sequence = cmd.nextSequence - 1 - Len(cmd.output) + i

\* One chunk weighs its size.
LEMMA BytesOfOne ==
  ASSUME NEW chunk \in Chunk
  PROVE  Bytes(<<chunk>>) = chunk.size
<1> DEFINE sizes == [i \in DOMAIN <<chunk>> |-> <<chunk>>[i].size]
<1>1. DOMAIN sizes = {1} /\ sizes[1] = chunk.size /\ chunk.size \in Int
  BY DEF Chunk
<1>2. Bytes(<<chunk>>) = SumFunctionOnSet(sizes, {1})
  BY <1>1, Zenon DEF Bytes, SumFunction
<1> HIDE DEF sizes
<1>3. SumFunctionOnSet(sizes, {1}) = sizes[1]
  BY <1>1, SumSmall
<1>4. QED BY <1>1, <1>2, <1>3

\* What trimming keeps is an end of the output, not empty and within the bound.
LEMMA TrimmedIsSuffix ==
  ASSUME NEW output \in Seq(Chunk), output # <<>>
  PROVE  \E i \in 1..Len(output) :
           /\ Trimmed(output) = SubSeq(output, i, Len(output))
           /\ Bytes(Trimmed(output)) <= MaxOutput
<1> DEFINE n       == Len(output)
           rest(i) == SubSeq(output, i, n)
           fits    == {i \in DOMAIN output : Bytes(rest(i)) <= MaxOutput \/ i = n}
           first   == Min(fits)
<1>1. n \in Nat \ {0} /\ DOMAIN output = 1..n
  OBVIOUS
<1>2. n \in fits /\ fits \in SUBSET Nat
  BY <1>1
<1>3. first \in fits
  <2> HIDE DEF fits
  <2> QED BY <1>2, MinIsLeast
<1>4. Trimmed(output) = rest(first)
  BY DEF Trimmed
<1>5. Bytes(rest(n)) <= MaxOutput
  <2>1. output[n] \in Chunk
    BY <1>1
  <2>2. rest(n) = <<output[n]>>
    <3>1. rest(n) \in Seq(Chunk) /\ Len(rest(n)) = 1 /\ rest(n)[1] = output[n]
      <4>1. \A i \in n..n : output[i] \in Chunk
        BY <1>1, <2>1
      <4>2. n - n + 1 = 1 /\ n \in Int /\ n + 1 - 1 = n /\ n <= n
        BY <1>1
      <4> HIDE DEF n
      <4>3. /\ rest(n) \in Seq(Chunk) /\ Len(rest(n)) = n - n + 1
            /\ \A i \in 1..(n - n + 1) : rest(n)[i] = output[n + i - 1]
        BY <4>1, <4>2, SubSeqProperties
      <4>4. QED BY <4>2, <4>3
    <3> HIDE DEF rest
    <3>2. QED BY <3>1, <2>1
  <2>3. Bytes(<<output[n]>>) = output[n].size
    BY <2>1, BytesOfOne
  <2>4. output[n].size <= MaxOutput
    BY <2>1 DEF Chunk
  <2>5. QED BY <2>2, <2>3, <2>4
<1>6. Bytes(rest(first)) <= MaxOutput
  BY <1>3, <1>5
<1>7. QED BY <1>1, <1>3, <1>4, <1>6

\* What an end of a sequence holds.
LEMMA EndOfSequence ==
  ASSUME NEW S, NEW s \in Seq(S), NEW i \in 1..Len(s)
  PROVE  LET rest == SubSeq(s, i, Len(s))
         IN /\ rest \in Seq(S)
            /\ Len(rest) = Len(s) + 1 - i
            /\ \A k \in 1..(Len(s) + 1 - i) : i + k - 1 \in 1..Len(s) /\ rest[k] = s[i + k - 1]
<1> DEFINE n == Len(s)
<1>1. n \in Nat /\ \A k \in i..n : s[k] \in S
  OBVIOUS
<1>2. n - i + 1 = n + 1 - i /\ i <= n /\ i \in Int /\ n \in Int
  BY <1>1
<1>3. \A k \in 1..(n + 1 - i) : i + k - 1 \in 1..n
  BY <1>1
<1> HIDE DEF n
<1>4. /\ SubSeq(s, i, n) \in Seq(S)
      /\ Len(SubSeq(s, i, n)) = n - i + 1
      /\ \A k \in 1..(n - i + 1) : SubSeq(s, i, n)[k] = s[i + k - 1]
  BY <1>1, <1>2, SubSeqProperties
<1>5. QED BY <1>2, <1>3, <1>4 DEF n

\* appendOutput keeps the rest of the command, numbers on and stays within the bound.
LEMMA AppendedOutput ==
  ASSUME NEW cmd \in Command, NEW size \in Nat \ {0}, cmd.nextSequence <= MaxWrites + 1
  PROVE  LET new == Appended(cmd, size)
         IN /\ new \in Command
            /\ new = [cmd EXCEPT !.output = new.output, !.nextSequence = cmd.nextSequence + 1]
            /\ SequencesOf(new) \subseteq SequencesOf(cmd) \cup {cmd.nextSequence}
            /\ Bytes(new.output) <= MaxOutput
            /\ Gapless(cmd) => Gapless(new)
<1> DEFINE chunk == [sequence |-> cmd.nextSequence, size |-> IF size > MaxOutput THEN MaxOutput ELSE size]
           long  == Append(cmd.output, chunk)
           new   == Appended(cmd, size)
           n     == Len(cmd.output)
           next  == cmd.nextSequence
<1>1. next \in SequenceNumbers /\ next \in Int /\ cmd.output \in Seq(Chunk)
  BY DEF Command, SequenceNumbers
<1>2. chunk \in Chunk /\ chunk.sequence = next
  BY <1>1 DEF Chunk
<1> HIDE DEF chunk
<1>3. /\ long \in Seq(Chunk) /\ long # <<>> /\ n \in Nat /\ Len(long) = n + 1 /\ long[n + 1] = chunk
      /\ \A i \in 1..n : long[i] = cmd.output[i]
  BY <1>1, <1>2
<1>4. new = [cmd EXCEPT !.output = Trimmed(long), !.nextSequence = next + 1]
  BY DEF Appended, chunk
<1> HIDE DEF new, long
<1>5. PICK i \in 1..Len(long) : /\ Trimmed(long) = SubSeq(long, i, Len(long))
                                /\ Bytes(Trimmed(long)) <= MaxOutput
  BY <1>3, TrimmedIsSuffix
<1> DEFINE m == n + 2 - i
<1>6. /\ new.output = Trimmed(long) /\ new.nextSequence = next + 1
      /\ new = [cmd EXCEPT !.output = new.output, !.nextSequence = next + 1]
  BY <1>4 DEF Command
<1>7. i \in Int /\ m \in Nat /\ Len(long) + 1 - i = m
  BY <1>3, <1>5
<1> HIDE DEF m
<1>8. /\ Trimmed(long) \in Seq(Chunk) /\ Len(Trimmed(long)) = m
      /\ \A k \in 1..m : i + k - 1 \in 1..(n + 1) /\ Trimmed(long)[k] = long[i + k - 1]
  BY <1>3, <1>5, <1>7, EndOfSequence
<1> HIDE DEF n
<1>9. new \in Command
  <2>1. next + 1 \in SequenceNumbers \cup {MaxWrites + 2}
    BY <1>1 DEF SequenceNumbers
  <2> HIDE DEF next
  <2>2. QED BY <2>1, <1>4, <1>8 DEF Command
<1>10. /\ new.output \in Seq(Chunk) /\ Len(new.output) = m /\ DOMAIN new.output = 1..m
  BY <1>6, <1>8
\* The chunk at each position of the new output is an old one or the one appended.
<1>11. ASSUME NEW k \in 1..m
       PROVE  \/ i + k - 1 = n + 1 /\ new.output[k] = chunk
              \/ i + k - 1 \in DOMAIN cmd.output /\ new.output[k] = cmd.output[i + k - 1]
  <2>1. i + k - 1 \in 1..(n + 1) /\ new.output[k] = long[i + k - 1]
    BY <1>6, <1>8
  <2>2. CASE i + k - 1 = n + 1
    BY <1>3, <2>1, <2>2
  <2>3. CASE i + k - 1 # n + 1
    <3>1. i + k - 1 \in 1..n
      BY <1>3, <1>7, <2>1, <2>3
    <3>2. DOMAIN cmd.output = 1..n
      BY <1>1 DEF n
    <3>3. QED BY <1>3, <2>1, <3>1, <3>2
  <2>4. QED BY <2>2, <2>3
<1>12. SequencesOf(new) \subseteq SequencesOf(cmd) \cup {next}
  <2>1. \A k \in 1..m : new.output[k].sequence \in SequencesOf(cmd) \cup {next}
    BY <1>2, <1>11 DEF SequencesOf
  <2>2. QED BY <1>10, <2>1 DEF SequencesOf
<1>13. ASSUME Gapless(cmd)
       PROVE  Gapless(new)
  <2>1. SUFFICES ASSUME NEW k \in 1..m
                 PROVE  new.output[k].sequence = next - m + k
    <3>1. \A k \in 1..m : new.nextSequence - 1 - Len(new.output) + k = next - m + k
      BY <1>1, <1>6, <1>7, <1>10
    <3>2. QED BY <1>10, <2>1, <3>1 DEF Gapless
  <2>2. m = n + 2 - i /\ n \in Int /\ k \in Int
    BY <1>3 DEF m
  <2>3. CASE i + k - 1 = n + 1 /\ new.output[k] = chunk
    BY <1>1, <1>2, <1>7, <2>2, <2>3
  <2>4. CASE i + k - 1 \in DOMAIN cmd.output /\ new.output[k] = cmd.output[i + k - 1]
    <3>1. cmd.output[i + k - 1].sequence = next - 1 - n + (i + k - 1)
      BY <1>13, <2>4 DEF Gapless, n
    <3>2. next - 1 - n + (i + k - 1) = next - m + k
      BY <1>1, <1>7, <2>2
    <3>3. QED BY <2>4, <3>1, <3>2
  <2>5. QED BY <1>11, <2>3, <2>4
<1>14. QED BY <1>5, <1>6, <1>9, <1>12, <1>13 DEF new

-----------------------------------------------------------------------------
(* The steps, and what they keep of Typed.                                 *)

\* A run that can still change has a number left for its next chunk.
LEMMA ActiveNumber ==
  ASSUME NEW cmd \in Command, Consistent(cmd), cmd.process \/ cmd.finalizing
  PROVE  cmd.nextSequence \in SequenceNumbers /\ cmd.nextSequence <= MaxWrites + 1
BY DEF Consistent, Command, SequenceNumbers

\* Every stream stays open or closed, on the run it was opened for.
StreamsKept ==
  /\ stream' \in [Streams -> StreamState \cup {None}]
  /\ \A s \in Streams : /\ stream'[s] = None <=> stream[s] = None
                        /\ stream[s] # None => stream'[s].run = stream[s].run

\* emit keeps them.
LEMMA ToldTyped ==
  ASSUME TypeOK, \A s \in Streams : StreamOK(s), NEW r \in Runs, NEW chunks \in SUBSET SequenceNumbers,
         NEW status \in ActiveStatuses \cup EndStatuses, stream' = Told(r, chunks, status)
  PROVE  StreamsKept
<1>1. SUFFICES ASSUME NEW s \in Streams
               PROVE  /\ stream'[s] \in StreamState \cup {None}
                      /\ stream'[s] = None <=> stream[s] = None
                      /\ stream[s] # None => stream'[s].run = stream[s].run
  <2>1. stream' = [s \in Streams |-> stream'[s]]
    BY Zenon DEF Told
  <2>2. QED BY <1>1, <2>1 DEF StreamsKept
<1>2. CASE s \in listeners[r]
  <2>1. stream[s] \in StreamState
    BY <1>2 DEF TypeOK, StreamOK
  <2>2. stream'[s] = [stream[s] EXCEPT !.seen = @ \cup chunks, !.status = status]
    BY <1>2 DEF Told
  <2>3. stream'[s] \in StreamState /\ stream'[s].run = stream[s].run
    BY <2>1, <2>2 DEF StreamState
  <2>4. QED BY <2>1, <2>3
<1>3. CASE s \notin listeners[r]
  BY <1>3 DEF Told, TypeOK
<1>4. QED BY <1>2, <1>3

\* The last step of a run that holds no process any more, or never had one.
LEMMA FinishKeepsTyped ==
  ASSUME Typed, NEW r \in Runs, NEW cmd \in Command, NEW chunks \in SUBSET SequenceNumbers,
         NEW status \in EndStatuses, cmd.stopRequested <=> status = "stopped",
         alive[r] = {}, Finish(r, cmd, chunks, status), UNCHANGED <<alive, exited, closed>>
  PROVE  Typed'
<1> DEFINE new == [cmd EXCEPT !.status = status, !.process = FALSE,
                              !.finalizing = FALSE, !.stopTimer = FALSE]
<1>1. new \in Command /\ Consistent(new) /\ new.status = status
  <2>1. /\ new \in Command /\ new.status = status /\ new.process = FALSE /\ new.finalizing = FALSE
        /\ new.stopTimer = FALSE /\ new.stopRequested = cmd.stopRequested
    BY DEF Command, EndStatuses
  <2>2. Consistent(new)
    <3> HIDE DEF new
    <3> QED BY <2>1 DEF Consistent, EndStatuses, ActiveStatuses
  <2>3. QED BY <2>1, <2>2
<1>2. new # None /\ status \notin ActiveStatuses
  BY <1>1 DEF ActiveStatuses, EndStatuses
<1>3. /\ command' = [command EXCEPT ![r] = new]
      /\ stream' = Told(r, chunks, status)
  BY DEF Finish
<1> HIDE DEF new
<1>4. /\ command' \in [Runs -> Command \cup {None}] /\ command'[r] = new
      /\ \A q \in Runs : q # r => command'[q] = command[q]
  BY <1>1, <1>3 DEF Typed, TypeOK
<1> DEFINE done == {q \in commands \cup {r} : /\ command'[q].group = cmd.group
                                              /\ command'[q].status \in EndStatuses}
<1>5. /\ commands' = (commands \cup {r}) \ Obsolete(done)
      /\ listeners' = [q \in Runs |-> IF q \in Obsolete(done) THEN {} ELSE listeners[q]]
  BY Zenon DEF Finish, Prune
<1>6. \A q \in Obsolete(done) : q \in done
  BY DEF Obsolete
<1>7. \A q \in Runs : IsActive(q)' => q # r /\ IsActive(q) /\ q \notin Obsolete(done)
  BY <1>1, <1>2, <1>4, <1>6 DEF IsActive, Started, ActiveStatuses, EndStatuses
<1> HIDE DEF done
<1>8. StreamsKept
  BY <1>3, ToldTyped DEF Typed, ActiveStatuses, EndStatuses
<1>9. TypeOK'
  <2>1. commands' \subseteq {q \in Runs : command'[q] # None}
    BY <1>2, <1>4, <1>5 DEF Typed, TypeOK
  <2>2. listeners' \in [Runs -> SUBSET Streams]
    BY <1>5 DEF Typed, TypeOK
  <2>3. \A q \in Runs : command'[q] # None =>
          /\ command'[q].process /\ command'[q].finalizing => FALSE
          /\ command'[q].stopTimer => command'[q].stopRequested
    BY <1>1, <1>4 DEF Typed, TypeOK, Consistent
  <2>4. QED BY <1>4, <1>8, <2>1, <2>2, <2>3 DEF Typed, TypeOK, StreamsKept
<1>10. ASSUME NEW q \in Runs
       PROVE  RunOK(q)'
  <2>1. CASE q = r
    BY <1>1, <1>2, <1>4, <1>7, <2>1 DEF RunOK, Typed
  <2>2. CASE q # r
    BY <1>4, <1>5, <1>7, <2>2 DEF RunOK, Typed, TypeOK
  <2>3. QED BY <2>1, <2>2
<1>11. ASSUME NEW s \in Streams
       PROVE  StreamOK(s)'
  <2>1. \A q \in Runs : listeners'[q] \subseteq listeners[q]
    BY <1>5 DEF Typed, TypeOK
  <2>2. \A q \in Runs : IsActive(q)' => IsActive(q) /\ listeners'[q] = listeners[q]
    BY <1>5, <1>7
  <2>3. stream[s] # None => stream[s].run \in Runs
    BY DEF Typed, TypeOK, StreamState
  <2>4. \A q \in Runs : command[q] # None => command'[q] # None
    BY <1>2, <1>4
  <2>5. QED BY <1>8, <2>1, <2>2, <2>3, <2>4 DEF StreamOK, Typed, StreamsKept
<1>12. QED BY <1>9, <1>10, <1>11 DEF Typed

\* What a stop does to the runs it reaches.
LEMMA StopEachKeepsTyped ==
  ASSUME Typed, NEW S \in SUBSET Stoppable(commands), StopEach(S), UNCHANGED <<commands, alive, exited>>,
         \/ UNCHANGED <<listeners, closed>>
         \/ listeners' = [r \in Runs |-> {}] /\ closed' = TRUE
  PROVE  Typed'
<1> DEFINE stopped(r) == [command[r] EXCEPT !.stopRequested = TRUE, !.status = "stopping", !.stopTimer = TRUE]
<1>1. /\ command' = [r \in Runs |-> IF r \in S THEN stopped(r) ELSE command[r]]
      /\ stream' = [s \in Streams |-> IF \E r \in S : s \in listeners[r]
                                      THEN [stream[s] EXCEPT !.status = "stopping"] ELSE stream[s]]
  BY DEF StopEach
<1>2. \A r \in S : /\ r \in Runs /\ r \in commands /\ command[r] \in Command /\ command[r] # None
                   /\ IsActive(r) /\ Consistent(command[r])
  BY DEF Stoppable, IsActive, Started, Typed, TypeOK, RunOK
<1>3. \A r \in S : /\ stopped(r) \in Command /\ stopped(r) # None /\ Consistent(stopped(r))
                   /\ stopped(r).status \in ActiveStatuses /\ stopped(r).process = command[r].process
  <2>1. SUFFICES ASSUME NEW r \in S
                 PROVE  /\ stopped(r) \in Command /\ Consistent(stopped(r))
                        /\ stopped(r).status \in ActiveStatuses /\ stopped(r).process = command[r].process
    BY <1>2
  <2>2. /\ stopped(r) \in Command /\ stopped(r).status = "stopping"
        /\ stopped(r).stopRequested /\ stopped(r).stopTimer
        /\ stopped(r).process = command[r].process /\ stopped(r).finalizing = command[r].finalizing
        /\ stopped(r).nextSequence = command[r].nextSequence
    BY <1>2 DEF Command, ActiveStatuses
  <2>3. Consistent(command[r]) /\ command[r].status \in ActiveStatuses
    BY <1>2 DEF IsActive
  <2> HIDE DEF stopped
  <2>4. QED BY <2>2, <2>3 DEF Consistent, ActiveStatuses, EndStatuses
<1> HIDE DEF stopped
<1>4. \A r \in Runs : (command'[r] = None <=> command[r] = None) /\ (IsActive(r)' <=> IsActive(r))
  BY <1>1, <1>2, <1>3 DEF IsActive, Started
<1>5. StreamsKept
  <2>1. SUFFICES ASSUME NEW s \in Streams
                 PROVE  /\ stream'[s] \in StreamState \cup {None}
                        /\ stream'[s] = None <=> stream[s] = None
                        /\ stream[s] # None => stream'[s].run = stream[s].run
    <3>1. stream' = [s \in Streams |-> stream'[s]]
      BY <1>1, Zenon
    <3>2. QED BY <2>1, <3>1 DEF StreamsKept
  <2>2. CASE \E r \in S : s \in listeners[r]
    <3>1. stream[s] \in StreamState
      BY <1>2, <2>2 DEF Typed, TypeOK, StreamOK
    <3>2. stream'[s] = [stream[s] EXCEPT !.status = "stopping"]
      BY <1>1, <2>2
    <3>3. stream'[s] \in StreamState /\ stream'[s].run = stream[s].run
      BY <3>1, <3>2 DEF StreamState, ActiveStatuses
    <3>4. QED BY <3>1, <3>3
  <2>3. CASE ~ \E r \in S : s \in listeners[r]
    BY <1>1, <2>3 DEF Typed, TypeOK
  <2>4. QED BY <2>2, <2>3
<1>6. TypeOK'
  <2>1. command' \in [Runs -> Command \cup {None}]
    BY <1>1, <1>3 DEF Typed, TypeOK
  <2>2. \A r \in Runs : command'[r] # None =>
          /\ command'[r].process /\ command'[r].finalizing => FALSE
          /\ command'[r].stopTimer => command'[r].stopRequested
    BY <1>1, <1>3 DEF Typed, TypeOK, Consistent
  <2>3. listeners' \in [Runs -> SUBSET Streams] /\ closed' \in BOOLEAN
    BY DEF Typed, TypeOK
  <2>4. QED BY <1>4, <1>5, <2>1, <2>2, <2>3 DEF Typed, TypeOK, StreamsKept
<1>7. ASSUME NEW r \in Runs
      PROVE  RunOK(r)'
  <2>1. CASE r \in S
    BY <1>1, <1>2, <1>3, <1>4, <2>1 DEF RunOK, Typed
  <2>2. CASE r \notin S
    BY <1>1, <1>4, <2>2 DEF RunOK, Typed
  <2>3. QED BY <2>1, <2>2
<1>8. ASSUME NEW s \in Streams
      PROVE  StreamOK(s)'
  <2>1. stream[s] # None => stream[s].run \in Runs
    BY DEF Typed, TypeOK, StreamState
  <2>2. QED BY <1>4, <1>5, <2>1 DEF StreamOK, Typed, StreamsKept
<1>9. QED BY <1>6, <1>7, <1>8 DEF Typed

\* An empty runner is consistent.
LEMMA TypedInit ==
  Init => Typed
BY DEF Init, Typed, TypeOK, RunOK, StreamOK, IsActive, Started

\* A new command, running or failed at once.
LEMMA NewCommandTyped ==
  ASSUME TypeOK, NEW g \in Groups, NEW k \in Keys, NEW t \in Times
  PROVE  NewCommand(g, k, t) \in Command
<1>1. Started \in SUBSET Runs
  BY DEF Started
<1>2. Cardinality(Started) \in Nat
  BY <1>1, FS_Subset, FS_CardinalityType
<1>3. <<>> \in Seq(Chunk) /\ 1 \in SequenceNumbers
  BY DEF SequenceNumbers
<1>4. QED BY <1>2, <1>3 DEF NewCommand, Command, ActiveStatuses

\* start: the new record is running, and its processes are its own.
LEMMA StartKeepsTyped ==
  ASSUME Typed, NEW r \in Runs, Start(r)
  PROVE  Typed'
<1>1. PICK g \in Groups, k \in Keys, t \in Times : command' = [command EXCEPT ![r] = [NewCommand(g, k, t) EXCEPT !.process = TRUE]]
  BY DEF Start
<1> DEFINE new == [NewCommand(g, k, t) EXCEPT !.process = TRUE]
<1>2. /\ new \in Command /\ new # None /\ new.status = "running" /\ new.process /\ ~new.finalizing
      /\ ~new.stopRequested /\ ~new.stopTimer /\ new.nextSequence = 1
  <2>1. NewCommand(g, k, t) \in Command
    BY NewCommandTyped DEF Typed
  <2>2. /\ NewCommand(g, k, t).status = "running" /\ ~NewCommand(g, k, t).finalizing
        /\ ~NewCommand(g, k, t).stopRequested /\ ~NewCommand(g, k, t).stopTimer
        /\ NewCommand(g, k, t).nextSequence = 1
    BY DEF NewCommand
  <2>3. QED BY <2>1, <2>2 DEF Command
<1>3. Consistent(new)
  <2> HIDE DEF new
  <2> QED BY <1>2 DEF Consistent, ActiveStatuses
<1> HIDE DEF new
<1>4. /\ command[r] = None /\ alive[r] = {} /\ listeners[r] = {} /\ r \notin commands
      /\ command' = [command EXCEPT ![r] = new]
      /\ commands' = commands \cup {r} /\ alive' = [alive EXCEPT ![r] = Processes]
      /\ UNCHANGED <<listeners, stream, exited, closed>>
  BY <1>1 DEF Start, Typed, TypeOK, RunOK, new
<1>5. \A q \in Runs : q # r => command'[q] = command[q] /\ alive'[q] = alive[q]
                               /\ (IsActive(q)' <=> IsActive(q))
  BY <1>4 DEF Typed, TypeOK, IsActive, Started
<1>6. command'[r] = new /\ alive'[r] = Processes
  BY <1>4 DEF Typed, TypeOK
<1>7. TypeOK'
  BY <1>2, <1>4, <1>5, <1>6 DEF Typed, TypeOK
<1>8. ASSUME NEW q \in Runs
      PROVE  RunOK(q)'
  <2>1. CASE q = r
    BY <1>2, <1>3, <1>4, <1>6, <2>1 DEF RunOK
  <2>2. CASE q # r
    BY <1>4, <1>5, <2>2 DEF RunOK, Typed
  <2>3. QED BY <2>1, <2>2
<1>9. ASSUME NEW s \in Streams
      PROVE  StreamOK(s)'
  <2>1. stream[s] # None => stream[s].run \in Runs /\ stream[s].run # r
    BY <1>4 DEF Typed, TypeOK, StreamState, StreamOK
  <2>2. QED BY <1>2, <1>4, <1>5, <2>1 DEF StreamOK, Typed
<1>10. QED BY <1>7, <1>8, <1>9 DEF Typed

\* A start that fails has no process and nobody who listens.
LEMMA StartFailsKeepsTyped ==
  ASSUME Typed, NEW r \in Runs, StartFails(r)
  PROVE  Typed'
<1>1. PICK g \in Groups, k \in Keys, t \in Times : Finish(r, Appended(NewCommand(g, k, t), 1), {1}, "failed")
  BY DEF StartFails
<1> DEFINE new == Appended(NewCommand(g, k, t), 1)
<1>2. NewCommand(g, k, t) \in Command
  BY NewCommandTyped DEF Typed
<1>3. NewCommand(g, k, t).nextSequence = 1 /\ NewCommand(g, k, t).stopRequested = FALSE
  BY DEF NewCommand
<1>4. /\ new \in Command
      /\ new = [NewCommand(g, k, t) EXCEPT !.output = new.output, !.nextSequence = NewCommand(g, k, t).nextSequence + 1]
  <2>1. NewCommand(g, k, t).nextSequence <= MaxWrites + 1 /\ 1 \in Nat \ {0}
    BY <1>3
  <2>2. QED BY <1>2, <2>1, AppendedOutput
<1> HIDE DEF new
<1>5. new.stopRequested = FALSE
  BY <1>2, <1>3, <1>4 DEF Command
<1>6. alive[r] = {} /\ UNCHANGED <<alive, exited, closed>>
  BY DEF StartFails, Typed, RunOK
<1>7. {1} \in SUBSET SequenceNumbers /\ "failed" \in EndStatuses
  BY DEF SequenceNumbers, EndStatuses
<1>8. Finish(r, new, {1}, "failed")
  BY <1>1 DEF new
<1>9. QED BY <1>4, <1>5, <1>6, <1>7, <1>8, FinishKeepsTyped

\* A process that exits changes no record.
LEMMA ExitsKeepTyped ==
  ASSUME Typed, NEW r \in Runs, LeaderExits(r) \/ DescendantExits(r)
  PROVE  Typed'
<1>1. /\ UNCHANGED <<command, commands, listeners, stream, closed>>
      /\ \A q \in Runs : alive'[q] \subseteq alive[q]
      /\ alive' \in [Runs -> SUBSET Processes]
      /\ exited' \in [Runs -> {"zero", "other", None}]
  <2>1. CASE LeaderExits(r)
    BY <2>1 DEF LeaderExits, Typed, TypeOK
  <2>2. CASE DescendantExits(r)
    BY <2>2 DEF DescendantExits, Typed, TypeOK
  <2>3. QED BY <2>1, <2>2
<1>2. \A q \in Runs : IsActive(q)' <=> IsActive(q)
  BY <1>1 DEF IsActive, Started
<1>3. TypeOK'
  BY <1>1 DEF Typed, TypeOK
<1>4. \A q \in Runs : RunOK(q)'
  BY <1>1, <1>2 DEF Typed, RunOK
<1>5. \A s \in Streams : StreamOK(s)'
  BY <1>1, <1>2 DEF Typed, StreamOK, TypeOK, StreamState
<1>6. QED BY <1>3, <1>4, <1>5 DEF Typed

\* A step that changes the record of one run, which stays as active as it was or ends as
\* active, and tells its listeners.
LEMMA UpdateKeepsTyped ==
  ASSUME Typed, NEW r \in Runs, NEW new \in Command, command[r] # None, Consistent(new), new.status \in ActiveStatuses => IsActive(r),
         alive'[r] # {} => new.process, \A q \in Runs : alive'[q] \subseteq alive[q],
         alive' \in [Runs -> SUBSET Processes], exited' \in [Runs -> {"zero", "other", None}],
         command' = [command EXCEPT ![r] = new],
         StreamsKept,
         UNCHANGED <<commands, listeners, closed>>
  PROVE  Typed'
<1>1. command'[r] = new /\ new # None /\ \A q \in Runs : q # r => command'[q] = command[q]
  BY DEF Typed, TypeOK
<1>2. \A q \in Runs : (command'[q] = None <=> command[q] = None) /\ (IsActive(q)' => IsActive(q))
  BY <1>1 DEF IsActive, Started
<1>3. TypeOK'
  <2>1. \A q \in Runs : command'[q] # None =>
          /\ command'[q].process /\ command'[q].finalizing => FALSE
          /\ command'[q].stopTimer => command'[q].stopRequested
    BY <1>1 DEF Typed, TypeOK, Consistent
  <2>2. QED BY <1>1, <1>2, <2>1 DEF Typed, TypeOK, StreamsKept
<1>4. ASSUME NEW q \in Runs
      PROVE  RunOK(q)'
  <2>1. CASE q = r
    BY <1>1, <1>2, <2>1 DEF RunOK, Typed
  <2>2. CASE q # r
    BY <1>1, <1>2, <2>2 DEF RunOK, Typed
  <2>3. QED BY <2>1, <2>2
<1>5. ASSUME NEW s \in Streams
      PROVE  StreamOK(s)'
  <2>1. stream[s] # None => stream[s].run \in Runs
    BY DEF Typed, TypeOK, StreamState
  <2>2. QED BY <1>2, <2>1 DEF StreamOK, Typed, StreamsKept
<1>6. QED BY <1>3, <1>4, <1>5 DEF Typed

\* A piece of output is appended to the record of an active run.
LEMMA OutputKeepsTyped ==
  ASSUME Typed, NEW r \in Runs, Output(r)
  PROVE  Typed'
<1>1. /\ command[r] # None /\ command[r] \in Command /\ command[r].process /\ Consistent(command[r])
      /\ command[r].nextSequence <= MaxWrites
      /\ UNCHANGED <<commands, listeners, alive, exited, closed>>
  BY DEF Output, Typed, TypeOK, RunOK
<1>2. PICK size \in Sizes : command' = [command EXCEPT ![r] = Appended(@, size)]
  BY DEF Output
<1> DEFINE cmd == command[r]
           new == Appended(cmd, size)
<1>3. cmd.nextSequence \in SequenceNumbers /\ cmd.nextSequence \in Nat /\ cmd.nextSequence <= MaxWrites + 1
  BY <1>1, ActiveNumber DEF SequenceNumbers
<1>4. /\ new \in Command
      /\ new = [cmd EXCEPT !.output = new.output, !.nextSequence = cmd.nextSequence + 1]
  BY <1>1, <1>3, AppendedOutput
<1> HIDE DEF new
<1>5. /\ new.nextSequence = cmd.nextSequence + 1 /\ new.status = cmd.status /\ new.process = cmd.process
      /\ new.finalizing = cmd.finalizing /\ new.stopRequested = cmd.stopRequested
      /\ new.stopTimer = cmd.stopTimer
  BY <1>1, <1>4 DEF Command
<1>6. Consistent(new)
  BY <1>1, <1>3, <1>5 DEF Consistent
<1>7. IsActive(r) /\ cmd.status \in ActiveStatuses
  BY <1>1 DEF IsActive, Started, Consistent
<1>8. StreamsKept
  <2>1. ASSUME NEW s \in Streams, s \in listeners[r]
        PROVE  /\ [stream[s] EXCEPT !.seen = @ \cup {cmd.nextSequence}] \in StreamState
               /\ [stream[s] EXCEPT !.seen = @ \cup {cmd.nextSequence}].run = stream[s].run
    <3>1. stream[s] \in StreamState
      BY <2>1 DEF Typed, TypeOK, StreamOK
    <3> HIDE DEF cmd
    <3>2. QED BY <3>1, <1>3 DEF StreamState
  <2>2. stream' = [s \in Streams |-> IF s \in listeners[r]
                                     THEN [stream[s] EXCEPT !.seen = @ \cup {cmd.nextSequence}]
                                     ELSE stream[s]]
    BY DEF Output
  <2>3. \A s \in listeners[r] : stream[s] # None
    BY DEF Typed, TypeOK, StreamOK
  <2>4. \A s \in Streams : s \notin listeners[r] => stream'[s] = stream[s]
    BY <2>2
  <2>5. \A s \in Streams : s \in listeners[r] =>
          stream'[s] \in StreamState /\ stream'[s].run = stream[s].run
    BY <2>1, <2>2
  <2>6. stream' = [s \in Streams |-> stream'[s]]
    BY <2>2, Zenon
  <2>7. QED BY <2>3, <2>4, <2>5, <2>6 DEF StreamsKept, Typed, TypeOK
<1>9. command' = [command EXCEPT ![r] = new]
  BY <1>2 DEF new, Typed, TypeOK
<1>10. /\ alive'[r] # {} => new.process
       /\ \A q \in Runs : alive'[q] \subseteq alive[q]
       /\ alive' \in [Runs -> SUBSET Processes] /\ exited' \in [Runs -> {"zero", "other", None}]
  BY <1>1, <1>5 DEF Typed, TypeOK
<1>11. QED BY <1>1, <1>4, <1>6, <1>7, <1>8, <1>9, <1>10, UpdateKeepsTyped

\* monitor finishes the run, or hands it to its finalizer.
LEMMA MonitorEndsKeepsTyped ==
  ASSUME Typed, NEW r \in Runs, MonitorEnds(r)
  PROVE  Typed'
<1> DEFINE cmd == command[r]
<1>1. /\ cmd # None /\ cmd \in Command /\ cmd.process /\ Consistent(cmd) /\ alive[r] = {}
      /\ UNCHANGED <<alive, exited, closed>>
  BY DEF MonitorEnds, ProcessOver, Typed, TypeOK, RunOK
<1>2. ASSUME NEW status \in EndStatuses, cmd.stopRequested <=> status = "stopped", Finish(r, cmd, {}, status)
      PROVE  Typed'
  <2> HIDE DEF cmd
  <2> QED BY <1>1, <1>2, FinishKeepsTyped
<1>3. ASSUME ~cmd.stopRequested,
             command' = [command EXCEPT ![r] = [@ EXCEPT !.status = "finalizing", !.process = FALSE,
                                                         !.finalizing = TRUE]],
             stream' = Told(r, {}, "finalizing"), UNCHANGED <<commands, listeners>>
      PROVE  Typed'
  <2> DEFINE new == [cmd EXCEPT !.status = "finalizing", !.process = FALSE, !.finalizing = TRUE]
  <2>1. /\ new \in Command /\ new.status = "finalizing" /\ ~new.process /\ new.finalizing
        /\ new.stopRequested = cmd.stopRequested /\ new.stopTimer = cmd.stopTimer
        /\ new.nextSequence = cmd.nextSequence
    BY <1>1 DEF Command, ActiveStatuses
  <2>2. command' = [command EXCEPT ![r] = new]
    BY <1>3 DEF Typed, TypeOK
  <2> HIDE DEF new
  <2>3. Consistent(new)
    BY <1>1, <1>3, <2>1 DEF Consistent, ActiveStatuses, EndStatuses
  <2>4. IsActive(r)
    BY <1>1 DEF IsActive, Started, Consistent
  <2>5. StreamsKept
    BY <1>3, ToldTyped DEF Typed, ActiveStatuses
  <2>6. alive' \in [Runs -> SUBSET Processes] /\ exited' \in [Runs -> {"zero", "other", None}]
    BY <1>1 DEF Typed, TypeOK
  <2>7. QED BY <1>1, <1>3, <2>1, <2>2, <2>3, <2>4, <2>5, <2>6, UpdateKeepsTyped
<1>4. \/ cmd.stopRequested /\ Finish(r, cmd, {}, "stopped")
      \/ ~cmd.stopRequested /\ Finish(r, cmd, {}, "failed")
      \/ ~cmd.stopRequested /\ Finish(r, cmd, {}, "succeeded")
      \/ /\ ~cmd.stopRequested
         /\ command' = [command EXCEPT ![r] = [@ EXCEPT !.status = "finalizing", !.process = FALSE,
                                                        !.finalizing = TRUE]]
         /\ stream' = Told(r, {}, "finalizing")
         /\ UNCHANGED <<commands, listeners>>
  BY Zenon DEF MonitorEnds
<1>5. {"stopped", "failed", "succeeded"} \subseteq EndStatuses /\ "failed" # "stopped" /\ "succeeded" # "stopped"
  BY DEF EndStatuses
<1> HIDE DEF cmd
<1>6. QED BY <1>2, <1>3, <1>4, <1>5

\* The end of a finalizer finishes the run as its stop request says.
LEMMA FinalizerEndsKeepsTyped ==
  ASSUME Typed, NEW r \in Runs, FinalizerEnds(r)
  PROVE  Typed'
<1> DEFINE cmd == command[r]
           new == Appended(cmd, 1)
<1>1. /\ cmd # None /\ cmd \in Command /\ cmd.finalizing /\ ~cmd.process /\ Consistent(cmd) /\ alive[r] = {}
      /\ UNCHANGED <<alive, exited, closed>>
  BY DEF FinalizerEnds, Typed, TypeOK, RunOK, Consistent
<1>2. \/ Finish(r, cmd, {}, Outcome(cmd, "succeeded"))
      \/ Finish(r, new, {cmd.nextSequence}, Outcome(cmd, "failed"))
  BY Zenon DEF FinalizerEnds
<1> HIDE DEF cmd
<1>3. \A status \in {"succeeded", "failed"} :
        /\ Outcome(cmd, status) \in EndStatuses
        /\ cmd.stopRequested <=> Outcome(cmd, status) = "stopped"
  BY <1>1 DEF Outcome, EndStatuses, Command
<1>4. CASE Finish(r, cmd, {}, Outcome(cmd, "succeeded"))
  BY <1>1, <1>3, <1>4, FinishKeepsTyped
<1>5. CASE Finish(r, new, {cmd.nextSequence}, Outcome(cmd, "failed"))
  <2>1. cmd.nextSequence \in SequenceNumbers /\ cmd.nextSequence <= MaxWrites + 1 /\ 1 \in Nat \ {0}
    BY <1>1, ActiveNumber
  <2>2. /\ new \in Command
        /\ new = [cmd EXCEPT !.output = new.output, !.nextSequence = cmd.nextSequence + 1]
    BY <1>1, <2>1, AppendedOutput
  <2> HIDE DEF new
  <2>3. new.stopRequested = cmd.stopRequested
    BY <1>1, <2>2 DEF Command
  <2>4. QED BY <1>1, <1>3, <1>5, <2>1, <2>2, <2>3, FinishKeepsTyped
<1>6. QED BY <1>2, <1>4, <1>5

\* The timer of stop is spent, and the run keeps its status.
LEMMA KillTimerKeepsTyped ==
  ASSUME Typed, NEW r \in Runs, KillTimer(r)
  PROVE  Typed'
<1> DEFINE cmd == command[r]
           new == [cmd EXCEPT !.stopTimer = FALSE]
<1>1. /\ cmd # None /\ cmd \in Command /\ Consistent(cmd)
      /\ alive[r] # {} => cmd.process
      /\ command' = [command EXCEPT ![r] = new]
      /\ UNCHANGED <<commands, listeners, stream, closed>>
  BY DEF KillTimer, Typed, TypeOK, RunOK
<1>2. /\ new \in Command /\ new.status = cmd.status /\ new.process = cmd.process
      /\ new.finalizing = cmd.finalizing /\ new.stopRequested = cmd.stopRequested /\ ~new.stopTimer
      /\ new.nextSequence = cmd.nextSequence
  BY <1>1 DEF Command
<1>3. cmd.status \in ActiveStatuses => IsActive(r)
  BY <1>1 DEF IsActive, Started
<1>4. /\ alive' \in [Runs -> SUBSET Processes] /\ exited' \in [Runs -> {"zero", "other", None}]
      /\ \A q \in Runs : alive'[q] \subseteq alive[q]
  <2>1. CASE cmd.process
    <3>1. /\ alive' = [alive EXCEPT ![r] = @ \ Signalled(r)]
          /\ exited' = [exited EXCEPT ![r] = IF "leader" \in alive[r] THEN "other" ELSE @]
      BY <2>1 DEF KillTimer
    <3>2. QED BY <3>1 DEF Typed, TypeOK
  <2>2. CASE ~cmd.process
    BY <2>2 DEF KillTimer, Typed, TypeOK
  <2>3. QED BY <2>1, <2>2
<1>5. StreamsKept
  BY <1>1 DEF StreamsKept, Typed, TypeOK
<1> HIDE DEF new, cmd
<1>6. Consistent(new)
  BY <1>1, <1>2 DEF Consistent
<1>7. alive'[r] # {} => new.process
  BY <1>1, <1>2, <1>4
<1>8. cmd = command[r]
  BY DEF cmd
<1>9. QED BY <1>1, <1>2, <1>3, <1>4, <1>5, <1>6, <1>7, <1>8, UpdateKeepsTyped

\* stop, stopOwnerRepository and close put active runs to stopping.
LEMMA StopsKeepTyped ==
  ASSUME Typed, (\E r \in Runs : Stop(r)) \/ (\E g \in Groups : StopGroup(g)) \/ Close
  PROVE  Typed'
<1>1. CASE \E r \in Runs : Stop(r)
  <2>1. PICK r \in Runs : Stop(r)
    BY <1>1
  <2>2. /\ {r} \in SUBSET Stoppable(commands) /\ StopEach({r})
        /\ UNCHANGED <<commands, listeners, alive, exited, closed>>
    BY <2>1 DEF Stop
  <2>3. QED BY <2>2, StopEachKeepsTyped
<1>2. CASE \E g \in Groups : StopGroup(g)
  <2>1. PICK g \in Groups : StopGroup(g)
    BY <1>2
  <2> DEFINE S == {r \in Stoppable(commands) : command[r].group = g}
  <2>2. /\ S \in SUBSET Stoppable(commands) /\ StopEach(S)
        /\ UNCHANGED <<commands, listeners, alive, exited, closed>>
    BY <2>1 DEF StopGroup
  <2> HIDE DEF S
  <2>3. QED BY <2>2, StopEachKeepsTyped
<1>3. CASE Close
  BY <1>3, StopEachKeepsTyped DEF Close
<1>4. QED BY <1>1, <1>2, <1>3

\* A new stream listens to its run.
LEMMA SubscribeKeepsTyped ==
  ASSUME Typed, NEW s \in Streams, NEW r \in Runs, Subscribe(s, r)
  PROVE  Typed'
<1>1. /\ stream[s] = None /\ r \in commands /\ command[r] # None /\ command[r] \in Command
      /\ listeners' = [listeners EXCEPT ![r] = @ \cup {s}]
      /\ stream' = [stream EXCEPT ![s] = Snapshot(r)]
      /\ UNCHANGED <<command, commands, alive, exited, closed>>
  BY DEF Subscribe, Typed, TypeOK
<1>2. Snapshot(r) \in StreamState /\ Snapshot(r).run = r
  <2>1. SequencesOf(command[r]) \in SUBSET SequenceNumbers
    <3>1. \A i \in DOMAIN command[r].output : command[r].output[i] \in Chunk
      BY <1>1 DEF Command
    <3>2. QED BY <3>1 DEF SequencesOf, Chunk
  <2>2. command[r].status \in ActiveStatuses \cup EndStatuses
    BY <1>1 DEF Command
  <2>3. QED BY <2>1, <2>2 DEF Snapshot, StreamState
<1>3. /\ stream'[s] = Snapshot(r) /\ \A t \in Streams : t # s => stream'[t] = stream[t]
      /\ listeners'[r] = listeners[r] \cup {s} /\ \A q \in Runs : q # r => listeners'[q] = listeners[q]
  BY <1>1 DEF Typed, TypeOK
<1>4. \A q \in Runs : IsActive(q)' <=> IsActive(q)
  BY <1>1 DEF IsActive, Started
<1>5. TypeOK'
  BY <1>1, <1>2, <1>3 DEF Typed, TypeOK
<1>6. \A q \in Runs : RunOK(q)'
  BY <1>1, <1>3, <1>4 DEF Typed, RunOK
<1>7. ASSUME NEW t \in Streams
      PROVE  StreamOK(t)'
  <2>1. CASE t = s
    BY <1>1, <1>2, <1>3, <1>4, <2>1 DEF Typed, StreamOK
  <2>2. CASE t # s
    <3>1. stream[t] # None => stream[t].run \in Runs
      BY DEF Typed, TypeOK, StreamState
    <3>2. QED BY <1>1, <1>3, <1>4, <2>2, <3>1 DEF Typed, StreamOK
  <2>3. QED BY <2>1, <2>2
<1>8. QED BY <1>5, <1>6, <1>7 DEF Typed

\* A closed stream listens to none.
LEMMA UnsubscribeKeepsTyped ==
  ASSUME Typed, NEW s \in Streams, Unsubscribe(s)
  PROVE  Typed'
<1>1. /\ stream' = [stream EXCEPT ![s] = None]
      /\ listeners' = [r \in Runs |-> listeners[r] \ {s}]
      /\ UNCHANGED <<command, commands, alive, exited, closed>>
  BY DEF Unsubscribe
<1>2. \A q \in Runs : IsActive(q)' <=> IsActive(q)
  BY <1>1 DEF IsActive, Started
<1>3. TypeOK'
  BY <1>1 DEF Typed, TypeOK
<1>4. \A q \in Runs : RunOK(q)'
  BY <1>1, <1>2 DEF Typed, RunOK
<1>5. ASSUME NEW t \in Streams
      PROVE  StreamOK(t)'
  <2>1. stream[t] # None => stream[t].run \in Runs
    BY DEF Typed, TypeOK, StreamState
  <2>2. QED BY <1>1, <1>2, <2>1 DEF Typed, TypeOK, StreamOK
<1>6. QED BY <1>3, <1>4, <1>5 DEF Typed

\* Types, the consistency of every record and of the links between streams and runs are kept.
LEMMA TypedStep ==
  Typed /\ [Next]_vars => Typed'
<1>1. SUFFICES ASSUME Typed, [Next]_vars
               PROVE  Typed'
  OBVIOUS
<1>2. CASE \E r \in Runs : Start(r) \/ StartFails(r) \/ RunStep(r)
  BY <1>1, <1>2, StartKeepsTyped, StartFailsKeepsTyped, ExitsKeepTyped, OutputKeepsTyped,
     MonitorEndsKeepsTyped, FinalizerEndsKeepsTyped, KillTimerKeepsTyped DEF RunStep
<1>3. CASE (\E r \in Runs : Stop(r)) \/ (\E g \in Groups : StopGroup(g)) \/ Close
  BY <1>1, <1>3, StopsKeepTyped
<1>4. CASE \E s \in Streams : Unsubscribe(s) \/ \E r \in Runs : Subscribe(s, r)
  BY <1>1, <1>4, SubscribeKeepsTyped, UnsubscribeKeepsTyped
<1>5. CASE UNCHANGED vars
  BY <1>1, <1>5 DEF vars, Typed, TypeOK, RunOK, StreamOK, IsActive, Started
<1>6. QED BY <1>1, <1>2, <1>3, <1>4, <1>5, Zenon DEF Next

\* Every state has the types of the code's records, and their fields, the processes and the
\* links to the event streams agree.
THEOREM Typing == Spec => []Typed
<1>1. Init => Typed
  BY TypedInit
<1>2. Typed /\ [Next]_vars => Typed'
  BY TypedStep
<1>3. QED BY <1>1, <1>2, PTL DEF Spec

\* RepositoryCommandRunner.stop wins: a run that was asked to stop is stopping or stopped, and
\* no outcome of its process or of its finalizer makes it succeed or fail.
THEOREM StopDecides == Spec => []StopWins
<1>1. Typed => StopWins
  BY DEF Typed, RunOK, StopWins, Started, Consistent
<1>2. QED BY <1>1, Typing, PTL

\* A process that holds a run's pipes belongs to an active run of the map, which Stop reaches.
THEOREM ProcessesAreOwned == Spec => []ProcessesOwned
<1>1. Typed => ProcessesOwned
  BY DEF Typed, RunOK, ProcessesOwned, Active, IsActive, Started, Consistent
<1>2. QED BY <1>1, Typing, PTL

-----------------------------------------------------------------------------
(* What a step makes of the records: a run keeps its identity, never       *)
(* becomes active again, and its output grows by appendOutput only.        *)

SameRun(old, new) ==
  /\ new.group = old.group /\ new.key = old.key /\ new.startedAt = old.startedAt /\ new.place = old.place
  /\ new.status \in ActiveStatuses => old.status \in ActiveStatuses
  /\ \/ new.output = old.output /\ new.nextSequence = old.nextSequence
     \/ \E size \in Nat \ {0} :
          /\ old.nextSequence <= MaxWrites + 1
          /\ new.output = Appended(old, size).output
          /\ new.nextSequence = Appended(old, size).nextSequence

RunsGoOn ==
  /\ \A q \in Started : command'[q] # None /\ SameRun(command[q], command'[q])
  /\ \/ Started' = Started
     \/ \E r \in Runs \ Started, g \in Groups, k \in Keys, t \in Times :
          Started' = Started \cup {r} /\ Admitted(g, k) /\ SameRun(NewCommand(g, k, t), command'[r])

\* A step that changes the record of one run.
LEMMA OneRunGoesOn ==
  ASSUME Typed, NEW r \in Runs, NEW new \in Command, command' = [command EXCEPT ![r] = new],
         \/ command[r] # None /\ SameRun(command[r], new)
         \/ command[r] = None /\ \E g \in Groups, k \in Keys, t \in Times : Admitted(g, k) /\ SameRun(NewCommand(g, k, t), new)
  PROVE  RunsGoOn
<1>1. command'[r] = new /\ new # None /\ \A q \in Runs : q # r => command'[q] = command[q]
  BY DEF Typed, TypeOK
<1>2. \A q \in Runs : SameRun(command[q], command[q])
  BY DEF SameRun
<1>3. \A q \in Started : command'[q] # None /\ SameRun(command[q], command'[q])
  BY <1>1, <1>2 DEF Started
<1>4. Started' = Started \cup {r}
  BY <1>1 DEF Started
<1>5. CASE command[r] # None
  <2>1. Started' = Started
    BY <1>4, <1>5 DEF Started
  <2>2. QED BY <1>3, <2>1 DEF RunsGoOn
<1>6. CASE command[r] = None
  <2>1. r \in Runs \ Started
    BY <1>6 DEF Started
  <2>2. PICK g \in Groups, k \in Keys, t \in Times : Admitted(g, k) /\ SameRun(NewCommand(g, k, t), new)
    BY <1>6
  <2>3. QED BY <1>1, <1>3, <1>4, <2>1, <2>2 DEF RunsGoOn
<1>7. QED BY <1>5, <1>6

\* The record finish leaves.
LEMMA FinishedRecord ==
  ASSUME NEW cmd \in Command, NEW status \in EndStatuses
  PROVE  LET new == [cmd EXCEPT !.status = status, !.process = FALSE, !.finalizing = FALSE, !.stopTimer = FALSE]
         IN new \in Command /\ \A old : SameRun(old, cmd) => SameRun(old, new)
<1> DEFINE new == [cmd EXCEPT !.status = status, !.process = FALSE, !.finalizing = FALSE, !.stopTimer = FALSE]
<1>1. new \in Command
  BY DEF Command
<1>2. /\ new.group = cmd.group /\ new.key = cmd.key /\ new.startedAt = cmd.startedAt /\ new.place = cmd.place
      /\ new.output = cmd.output /\ new.nextSequence = cmd.nextSequence
      /\ new.status = status /\ status \notin ActiveStatuses
  BY DEF Command, EndStatuses, ActiveStatuses
<1> HIDE DEF new
<1>3. \A old : SameRun(old, cmd) => SameRun(old, new)
  BY <1>2 DEF SameRun
<1>4. QED BY <1>1, <1>3 DEF new

\* appendOutput leaves the record of the same run.
LEMMA AppendedSame ==
  ASSUME NEW cmd \in Command, NEW size \in Nat \ {0}, cmd.nextSequence <= MaxWrites + 1
  PROVE  Appended(cmd, size) \in Command /\ SameRun(cmd, Appended(cmd, size))
<1> DEFINE new == Appended(cmd, size)
<1>1. /\ new \in Command
      /\ new = [cmd EXCEPT !.output = new.output, !.nextSequence = cmd.nextSequence + 1]
  BY AppendedOutput
<1> HIDE DEF new
<1>2. /\ new.group = cmd.group /\ new.key = cmd.key /\ new.startedAt = cmd.startedAt /\ new.place = cmd.place
      /\ new.status = cmd.status
  BY <1>1 DEF Command
<1>3. new = Appended(cmd, size)
  BY DEF new
<1>4. SameRun(cmd, new)
  BY <1>2, <1>3 DEF SameRun
<1>5. QED BY <1>1, <1>4 DEF new

\* finish ends the run it was called for.
LEMMA FinishGoesOn ==
  ASSUME Typed, NEW r \in Runs, NEW cmd \in Command, NEW chunks, NEW status \in EndStatuses,
         Finish(r, cmd, chunks, status),
         \/ command[r] # None /\ SameRun(command[r], cmd)
         \/ command[r] = None /\ \E g \in Groups, k \in Keys, t \in Times : Admitted(g, k) /\ SameRun(NewCommand(g, k, t), cmd)
  PROVE  RunsGoOn
<1> DEFINE new == [cmd EXCEPT !.status = status, !.process = FALSE, !.finalizing = FALSE, !.stopTimer = FALSE]
<1>1. command' = [command EXCEPT ![r] = new]
  BY DEF Finish
<1>2. new \in Command /\ \A old : SameRun(old, cmd) => SameRun(old, new)
  BY FinishedRecord
<1> HIDE DEF new
<1>3. QED BY <1>1, <1>2, OneRunGoesOn

\* A stop leaves every run active and its output alone.
LEMMA StopEachGoesOn ==
  ASSUME Typed, NEW S \in SUBSET Stoppable(commands), StopEach(S)
  PROVE  RunsGoOn
<1>1. \A r \in Runs : command'[r] = IF r \in S
                                    THEN [command[r] EXCEPT !.stopRequested = TRUE, !.status = "stopping",
                                                            !.stopTimer = TRUE]
                                    ELSE command[r]
  BY DEF StopEach
<1>2. ASSUME NEW r \in S
      PROVE  command'[r] # None /\ SameRun(command[r], command'[r])
  <2>1. r \in Runs /\ command[r] \in Command /\ command[r].status \in ActiveStatuses
    BY DEF Stoppable, IsActive, Started, Typed, TypeOK
  <2>2. command'[r] = [command[r] EXCEPT !.stopRequested = TRUE, !.status = "stopping", !.stopTimer = TRUE]
    BY <1>1, <2>1
  <2>3. /\ command'[r] \in Command
        /\ command'[r].group = command[r].group /\ command'[r].key = command[r].key
        /\ command'[r].startedAt = command[r].startedAt /\ command'[r].place = command[r].place
        /\ command'[r].output = command[r].output /\ command'[r].nextSequence = command[r].nextSequence
    BY <2>1, <2>2 DEF Command, ActiveStatuses
  <2>4. QED BY <2>1, <2>3 DEF SameRun
<1>3. \A r \in Runs \ S : command'[r] = command[r]
  BY <1>1
<1>4. \A r \in S : r \in Started
  BY DEF Stoppable, IsActive
<1>5. \A r \in Runs : SameRun(command[r], command[r])
  BY DEF SameRun
<1>6. Started' = Started
  BY <1>2, <1>3, <1>4 DEF Started
<1>7. QED BY <1>2, <1>3, <1>5, <1>6 DEF RunsGoOn, Started

\* Every step lets the runs go on so.
LEMMA StepGoesOn ==
  ASSUME Typed, [Next]_vars
  PROVE  RunsGoOn
<1>1. ASSUME NEW r \in Runs, Start(r)
      PROVE  RunsGoOn
  <2>1. PICK g \in Groups, k \in Keys, t \in Times :
          /\ Admitted(g, k)
          /\ command' = [command EXCEPT ![r] = [NewCommand(g, k, t) EXCEPT !.process = TRUE]]
    BY <1>1 DEF Start
  <2> DEFINE new == [NewCommand(g, k, t) EXCEPT !.process = TRUE]
  <2>2. NewCommand(g, k, t) \in Command
    BY NewCommandTyped DEF Typed
  <2>3. /\ new \in Command /\ new.group = NewCommand(g, k, t).group /\ new.key = NewCommand(g, k, t).key
        /\ new.startedAt = NewCommand(g, k, t).startedAt /\ new.place = NewCommand(g, k, t).place
        /\ new.status = NewCommand(g, k, t).status
        /\ new.output = NewCommand(g, k, t).output /\ new.nextSequence = NewCommand(g, k, t).nextSequence
    BY <2>2 DEF Command
  <2>4. command[r] = None /\ command' = [command EXCEPT ![r] = new]
    BY <1>1, <2>1 DEF Start
  <2> HIDE DEF new
  <2>5. SameRun(NewCommand(g, k, t), new)
    BY <2>3 DEF SameRun
  <2>6. QED BY <2>1, <2>3, <2>4, <2>5, OneRunGoesOn
<1>2. ASSUME NEW r \in Runs, StartFails(r)
      PROVE  RunsGoOn
  <2>1. PICK g \in Groups, k \in Keys, t \in Times :
          Admitted(g, k) /\ Finish(r, Appended(NewCommand(g, k, t), 1), {1}, "failed")
    BY <1>2 DEF StartFails
  <2>2. NewCommand(g, k, t) \in Command /\ NewCommand(g, k, t).nextSequence = 1
    BY NewCommandTyped DEF Typed, NewCommand
  <2>3. NewCommand(g, k, t).nextSequence <= MaxWrites + 1 /\ 1 \in Nat \ {0}
    BY <2>2
  <2>4. /\ Appended(NewCommand(g, k, t), 1) \in Command
        /\ SameRun(NewCommand(g, k, t), Appended(NewCommand(g, k, t), 1))
    BY <2>2, <2>3, AppendedSame
  <2>5. command[r] = None /\ "failed" \in EndStatuses
    BY <1>2 DEF StartFails, EndStatuses
  <2>6. QED BY <2>1, <2>4, <2>5, FinishGoesOn
<1>3. ASSUME NEW r \in Runs, Output(r)
      PROVE  RunsGoOn
  <2>1. PICK size \in Sizes : command' = [command EXCEPT ![r] = Appended(@, size)]
    BY <1>3 DEF Output
  <2>2. command[r] # None /\ command[r] \in Command /\ command[r].nextSequence <= MaxWrites
    BY <1>3 DEF Output, Typed, TypeOK
  <2>3. command[r].nextSequence <= MaxWrites + 1
    BY <2>2 DEF Command, SequenceNumbers
  <2>4. Appended(command[r], size) \in Command /\ SameRun(command[r], Appended(command[r], size))
    BY <2>2, <2>3, AppendedSame
  <2>5. command' = [command EXCEPT ![r] = Appended(command[r], size)]
    BY <2>1 DEF Typed, TypeOK
  <2>6. QED BY <2>2, <2>4, <2>5, OneRunGoesOn
<1>4. ASSUME NEW r \in Runs, MonitorEnds(r)
      PROVE  RunsGoOn
  <2> DEFINE cmd == command[r]
             new == [cmd EXCEPT !.status = "finalizing", !.process = FALSE, !.finalizing = TRUE]
  <2>1. /\ cmd # None /\ cmd \in Command /\ cmd.status \in ActiveStatuses
    BY <1>4 DEF MonitorEnds, Typed, TypeOK, RunOK, Consistent
  <2>2. SameRun(cmd, cmd)
    BY DEF SameRun
  <2>3. \/ \E status \in EndStatuses : Finish(r, cmd, {}, status)
        \/ command' = [command EXCEPT ![r] = [@ EXCEPT !.status = "finalizing", !.process = FALSE,
                                                       !.finalizing = TRUE]]
    BY <1>4, Zenon DEF MonitorEnds, EndStatuses
  <2>4. CASE \E status \in EndStatuses : Finish(r, cmd, {}, status)
    <3> HIDE DEF cmd
    <3>1. cmd = command[r]
      BY DEF cmd
    <3>2. QED BY <2>1, <2>2, <2>4, <3>1, FinishGoesOn
  <2>5. CASE command' = [command EXCEPT ![r] = [@ EXCEPT !.status = "finalizing", !.process = FALSE,
                                                         !.finalizing = TRUE]]
    <3>1. command' = [command EXCEPT ![r] = new]
      BY <2>5 DEF Typed, TypeOK
    <3>2. /\ new \in Command /\ new.group = cmd.group /\ new.key = cmd.key
          /\ new.startedAt = cmd.startedAt /\ new.place = cmd.place /\ new.output = cmd.output /\ new.nextSequence = cmd.nextSequence
      BY <2>1 DEF Command, ActiveStatuses
    <3> HIDE DEF new
    <3>3. SameRun(cmd, new)
      BY <2>1, <3>2 DEF SameRun
    <3>4. QED BY <2>1, <3>1, <3>2, <3>3, OneRunGoesOn
  <2>6. QED BY <2>3, <2>4, <2>5
<1>5. ASSUME NEW r \in Runs, FinalizerEnds(r)
      PROVE  RunsGoOn
  <2> DEFINE cmd == command[r]
  <2>1. /\ cmd # None /\ cmd \in Command /\ Consistent(cmd) /\ cmd.finalizing
    BY <1>5 DEF FinalizerEnds, Typed, TypeOK, RunOK
  <2>2. SameRun(cmd, cmd)
    BY DEF SameRun
  <2>3. \E status \in EndStatuses : \E chunks : \/ Finish(r, cmd, chunks, status)
                                                \/ Finish(r, Appended(cmd, 1), chunks, status)
    <3>1. Outcome(cmd, "succeeded") \in EndStatuses /\ Outcome(cmd, "failed") \in EndStatuses
      BY DEF Outcome, EndStatuses
    <3>2. QED BY <1>5, <3>1, Zenon DEF FinalizerEnds
  <2> HIDE DEF cmd
  <2>4. Appended(cmd, 1) \in Command /\ SameRun(cmd, Appended(cmd, 1))
    <3>1. cmd.nextSequence <= MaxWrites + 1 /\ 1 \in Nat \ {0}
      BY <2>1, ActiveNumber
    <3>2. QED BY <2>1, <3>1, AppendedSame
  <2>5. cmd = command[r]
    BY DEF cmd
  <2>6. QED BY <2>1, <2>2, <2>3, <2>4, <2>5, FinishGoesOn
<1>6. ASSUME NEW r \in Runs, KillTimer(r)
      PROVE  RunsGoOn
  <2> DEFINE cmd == command[r]
             new == [cmd EXCEPT !.stopTimer = FALSE]
  <2>1. cmd # None /\ cmd \in Command /\ command' = [command EXCEPT ![r] = new]
    BY <1>6 DEF KillTimer, Typed, TypeOK
  <2>2. /\ new \in Command /\ new.group = cmd.group /\ new.key = cmd.key /\ new.status = cmd.status
        /\ new.startedAt = cmd.startedAt /\ new.place = cmd.place /\ new.output = cmd.output /\ new.nextSequence = cmd.nextSequence
    BY <2>1 DEF Command
  <2> HIDE DEF new
  <2>3. SameRun(cmd, new)
    BY <2>2 DEF SameRun
  <2>4. QED BY <2>1, <2>2, <2>3, OneRunGoesOn
<1>7. ASSUME (\E r \in Runs : Stop(r)) \/ (\E g \in Groups : StopGroup(g)) \/ Close
      PROVE  RunsGoOn
  <2>1. \E S \in SUBSET Stoppable(commands) : StopEach(S)
    BY <1>7, Zenon DEF Stop, StopGroup, Close
  <2>2. QED BY <2>1, StopEachGoesOn
<1>8. ASSUME command' = command
      PROVE  RunsGoOn
  BY <1>8 DEF RunsGoOn, SameRun, Started
<1>9. CASE \E r \in Runs : LeaderExits(r) \/ DescendantExits(r)
  BY <1>8, <1>9 DEF LeaderExits, DescendantExits
<1>10. CASE \E s \in Streams : Unsubscribe(s) \/ \E r \in Runs : Subscribe(s, r)
  BY <1>8, <1>10 DEF Unsubscribe, Subscribe
<1>11. CASE UNCHANGED vars
  BY <1>8, <1>11 DEF vars
<1>12. QED BY <1>1, <1>2, <1>3, <1>4, <1>5, <1>6, <1>7, <1>9, <1>10, <1>11 DEF Next, RunStep

-----------------------------------------------------------------------------
(* Admission and output.                                                   *)

\* The active runs are those of the map, and finitely many.
LEMMA ActiveRuns ==
  ASSUME Typed
  PROVE  /\ Active = {r \in Runs : IsActive(r)}
         /\ IsFiniteSet(Active) /\ Cardinality(Active) \in Nat
         /\ \A r \in Active : r \in Started
<1>1. Active = {r \in Runs : IsActive(r)} /\ \A r \in Active : r \in Started
  BY DEF Typed, TypeOK, RunOK, Active, IsActive, Started
<1>2. Active \subseteq Runs
  BY <1>1
<1>3. QED BY <1>1, <1>2, FS_Subset, FS_CardinalityType

\* Only an admitted start adds an active run.
LEMMA AdmissionStep ==
  ASSUME Typed, Typed', AdmissionHolds, RunsGoOn
  PROVE  AdmissionHolds'
<1>1. /\ IsFiniteSet(Active) /\ Cardinality(Active) \in Nat /\ Cardinality(Active) <= MaxConcurrent
      /\ \A r \in Active : r \in Started
  BY ActiveRuns DEF AdmissionHolds
<1>2. /\ Active = {r \in Runs : IsActive(r)} /\ Active' = {r \in Runs : IsActive(r)'}
      /\ IsFiniteSet(Active') /\ Cardinality(Active') \in Nat
  <2>1. Active' = {r \in Runs : IsActive(r)'}
    BY DEF Typed, TypeOK, RunOK, Active, IsActive, Started
  <2>2. Active' \subseteq Runs
    BY <2>1
  <2>3. QED BY <2>1, <2>2, ActiveRuns, FS_Subset, FS_CardinalityType
<1>3. \A q \in Active' : q \in Started =>
        /\ q \in Active
        /\ command'[q].group = command[q].group /\ command'[q].key = command[q].key
  BY <1>2 DEF RunsGoOn, SameRun, IsActive, Started
<1>4. CASE Started' = Started
  <2>1. Active' \subseteq Active
    BY <1>2, <1>3, <1>4 DEF IsActive
  <2>2. Cardinality(Active') <= Cardinality(Active)
    BY <1>1, <2>1, FS_Subset
  <2>3. Cardinality(Active') <= MaxConcurrent
    BY <1>1, <1>2, <2>2
  <2>4. \A r, q \in Active' : command'[r].group = command'[q].group /\ command'[r].key = command'[q].key => r = q
    BY <1>1, <1>3, <2>1 DEF AdmissionHolds
  <2>5. QED BY <2>3, <2>4 DEF AdmissionHolds, Typed
<1>5. ASSUME NEW r \in Runs \ Started, NEW g \in Groups, NEW k \in Keys, NEW t \in Times,
             Started' = Started \cup {r}, Admitted(g, k), SameRun(NewCommand(g, k, t), command'[r])
      PROVE  AdmissionHolds'
  <2>1. Active' \subseteq Active \cup {r}
    BY <1>2, <1>3, <1>5 DEF IsActive
  <2>2. /\ IsFiniteSet(Active \cup {r})
        /\ Cardinality(Active \cup {r}) = Cardinality(Active) + 1
    BY <1>1, <1>5, FS_AddElement
  <2>3. Cardinality(Active') <= Cardinality(Active \cup {r})
    BY <2>1, <2>2, FS_Subset
  <2>4. Cardinality(Active) < MaxConcurrent /\ \A q \in Active : command[q].group # g \/ command[q].key # k
    BY <1>5 DEF Admitted, Busy
  <2>5. Cardinality(Active') <= MaxConcurrent
    BY <1>1, <1>2, <2>2, <2>3, <2>4
  <2>6. command'[r].group = g /\ command'[r].key = k
    BY <1>5 DEF SameRun, NewCommand
  <2>7. ASSUME NEW q \in Active', NEW p \in Active',
               command'[p].group = command'[q].group, command'[p].key = command'[q].key
        PROVE  p = q
    <3>1. q = r \/ q \in Started
      BY <1>1, <2>1
    <3>2. p = r \/ p \in Started
      BY <1>1, <2>1
    <3>3. QED BY <1>3, <2>4, <2>6, <2>7, <3>1, <3>2 DEF AdmissionHolds
  <2>8. QED BY <2>5, <2>7 DEF AdmissionHolds, Typed
<1>6. QED BY <1>4, <1>5 DEF RunsGoOn

\* At most maxConcurrentRuns commands are active, and a command of a repository is active once:
\* start counts what is stopping or finalizing (activeCommands).
THEOREM AdmissionIsKept == Spec => []AdmissionHolds
<1>1. Init => AdmissionHolds
  <2>1. ASSUME Init
        PROVE  Active = {} /\ TypeOK
    BY <2>1, TypedInit DEF Init, Active, Typed
  <2>2. QED BY <2>1, FS_EmptySet DEF AdmissionHolds
<1>2. Typed /\ Typed' /\ AdmissionHolds /\ [Next]_vars => AdmissionHolds'
  BY StepGoesOn, AdmissionStep
<1>3. QED BY <1>1, <1>2, Typing, PTL DEF Spec

OutputOK(cmd) == Bytes(cmd.output) <= MaxOutput /\ Gapless(cmd)
OutputsOK == \A r \in Started : OutputOK(command[r])

\* A new command has no output.
LEMMA NewOutput ==
  ASSUME NEW g, NEW k, NEW t
  PROVE  OutputOK(NewCommand(g, k, t))
<1> DEFINE sizes == [i \in DOMAIN <<>> |-> <<>>[i].size]
<1>1. DOMAIN sizes = {} /\ NewCommand(g, k, t).output = <<>>
  BY DEF NewCommand
<1>2. Bytes(<<>>) = SumFunctionOnSet(sizes, {})
  BY <1>1, Zenon DEF Bytes, SumFunction
<1> HIDE DEF sizes
<1>3. SumFunctionOnSet(sizes, {}) = 0
  BY SumEquation, FS_EmptySet
<1>4. Gapless(NewCommand(g, k, t))
  BY <1>1 DEF Gapless
<1>5. QED BY <1>1, <1>2, <1>3, <1>4 DEF OutputOK

\* What becomes of a run's output stays within the bound.
LEMMA OutputStep ==
  ASSUME NEW old \in Command, NEW new, OutputOK(old), SameRun(old, new)
  PROVE  OutputOK(new)
<1>1. CASE new.output = old.output /\ new.nextSequence = old.nextSequence
  BY <1>1 DEF OutputOK, Gapless
<1>2. ASSUME NEW size \in Nat \ {0}, old.nextSequence <= MaxWrites + 1,
             new.output = Appended(old, size).output, new.nextSequence = Appended(old, size).nextSequence
      PROVE  OutputOK(new)
  <2>1. /\ Bytes(Appended(old, size).output) <= MaxOutput
        /\ Gapless(Appended(old, size))
    BY <1>2, AppendedOutput DEF OutputOK
  <2>2. QED BY <1>2, <2>1 DEF OutputOK, Gapless
<1>3. QED BY <1>1, <1>2 DEF SameRun

\* What is kept of a run's output stays within maxOutputBytes, and is the end of the output
\* without a gap: appendOutput shifts out the oldest chunks, however large the new one is.
THEOREM OutputStaysBounded == Spec => []OutputBounded
<1>1. Init => OutputsOK
  BY DEF Init, OutputsOK, Started
<1>2. Typed /\ OutputsOK /\ [Next]_vars => OutputsOK'
  <2>1. SUFFICES ASSUME Typed, OutputsOK, [Next]_vars, NEW r \in Started'
                 PROVE  OutputOK(command'[r])
    BY DEF OutputsOK
  <2>2. RunsGoOn
    BY <2>1, StepGoesOn
  <2>3. CASE r \in Started
    <3>1. command[r] \in Command /\ SameRun(command[r], command'[r])
      BY <2>1, <2>2, <2>3 DEF RunsGoOn, Started, Typed, TypeOK
    <3>2. QED BY <2>1, <2>3, <3>1, OutputStep DEF OutputsOK
  <2>4. CASE r \notin Started
    <3>1. PICK g \in Groups, k \in Keys, t \in Times : SameRun(NewCommand(g, k, t), command'[r])
      BY <2>1, <2>2, <2>4 DEF RunsGoOn
    <3>2. NewCommand(g, k, t) \in Command
      BY <2>1, NewCommandTyped DEF Typed
    <3>3. QED BY <3>1, <3>2, NewOutput, OutputStep
  <2>5. QED BY <2>3, <2>4
<1>3. OutputsOK => OutputBounded
  BY DEF OutputsOK, OutputOK, OutputBounded, Gapless
<1>4. QED BY <1>1, <1>2, <1>3, Typing, PTL DEF Spec

-----------------------------------------------------------------------------
(* What event streams know.                                                *)

\* The record of run r changes to new, and whoever listens to it is told of the chunks.
Telling(r, new, chunks) ==
  /\ command[r] = None \/ IsActive(r)
  /\ command' = [command EXCEPT ![r] = new] /\ closed' = closed
  /\ command[r] # None => SequencesOf(new) \subseteq SequencesOf(command[r]) \cup chunks
  /\ \A s \in Streams : IF s \in listeners[r]
                        THEN /\ stream'[s].run = stream[s].run /\ stream'[s].status = new.status
                             /\ stream'[s].seen = stream[s].seen \cup chunks
                        ELSE stream'[s] = stream[s]

\* The streams of the run know the new record, the others what they knew.
LEMMA TellingInforms ==
  ASSUME Typed, StreamsInformed, NEW r \in Runs, NEW new, NEW chunks, Telling(r, new, chunks)
  PROVE  StreamsInformed'
<1> USE DEF Telling
<1>1. SUFFICES ASSUME ~closed, NEW s \in Streams, stream'[s] # None
               PROVE  /\ stream'[s].status = command'[stream'[s].run].status
                      /\ SequencesOf(command'[stream'[s].run]) \subseteq stream'[s].seen
  BY DEF StreamsInformed
<1>2. command'[r] = new /\ \A q \in Runs : q # r => command'[q] = command[q]
  BY DEF Typed, TypeOK
<1>3. CASE s \in listeners[r]
  <2>1. stream[s] # None /\ stream[s].run = r /\ command[r] # None
    BY <1>3 DEF Typed, StreamOK
  <2>2. SequencesOf(command[r]) \subseteq stream[s].seen
    BY <1>1, <2>1 DEF StreamsInformed
  <2>3. QED BY <1>2, <1>3, <2>1, <2>2
<1>4. CASE s \notin listeners[r]
  <2>1. stream'[s] = stream[s] /\ stream[s] # None
    BY <1>1, <1>4
  <2>2. stream[s].run \in Runs /\ stream[s].run # r
    BY <1>1, <1>4, <2>1 DEF Typed, TypeOK, StreamOK, StreamState
  <2>3. QED BY <1>1, <1>2, <2>1, <2>2 DEF StreamsInformed
<1>5. QED BY <1>3, <1>4

\* emit tells them.
LEMMA ToldInforms ==
  ASSUME Typed, StreamsInformed, NEW r \in Runs, NEW new, NEW chunks,
         command[r] = None \/ IsActive(r),
         command' = [command EXCEPT ![r] = new], closed' = closed,
         command[r] # None => SequencesOf(new) \subseteq SequencesOf(command[r]) \cup chunks,
         stream' = Told(r, chunks, new.status)
  PROVE  StreamsInformed'
<1>1. \A s \in Streams : s \in listeners[r] =>
        /\ stream'[s].run = stream[s].run /\ stream'[s].status = new.status
        /\ stream'[s].seen = stream[s].seen \cup chunks
  <2>1. SUFFICES ASSUME NEW s \in Streams, s \in listeners[r]
                 PROVE  /\ stream'[s].run = stream[s].run /\ stream'[s].status = new.status
                        /\ stream'[s].seen = stream[s].seen \cup chunks
    OBVIOUS
  <2>2. stream[s] \in StreamState
    BY <2>1 DEF Typed, TypeOK, StreamOK
  <2>3. stream'[s] = [stream[s] EXCEPT !.seen = @ \cup chunks, !.status = new.status]
    BY <2>1 DEF Told
  <2>4. QED BY <2>2, <2>3 DEF StreamState
<1>2. \A s \in Streams : s \notin listeners[r] => stream'[s] = stream[s]
  BY DEF Told
<1>3. Telling(r, new, chunks)
  BY <1>1, <1>2 DEF Telling
<1>4. QED BY <1>3, TellingInforms

\* finish tells the streams before it prunes.
LEMMA FinishInforms ==
  ASSUME Typed, StreamsInformed, NEW r \in Runs, NEW cmd \in Command, NEW chunks, NEW status \in EndStatuses,
         command[r] = None \/ IsActive(r),
         Finish(r, cmd, chunks, status), closed' = closed,
         command[r] # None => SequencesOf(cmd) \subseteq SequencesOf(command[r]) \cup chunks
  PROVE  StreamsInformed'
<1> DEFINE new == [cmd EXCEPT !.status = status, !.process = FALSE, !.finalizing = FALSE, !.stopTimer = FALSE]
<1>1. command' = [command EXCEPT ![r] = new] /\ stream' = Told(r, chunks, status)
  BY DEF Finish
<1>2. new.status = status /\ new.output = cmd.output
  BY DEF Command
<1> HIDE DEF new
<1>3. SequencesOf(new) = SequencesOf(cmd)
  BY <1>2 DEF SequencesOf
<1>4. QED BY <1>1, <1>2, <1>3, ToldInforms

\* A stop tells the streams of every run it reaches.
LEMMA StopEachInforms ==
  ASSUME Typed, StreamsInformed, NEW S \in SUBSET Stoppable(commands), StopEach(S), closed' = closed
  PROVE  StreamsInformed'
<1>1. SUFFICES ASSUME ~closed, NEW s \in Streams, stream'[s] # None
               PROVE  /\ stream'[s].status = command'[stream'[s].run].status
                      /\ SequencesOf(command'[stream'[s].run]) \subseteq stream'[s].seen
  BY DEF StreamsInformed
<1>2. ASSUME NEW r \in S
      PROVE  /\ r \in Runs /\ command'[r].status = "stopping"
             /\ SequencesOf(command'[r]) = SequencesOf(command[r])
  <2>1. r \in Runs /\ command[r] \in Command
    BY DEF Stoppable, IsActive, Started, Typed, TypeOK
  <2>2. command'[r] = [command[r] EXCEPT !.stopRequested = TRUE, !.status = "stopping", !.stopTimer = TRUE]
    BY <2>1 DEF StopEach
  <2>3. command'[r].status = "stopping" /\ command'[r].output = command[r].output
    BY <2>1, <2>2 DEF Command
  <2>4. QED BY <2>1, <2>3 DEF SequencesOf
<1>3. \A r \in Runs \ S : command'[r] = command[r]
  BY DEF StopEach
<1>4. CASE \E r \in S : s \in listeners[r]
  <2>1. PICK r \in S : s \in listeners[r]
    BY <1>4
  <2>2. stream[s] # None /\ stream[s].run = r /\ stream[s] \in StreamState
    BY <1>2, <2>1 DEF Typed, TypeOK, StreamOK
  <2>3. stream'[s] = [stream[s] EXCEPT !.status = "stopping"]
    BY <1>4 DEF StopEach
  <2>4. stream'[s].status = "stopping" /\ stream'[s].run = r /\ stream'[s].seen = stream[s].seen
    BY <2>2, <2>3 DEF StreamState
  <2>5. SequencesOf(command[r]) \subseteq stream[s].seen
    BY <1>1, <2>2 DEF StreamsInformed
  <2>6. QED BY <1>2, <2>4, <2>5
<1>5. CASE ~ \E r \in S : s \in listeners[r]
  <2>1. stream'[s] = stream[s] /\ stream[s] # None
    BY <1>1, <1>5 DEF StopEach
  <2>2. stream[s].run \in Runs \ S
    <3>1. stream[s].run \in Runs
      BY <2>1 DEF Typed, TypeOK, StreamState
    <3>2. stream[s].run \in S => IsActive(stream[s].run)
      BY DEF Stoppable
    <3>3. QED BY <1>1, <1>5, <2>1, <3>1, <3>2 DEF Typed, StreamOK
  <2>3. QED BY <1>1, <1>3, <2>1, <2>2 DEF StreamsInformed
<1>6. QED BY <1>4, <1>5

\* Every step keeps the open streams informed.
LEMMA InformedStep ==
  ASSUME Typed, StreamsInformed, [Next]_vars
  PROVE  StreamsInformed'
<1>1. ASSUME NEW r \in Runs, Start(r)
      PROVE  StreamsInformed'
  <2>1. /\ command[r] = None /\ UNCHANGED <<stream, closed>>
        /\ \A q \in Runs : q # r => command'[q] = command[q]
    BY <1>1 DEF Start, Typed, TypeOK
  <2>2. \A s \in Streams : stream[s] # None => stream[s].run \in Runs /\ stream[s].run # r
    BY <2>1 DEF Typed, TypeOK, StreamOK, StreamState
  <2>3. QED BY <2>1, <2>2 DEF StreamsInformed
<1>2. ASSUME NEW r \in Runs, StartFails(r)
      PROVE  StreamsInformed'
  <2>1. PICK g \in Groups, k \in Keys, t \in Times : Finish(r, Appended(NewCommand(g, k, t), 1), {1}, "failed")
    BY <1>2 DEF StartFails
  <2>2. NewCommand(g, k, t) \in Command /\ NewCommand(g, k, t).nextSequence = 1
    BY NewCommandTyped DEF Typed, NewCommand
  <2>3. NewCommand(g, k, t).nextSequence <= MaxWrites + 1 /\ 1 \in Nat \ {0}
    BY <2>2
  <2>4. Appended(NewCommand(g, k, t), 1) \in Command
    BY <2>2, <2>3, AppendedSame
  <2>5. command[r] = None /\ "failed" \in EndStatuses /\ closed' = closed
    BY <1>2 DEF StartFails, EndStatuses
  <2>6. QED BY <2>1, <2>4, <2>5, FinishInforms
<1>3. ASSUME NEW r \in Runs, Output(r)
      PROVE  StreamsInformed'
  <2> DEFINE cmd == command[r]
  <2>1. PICK size \in Sizes : command' = [command EXCEPT ![r] = Appended(@, size)]
    BY <1>3 DEF Output
  <2> DEFINE new == Appended(cmd, size)
  <2>2. /\ cmd # None /\ cmd \in Command /\ Consistent(cmd) /\ cmd.process
        /\ IsActive(r) /\ closed' = closed
    BY <1>3 DEF Output, Typed, TypeOK, RunOK, IsActive, Started, Consistent
  <2>3. cmd.nextSequence <= MaxWrites + 1
    BY <2>2, ActiveNumber
  <2>4. /\ SequencesOf(new) \subseteq SequencesOf(cmd) \cup {cmd.nextSequence}
        /\ new \in Command
        /\ new = [cmd EXCEPT !.output = new.output, !.nextSequence = cmd.nextSequence + 1]
    BY <2>2, <2>3, AppendedOutput
  <2>5. command' = [command EXCEPT ![r] = new]
    BY <2>1 DEF Typed, TypeOK
  <2> HIDE DEF new
  <2>6. new.status = cmd.status
    BY <2>2, <2>4 DEF Command
  <2>7. ASSUME ~closed
        PROVE  StreamsInformed'
    <3>1. ASSUME NEW s \in Streams, s \in listeners[r]
          PROVE  /\ stream'[s].run = stream[s].run /\ stream'[s].status = new.status
                 /\ stream'[s].seen = stream[s].seen \cup {cmd.nextSequence}
      <4>1. stream[s] # None /\ stream[s].run = r /\ stream[s] \in StreamState
        BY <3>1 DEF Typed, TypeOK, StreamOK
      <4>2. stream[s].status = cmd.status
        BY <2>7, <4>1 DEF StreamsInformed
      <4>3. stream'[s] = [stream[s] EXCEPT !.seen = @ \cup {cmd.nextSequence}]
        BY <1>3, <3>1 DEF Output
      <4> HIDE DEF cmd
      <4>4. QED BY <2>6, <4>1, <4>2, <4>3 DEF StreamState
    <3>2. \A s \in Streams : s \notin listeners[r] => stream'[s] = stream[s]
      BY <1>3 DEF Output
    <3>3. Telling(r, new, {cmd.nextSequence})
      BY <2>2, <2>4, <2>5, <3>1, <3>2 DEF Telling
    <3>4. QED BY <3>3, TellingInforms
  <2>8. CASE closed
    BY <2>2, <2>8 DEF StreamsInformed
  <2>9. QED BY <2>7, <2>8
<1>4. ASSUME NEW r \in Runs, MonitorEnds(r)
      PROVE  StreamsInformed'
  <2> DEFINE cmd == command[r]
             new == [cmd EXCEPT !.status = "finalizing", !.process = FALSE, !.finalizing = TRUE]
  <2>1. cmd # None /\ cmd \in Command /\ IsActive(r) /\ closed' = closed
    BY <1>4 DEF MonitorEnds, Typed, TypeOK, RunOK, Consistent, IsActive, Started
  <2>2. \/ \E status \in EndStatuses : Finish(r, cmd, {}, status)
        \/ /\ command' = [command EXCEPT ![r] = [@ EXCEPT !.status = "finalizing", !.process = FALSE,
                                                          !.finalizing = TRUE]]
           /\ stream' = Told(r, {}, "finalizing")
    BY <1>4, Zenon DEF MonitorEnds, EndStatuses
  <2>3. CASE \E status \in EndStatuses : Finish(r, cmd, {}, status)
    BY <2>1, <2>3, FinishInforms
  <2>4. CASE /\ command' = [command EXCEPT ![r] = [@ EXCEPT !.status = "finalizing", !.process = FALSE,
                                                            !.finalizing = TRUE]]
             /\ stream' = Told(r, {}, "finalizing")
    <3>1. command' = [command EXCEPT ![r] = new]
      BY <2>4 DEF Typed, TypeOK
    <3>2. new.output = cmd.output /\ new.status = "finalizing"
      BY <2>1 DEF Command
    <3> HIDE DEF new
    <3>3. SequencesOf(new) \subseteq SequencesOf(cmd) \cup {}
      BY <3>2 DEF SequencesOf
    <3>4. QED BY <2>1, <2>4, <3>1, <3>2, <3>3, ToldInforms
  <2>5. QED BY <2>2, <2>3, <2>4
<1>5. ASSUME NEW r \in Runs, FinalizerEnds(r)
      PROVE  StreamsInformed'
  <2> DEFINE cmd == command[r]
  <2>1. /\ cmd # None /\ cmd \in Command /\ Consistent(cmd) /\ cmd.finalizing
        /\ IsActive(r) /\ closed' = closed
    BY <1>5 DEF FinalizerEnds, Typed, TypeOK, RunOK, Consistent, IsActive, Started
  <2>2. Outcome(cmd, "succeeded") \in EndStatuses /\ Outcome(cmd, "failed") \in EndStatuses
    BY DEF Outcome, EndStatuses
  <2>3. \/ Finish(r, cmd, {}, Outcome(cmd, "succeeded"))
        \/ Finish(r, Appended(cmd, 1), {cmd.nextSequence}, Outcome(cmd, "failed"))
    BY <1>5, Zenon DEF FinalizerEnds
  <2>4. /\ Appended(cmd, 1) \in Command
        /\ SequencesOf(Appended(cmd, 1)) \subseteq SequencesOf(cmd) \cup {cmd.nextSequence}
    <3>1. cmd.nextSequence <= MaxWrites + 1 /\ 1 \in Nat \ {0}
      BY <2>1, ActiveNumber
    <3>2. QED BY <2>1, <3>1, AppendedOutput
  <2>5. QED BY <2>1, <2>2, <2>3, <2>4, FinishInforms
<1>6. ASSUME NEW r \in Runs, KillTimer(r)
      PROVE  StreamsInformed'
  <2> DEFINE new == [command[r] EXCEPT !.stopTimer = FALSE]
  <2>1. /\ command[r] # None /\ command[r] \in Command /\ command' = [command EXCEPT ![r] = new]
        /\ UNCHANGED <<stream, closed>>
    BY <1>6 DEF KillTimer, Typed, TypeOK
  <2>2. new.output = command[r].output /\ new.status = command[r].status
    BY <2>1 DEF Command
  <2> HIDE DEF new
  <2>3. \A q \in Runs : /\ command'[q].status = command[q].status
                        /\ SequencesOf(command'[q]) = SequencesOf(command[q])
    BY <2>1, <2>2 DEF Typed, TypeOK, SequencesOf
  <2>4. \A s \in Streams : stream[s] # None => stream[s].run \in Runs
    BY DEF Typed, TypeOK, StreamState
  <2>5. QED BY <2>1, <2>3, <2>4 DEF StreamsInformed
<1>7. ASSUME (\E r \in Runs : Stop(r)) \/ (\E g \in Groups : StopGroup(g))
      PROVE  StreamsInformed'
  <2>1. (\E S \in SUBSET Stoppable(commands) : StopEach(S)) /\ closed' = closed
    BY <1>7, Zenon DEF Stop, StopGroup
  <2>2. QED BY <2>1, StopEachInforms
<1>8. CASE Close
  BY <1>8 DEF Close, StreamsInformed
<1>9. ASSUME UNCHANGED <<command, stream, closed>>
      PROVE  StreamsInformed'
  BY <1>9 DEF StreamsInformed
<1>10. CASE \E r \in Runs : LeaderExits(r) \/ DescendantExits(r)
  BY <1>9, <1>10 DEF LeaderExits, DescendantExits
<1>11. ASSUME NEW s \in Streams, NEW r \in Runs, Subscribe(s, r)
       PROVE  StreamsInformed'
  <2>1. /\ UNCHANGED <<command, closed>> /\ stream'[s] = Snapshot(r)
        /\ \A t \in Streams : t # s => stream'[t] = stream[t]
    BY <1>11 DEF Subscribe, Typed, TypeOK
  <2>2. QED BY <2>1 DEF StreamsInformed, Snapshot
<1>12. ASSUME NEW s \in Streams, Unsubscribe(s)
       PROVE  StreamsInformed'
  <2>1. /\ UNCHANGED <<command, closed>> /\ stream'[s] = None
        /\ \A t \in Streams : t # s => stream'[t] = stream[t]
    BY <1>12 DEF Unsubscribe, Typed, TypeOK
  <2>2. QED BY <2>1 DEF StreamsInformed
<1>13. CASE UNCHANGED vars
  BY <1>9, <1>13 DEF vars
<1>14. QED BY <1>1, <1>2, <1>3, <1>4, <1>5, <1>6, <1>7, <1>8, <1>10, <1>11, <1>12, <1>13 DEF Next, RunStep

\* Until the runner is closed an open stream knows what is kept of its run and its status, also
\* when the run is pruned in the step that ends it: finish emits before it prunes.
THEOREM StreamsAreInformed == Spec => []StreamsInformed
<1>1. Init => StreamsInformed
  BY DEF Init, StreamsInformed
<1>2. Typed /\ StreamsInformed /\ [Next]_vars => StreamsInformed'
  BY InformedStep
<1>3. QED BY <1>1, <1>2, Typing, PTL DEF Spec

-----------------------------------------------------------------------------
(* History.                                                                *)

\* Lexicographic order as an order of numbers: a times M, and then i below M.
LEMMA Ranked ==
  ASSUME NEW M \in Nat \ {0}, NEW a \in Nat, NEW b \in Nat, NEW i \in 0..(M - 1), NEW j \in 0..(M - 1)
  PROVE  /\ a * M + i + 1 \in Nat /\ b * M \in Nat
         /\ a * M + i + 1 > b * M <=> a >= b
         /\ a * M + i + 1 > b * M + j + 1 <=> a > b \/ (a = b /\ i > j)
<1>1. \A c, d \in Nat : c > d => c * M >= d * M + M
  <2>1. ASSUME NEW c \in Nat, NEW d \in Nat, c > d
        PROVE  c * M >= d * M + M
    <3>1. PICK e \in Nat : c = d + 1 + e
      <4>1. c - d - 1 \in Nat /\ c = d + 1 + (c - d - 1)
        BY <2>1
      <4>2. QED BY <4>1
    <3>2. c * M = d * M + M + e * M /\ e * M >= 0 /\ d * M \in Nat
      BY <3>1
    <3>3. QED BY <3>2
  <2>2. QED BY <2>1
<1>2. a * M \in Nat /\ b * M \in Nat
  OBVIOUS
<1>3. CASE a = b
  BY <1>2, <1>3
<1>4. CASE a > b
  <2>1. a * M >= b * M + M
    BY <1>1, <1>4
  <2>2. QED BY <1>2, <1>4, <2>1
<1>5. CASE b > a
  <2>1. b * M >= a * M + M
    BY <1>1, <1>5
  <2>2. QED BY <1>2, <1>5, <2>1
<1>6. QED BY <1>3, <1>4, <1>5

\* The two comparisons one by one.
LEMMA RankedFrom ==
  ASSUME NEW M \in Nat \ {0}, NEW a \in Nat, NEW b \in Nat, NEW i \in 0..(M - 1)
  PROVE  a * M + i + 1 > b * M <=> a >= b
BY Ranked

\* Two ranks of this kind compare by their first part, and by the second where that is the same.
LEMMA RankedPair ==
  ASSUME NEW M \in Nat \ {0}, NEW a \in Nat, NEW b \in Nat, NEW i \in 0..(M - 1), NEW j \in 0..(M - 1)
  PROVE  a * M + i + 1 > b * M + j + 1 <=> a > b \/ (a = b /\ i > j)
BY Ranked

\* Of a set D with times t: what is later than v, and what fewer than R others are later than.
Later(D, t, v) == {q \in D : t[q] > v}
Newest(D, t, R) == {x \in D : ~ Cardinality(Later(D, t, t[x])) >= R}

\* No more than R are the newest R, and whatever R of the set are later than, R of the newest
\* are later than.
LEMMA NewestKept ==
  ASSUME NEW D, IsFiniteSet(D), NEW t \in [D -> Nat],
         \A x, y \in D : t[x] = t[y] => x = y, NEW R \in Nat
  PROVE  /\ Cardinality(Newest(D, t, R)) <= R
         /\ \A v \in Nat : Cardinality(Later(D, t, v)) >= R
                             => Cardinality(Later(Newest(D, t, R), t, v)) >= R
<1> DEFINE later(v) == Later(D, t, v)
           kept     == Newest(D, t, R)
<1>1. \A v : later(v) \subseteq D /\ IsFiniteSet(later(v)) /\ Cardinality(later(v)) \in Nat
  <2>1. \A v : later(v) \subseteq D
    BY DEF Later
  <2> HIDE DEF later
  <2>2. QED BY <2>1, FS_Subset, FS_CardinalityType
<1>2. kept \subseteq D /\ IsFiniteSet(kept) /\ Cardinality(kept) \in Nat
  <2>1. kept \subseteq D
    BY DEF Newest
  <2> HIDE DEF kept
  <2>2. QED BY <2>1, FS_Subset, FS_CardinalityType
<1>3. /\ \A x \in D : x \in kept <=> Cardinality(later(t[x])) < R
      /\ \A v, q : q \in later(v) <=> (q \in D /\ t[q] > v)
      /\ \A x \in D : t[x] \in Nat
  <2>1. \A x \in D : t[x] \in Nat
    OBVIOUS
  <2>2. \A v, q : q \in later(v) <=> (q \in D /\ t[q] > v)
    BY DEF Later
  <2>3. \A x : x \in kept <=> ((x \in D /\ ~ Cardinality(later(t[x])) >= R))
    BY Zenon DEF Newest
  <2> HIDE DEF later, kept
  <2>4. QED BY <1>1, <2>1, <2>2, <2>3
<1> DEFINE K(v) == Later(kept, t, v)
<1>4. \A v : /\ K(v) \subseteq D /\ IsFiniteSet(K(v)) /\ Cardinality(K(v)) \in Nat
             /\ \A q : q \in K(v) <=> (q \in kept /\ q \in later(v))
  <2>1. \A v : K(v) \subseteq D /\ \A q : q \in K(v) <=> (q \in kept /\ q \in later(v))
    BY <1>2, <1>3 DEF Later
  <2> HIDE DEF K
  <2>2. QED BY <2>1, FS_Subset, FS_CardinalityType
<1> HIDE DEF later, kept, K
<1>5. Cardinality(kept) <= R
  <2>1. CASE kept = {}
    <3>1. Cardinality(kept) = 0
      BY <2>1, FS_EmptySet
    <3>2. QED BY <3>1
  <2>2. CASE kept # {}
    <3>1. PICK x \in kept : \A y \in kept : t[x] <= t[y]
      <4> DEFINE times == {t[y] : y \in kept}
      <4>1. times \in SUBSET Nat /\ times # {}
        <5>1. \A y \in kept : t[y] \in Nat
          BY <1>2, <1>3
        <5>2. PICK y \in kept : TRUE
          BY <2>2
        <5>3. t[y] \in times
          OBVIOUS
        <5>4. QED BY <5>1, <5>3
      <4>2. \E v \in times : \A w \in times : v <= w
        <5> HIDE DEF times
        <5> QED BY <4>1, LeastExists
      <4>3. PICK v \in times : \A w \in times : v <= w
        BY <4>2
      <4>4. PICK x \in kept : v = t[x]
        OBVIOUS
      <4>5. \A y \in kept : t[y] \in times
        OBVIOUS
      <4>6. QED BY <4>3, <4>4, <4>5
    <3>2. kept \subseteq later(t[x]) \cup {x}
      BY <1>2, <1>3, <3>1
    <3>3. /\ IsFiniteSet(later(t[x]) \cup {x})
          /\ Cardinality(later(t[x]) \cup {x}) \in Nat
          /\ Cardinality(later(t[x]) \cup {x}) <= Cardinality(later(t[x])) + 1
      <4>1. IsFiniteSet(later(t[x])) /\ Cardinality(later(t[x])) \in Nat
        BY <1>1
      <4>2. /\ IsFiniteSet(later(t[x]) \cup {x})
            /\ Cardinality(later(t[x]) \cup {x}) = IF x \in later(t[x]) THEN Cardinality(later(t[x]))
                                                   ELSE Cardinality(later(t[x])) + 1
        BY <4>1, FS_AddElement
      <4>3. QED BY <4>1, <4>2, FS_CardinalityType
    <3>4. Cardinality(kept) <= Cardinality(later(t[x]) \cup {x})
      BY <3>2, <3>3, FS_Subset
    <3>5. Cardinality(later(t[x])) < R /\ Cardinality(later(t[x])) \in Nat
      BY <1>1, <1>2, <1>3, <3>1
    <3> DEFINE a == Cardinality(kept)
               b == Cardinality(later(t[x]))
               c == Cardinality(later(t[x]) \cup {x})
    <3>6. a \in Nat /\ b \in Nat /\ c \in Nat /\ a <= c /\ c <= b + 1 /\ b < R
      BY <1>2, <3>3, <3>4, <3>5
    <3> HIDE DEF a, b, c
    <3>7. a <= R
      BY <3>6
    <3>8. QED BY <3>7 DEF a
  <2>3. QED BY <2>1, <2>2
<1>6. ASSUME NEW v \in Nat, Cardinality(later(v)) >= R
      PROVE  Cardinality(K(v)) >= R
  <2>1. CASE later(v) \subseteq kept
    <3>1. later(v) \subseteq K(v)
      BY <1>4, <2>1
    <3>2. Cardinality(later(v)) <= Cardinality(K(v))
      BY <1>4, <3>1, FS_Subset
    <3>3. QED BY <1>1, <1>4, <1>6, <3>2
  <2>2. CASE ~ later(v) \subseteq kept
    <3> DEFINE C == {later(t[y]) : y \in later(v) \ kept}
    <3>1. C \in SUBSET FiniteSubsetsOf(D) /\ C # {}
      <4>1. C # {}
        <5>1. PICK y \in later(v) : y \notin kept
          BY <2>2
        <5>2. later(t[y]) \in C
          BY <5>1
        <5>3. QED BY <5>2
      <4>2. \A U \in C : U \subseteq D
        BY <1>1
      <4>3. \A U \in SUBSET D : U \in FiniteSubsetsOf(D)
        BY FS_FiniteSubsetsOfFinite
      <4> HIDE DEF C
      <4>4. QED BY <4>1, <4>2, <4>3
    <3>2. \E T \in C : \A U \in C : U \subseteq T => U = T
      <4> HIDE DEF C
      <4> QED BY <3>1, SmallestSet
    <3>3. PICK y \in later(v) \ kept : \A U \in C : U \subseteq later(t[y]) => U = later(t[y])
      <4>1. PICK T \in C : \A U \in C : U \subseteq T => U = T
        BY <3>2
      <4>2. PICK y \in later(v) \ kept : T = later(t[y])
        OBVIOUS
      <4> HIDE DEF C
      <4>3. QED BY <4>1, <4>2
    <3>4. ASSUME NEW z \in later(t[y])
          PROVE  z \in K(v)
      <4>1. z \in later(v) /\ t[z] \in Nat /\ t[y] \in Nat /\ t[z] > t[y]
        BY <1>3, <3>3
      <4>2. ASSUME z \notin kept
            PROVE  FALSE
        <5>1. later(t[z]) \in C
          BY <4>1, <4>2
        <5>2. later(t[z]) \subseteq later(t[y]) /\ z \notin later(t[z])
          BY <1>3, <4>1
        <5>3. later(t[z]) = later(t[y])
          BY <3>3, <5>1, <5>2
        <5>4. QED BY <5>2, <5>3
      <4>3. QED BY <1>4, <4>1, <4>2
    <3>5. Cardinality(later(t[y])) <= Cardinality(K(v))
      <4>1. later(t[y]) \subseteq K(v)
        BY <3>4
      <4>2. QED BY <1>4, <4>1, FS_Subset
    <3>6. Cardinality(later(t[y])) >= R
      BY <1>1, <1>3, <3>3
    <3>7. QED BY <1>1, <1>4, <3>5, <3>6
  <2>3. QED BY <2>1, <2>2
<1>7. QED BY <1>5, <1>6, Zenon DEF later, kept, K

\* A new run comes behind all before it.
LEMMA PlacesStep ==
  ASSUME Typed, PlacesDistinct, RunsGoOn
  PROVE  PlacesDistinct'
<1>1. \A q \in Started : q \in Runs /\ command'[q].place = command[q].place /\ command[q].place \in Nat
  BY DEF RunsGoOn, SameRun, Started, Typed, TypeOK, Command
<1>2. IsFiniteSet(Started) /\ Cardinality(Started) \in Nat
  <2>1. Started \in SUBSET Runs
    BY DEF Started
  <2>2. QED BY <2>1, FS_Subset, FS_CardinalityType
<1>3. CASE Started' = Started
  BY <1>1, <1>3 DEF PlacesDistinct
<1>4. ASSUME NEW r \in Runs \ Started, NEW g \in Groups, NEW k \in Keys, NEW t \in Times,
             Started' = Started \cup {r}, SameRun(NewCommand(g, k, t), command'[r])
      PROVE  PlacesDistinct'
  <2>1. Cardinality(Started') = Cardinality(Started) + 1
    BY <1>2, <1>4, FS_AddElement
  <2>2. command'[r].place = Cardinality(Started)
    BY <1>4 DEF SameRun, NewCommand
  <2>3. \A q \in Started : command'[q].place < Cardinality(Started)
    BY <1>1 DEF PlacesDistinct
  <2>4. \A q \in Started' : command'[q].place < Cardinality(Started')
    BY <1>1, <1>2, <1>4, <2>1, <2>2, <2>3
  <2>5. ASSUME NEW p \in Started', NEW q \in Started', command'[p].place = command'[q].place
        PROVE  p = q
    BY <1>1, <1>2, <1>4, <2>2, <2>3, <2>5 DEF PlacesDistinct
  <2>6. QED BY <2>4, <2>5 DEF PlacesDistinct
<1>5. QED BY <1>3, <1>4 DEF RunsGoOn

\* The completed runs of a group in the map.
Done(g) == {r \in commands : command[r].group = g /\ ~IsActive(r)}
DoneNext(g) == {r \in commands' : command'[r].group = g /\ ~IsActive(r)'}

\* A step that ends no run and prunes none.
LEMMA QuietRetains ==
  ASSUME Typed, NewestRetained,
         \A q \in Started : /\ q \in Started'
                            /\ command'[q].group = command[q].group
                            /\ command'[q].startedAt = command[q].startedAt
                            /\ IsActive(q)' <=> IsActive(q),
         \A q \in Started' \ Started : IsActive(q)',
         commands' = commands \cup (Started' \ Started)
  PROVE  NewestRetained'
<1>1. commands \subseteq Started /\ \A q \in Started : command[q].group \in Groups
  BY DEF Typed, TypeOK, Started, Command
<1>2. \A g : DoneNext(g) = Done(g)
  BY <1>1 DEF Done, DoneNext
<1>3. Started' \ commands' = Started \ commands
  BY <1>1
<1>4. ASSUME NEW r \in Started \ commands
      PROVE  {q \in DoneNext(command'[r].group) : command'[q].startedAt >= command'[r].startedAt}
             = {q \in Done(command[r].group) : command[q].startedAt >= command[r].startedAt}
  <2>1. DoneNext(command'[r].group) = Done(command[r].group)
    BY <1>2
  <2>2. \A q \in Done(command[r].group) : q \in Started
    BY <1>1 DEF Done
  <2>3. QED BY <2>1, <2>2
<1>5. /\ \A g \in Groups : Cardinality(Done(g)) <= Retained
      /\ \A r \in Started \ commands :
           /\ ~IsActive(r)
           /\ Cardinality({q \in Done(command[r].group) : command[q].startedAt >= command[r].startedAt}) >= Retained
  BY Zenon DEF NewestRetained, Done
<1>6. /\ \A g \in Groups : Cardinality(DoneNext(g)) <= Retained
      /\ \A r \in Started' \ commands' :
           /\ ~IsActive(r)'
           /\ Cardinality({q \in DoneNext(command'[r].group) : command'[q].startedAt >= command'[r].startedAt}) >= Retained
  BY <1>2, <1>3, <1>4, <1>5
<1>7. QED BY <1>6, Zenon DEF NewestRetained, DoneNext

\* A step that ends run r and prunes its group.  A rank tells the runs of the group apart: the
\* start time first, and the place in the map where two runs share one.
LEMMA FinishRetains ==
  ASSUME Typed, Typed', NewestRetained, PlacesDistinct', NEW r \in Runs, NEW cmd \in Command, NEW chunks,
         NEW status \in EndStatuses, Finish(r, cmd, chunks, status),
         \/ command[r] = None
         \/ IsActive(r) /\ cmd.group = command[r].group /\ cmd.startedAt = command[r].startedAt
  PROVE  NewestRetained'
<1> DEFINE new  == [cmd EXCEPT !.status = status, !.process = FALSE, !.finalizing = FALSE, !.stopTimer = FALSE]
           g    == cmd.group
           D    == {q \in commands \cup {r} : command'[q].group = g /\ command'[q].status \in EndStatuses}
           kept == D \ Obsolete(D)
           n    == Cardinality(Started')
           time(q)  == command'[q].startedAt
           above(q) == n - command'[q].place
           t    == [q \in D |-> time(q) * (n + 1) + above(q) + 1]
           from(q) == time(q) * (n + 1)
<1>1. command' = [command EXCEPT ![r] = new] /\ commands' = (commands \cup {r}) \ Obsolete(D)
  BY Zenon DEF Finish, Prune
<1>2. /\ new # None /\ new.group = g /\ new.startedAt = cmd.startedAt /\ new.status = status
      /\ status \notin ActiveStatuses
  <2>1. new \in Command
    BY FinishedRecord
  <2>2. QED BY <2>1 DEF Command, ActiveStatuses, EndStatuses
<1> HIDE DEF new
<1>3. /\ command'[r] = new /\ \A q \in Runs : q # r => command'[q] = command[q]
      /\ commands \subseteq Started /\ Started \subseteq Runs
  BY <1>1 DEF Typed, TypeOK, Started
<1>4. /\ \A q \in commands : q # r => (command'[q].status \in EndStatuses <=> ~IsActive(q))
      /\ r \notin commands \/ IsActive(r)
      /\ r \in D
  BY <1>2, <1>3 DEF Typed, TypeOK, Command, IsActive, Started, ActiveStatuses, EndStatuses
<1>5. D = Done(g) \cup {r} /\ r \notin Done(g)
  BY <1>3, <1>4 DEF Done
<1>6. D \subseteq Runs /\ D \subseteq Started' /\ IsFiniteSet(D)
  <2>1. D \subseteq Runs /\ D \subseteq Started'
    BY <1>2, <1>3 DEF Started
  <2> HIDE DEF D
  <2>2. QED BY <2>1, FS_Subset
<1>7. /\ n \in Nat /\ n + 1 \in Nat \ {0}
      /\ \A q \in Started' : q \in Runs /\ time(q) \in Nat /\ above(q) \in 0..((n + 1) - 1)
  <2>1. n \in Nat
    <3>1. Started' \subseteq Runs
      BY DEF Started
    <3>2. QED BY <3>1, FS_Subset, FS_CardinalityType
  <2>2. \A q \in Started' : q \in Runs /\ time(q) \in Nat /\ command'[q].place \in Nat
    BY DEF Started, Typed, TypeOK, Command
  <2>3. \A q \in Started' : command'[q].place < n
    BY DEF PlacesDistinct
  <2> HIDE DEF n, time
  <2>4. QED BY <2>1, <2>2, <2>3
<1> HIDE DEF D, g, n
<1>8. \A p, q \in D : /\ t[p] \in Nat /\ from(p) \in Nat
                      /\ t[p] > t[q] <=> SortsBefore(p, q)
  <2>1. ASSUME NEW p \in D, NEW q \in D
        PROVE  /\ t[p] \in Nat /\ from(p) \in Nat
               /\ t[p] > t[q] <=> SortsBefore(p, q)
    <3>1. /\ time(p) \in Nat /\ time(q) \in Nat /\ above(p) \in 0..((n + 1) - 1) /\ above(q) \in 0..((n + 1) - 1)
          /\ command'[p].place \in Nat /\ command'[q].place \in Nat
      BY <1>6, <1>7 DEF Typed, TypeOK, Command, Started
    <3>2. t[p] = time(p) * (n + 1) + above(p) + 1 /\ t[q] = time(q) * (n + 1) + above(q) + 1
      OBVIOUS
    <3>3. above(p) > above(q) <=> command'[p].place < command'[q].place
      BY <1>7, <3>1
    <3>4. SortsBefore(p, q) <=> time(p) > time(q) \/ (time(p) = time(q) /\ above(p) > above(q))
      BY <3>3 DEF SortsBefore
    <3> HIDE DEF time, above, t
    <3>5. time(p) * (n + 1) + above(p) + 1 \in Nat /\ time(p) * (n + 1) \in Nat
      BY <1>7, <3>1
    <3>6. time(p) * (n + 1) + above(p) + 1 > time(q) * (n + 1) + above(q) + 1
            <=> time(p) > time(q) \/ (time(p) = time(q) /\ above(p) > above(q))
      <4>1. \A a, b \in Nat : \A i, j \in 0..((n + 1) - 1) :
              a * (n + 1) + i + 1 > b * (n + 1) + j + 1 <=> a > b \/ (a = b /\ i > j)
        BY <1>7, RankedPair, Zenon
      <4>2. QED BY <3>1, <4>1, Zenon
    <3>7. from(p) = time(p) * (n + 1)
      BY DEF from
    <3>8. QED BY <3>2, <3>4, <3>5, <3>6, <3>7, Zenon
  <2>2. QED BY <2>1
<1>8b. \A p, q \in D : t[p] = t[q] => p = q
  <2>1. ASSUME NEW p \in D, NEW q \in D, t[p] = t[q]
        PROVE  p = q
    <3>1. ~(t[p] > t[q]) /\ ~(t[q] > t[p])
      <4> HIDE DEF t, from
      <4>1. t[p] \in Nat
        BY <1>8, <2>1
      <4>2. QED BY <2>1, <4>1
    <3>2. ~SortsBefore(p, q) /\ ~SortsBefore(q, p)
      <4> HIDE DEF t, from
      <4>1. QED BY <1>8, <3>1, Zenon
    <3>3. /\ command'[p].startedAt \in Nat /\ command'[q].startedAt \in Nat
          /\ command'[p].place \in Nat /\ command'[q].place \in Nat /\ p \in Started' /\ q \in Started'
      BY <1>6, <1>7 DEF Typed, TypeOK, Command, Started
    <3>4. command'[p].place = command'[q].place
      BY <3>2, <3>3 DEF SortsBefore
    <3>5. QED BY <3>3, <3>4 DEF PlacesDistinct
  <2>2. QED BY <2>1
\* The runs of D that are not older than q are those of a higher rank than its time.
<1>8c. \A q \in Started' : {p \in D : t[p] > from(q)} = {p \in D : command'[p].startedAt >= command'[q].startedAt}
  <2>1. ASSUME NEW q \in Started', NEW p \in D
        PROVE  t[p] > from(q) <=> time(p) >= time(q)
    <3>1. time(p) \in Nat /\ time(q) \in Nat /\ above(p) \in 0..((n + 1) - 1)
      BY <1>6, <1>7
    <3>2. t[p] = time(p) * (n + 1) + above(p) + 1 /\ from(q) = time(q) * (n + 1)
      OBVIOUS
    <3> HIDE DEF time, above, t, from
    <3>4. time(p) * (n + 1) + above(p) + 1 > time(q) * (n + 1) <=> time(p) >= time(q)
      BY <1>7, <3>1, RankedFrom, Zenon
    <3>5. QED BY <3>2, <3>4, Zenon
  <2>2. QED BY <2>1
<1>8d. \A q \in Started' : from(q) \in Nat
  BY <1>7
<1>8a. t \in [D -> Nat]
  <2>1. \A p \in D : time(p) * (n + 1) + above(p) + 1 \in Nat
    BY <1>6, <1>7
  <2>2. QED BY <2>1
<1> HIDE DEF t, from
<1>9. kept = Newest(D, t, Retained)
  <2>1. \A x \in D : {q \in D : SortsBefore(q, x)} = {q \in D : t[q] > t[x]}
    BY <1>8, Zenon
  <2>2. QED BY <2>1 DEF Obsolete, Newest, Later
<1>10. /\ Cardinality(kept) <= Retained
       /\ \A v \in Nat : Cardinality(Later(D, t, v)) >= Retained
                           => Cardinality(Later(kept, t, v)) >= Retained
  <2>1. IsFiniteSet(D) /\ Retained \in Nat /\ \A x, y \in D : t[x] = t[y] => x = y
    BY <1>6, <1>8b
  <2> HIDE DEF kept
  <2>2. QED BY <2>1, <1>9, <1>8a, NewestKept
<1>11. Obsolete(D) \subseteq D
  BY DEF Obsolete
\* If Retained runs of D are not older than q, Retained of those kept are not.
<1>11a. ASSUME NEW q \in Started',
               Cardinality({p \in D : command'[p].startedAt >= command'[q].startedAt}) >= Retained
        PROVE  Cardinality({p \in kept : command'[p].startedAt >= command'[q].startedAt}) >= Retained
  <2>1. Cardinality(Later(D, t, from(q))) >= Retained
    BY <1>8c, <1>11a DEF Later
  <2>2. Cardinality(Later(kept, t, from(q))) >= Retained
    BY <1>8d, <1>10, <2>1
  <2>3. Later(kept, t, from(q)) = {p \in kept : command'[p].startedAt >= command'[q].startedAt}
    BY <1>8c DEF Later
  <2>4. QED BY <2>2, <2>3
<1>12. \A h : DoneNext(h) = IF h = g THEN kept ELSE Done(h)
  <2>1. \A q \in Runs : IsActive(q)' <=> (q # r /\ IsActive(q))
    BY <1>2, <1>3 DEF IsActive, Started
  <2>2. ASSUME NEW h, h # g
        PROVE  DoneNext(h) = Done(h)
    BY <1>1, <1>2, <1>3, <1>4, <1>5, <1>11, <2>1, <2>2 DEF Done, DoneNext
  <2>3. DoneNext(g) = kept
    BY <1>1, <1>2, <1>3, <1>4, <1>5, <1>11, <2>1 DEF Done, DoneNext
  <2>4. QED BY <2>2, <2>3
<1>13. /\ \A h \in Groups : Cardinality(Done(h)) <= Retained
       /\ \A q \in Started \ commands :
            /\ ~IsActive(q)
            /\ Cardinality({p \in Done(command[q].group) : command[p].startedAt >= command[q].startedAt}) >= Retained
  BY Zenon DEF NewestRetained, Done
<1>14. \A h \in Groups : Cardinality(DoneNext(h)) <= Retained
  BY <1>10, <1>12, <1>13
<1>15. ASSUME NEW q \in Started' \ commands'
       PROVE  /\ ~IsActive(q)'
              /\ Cardinality({p \in DoneNext(command'[q].group) : command'[p].startedAt >= command'[q].startedAt}) >= Retained
  <2>1. q \in Runs /\ command'[q].startedAt \in Nat
    BY <1>7
  <2>2. CASE q \in Obsolete(D)
    <3> DEFINE before == {p \in D : SortsBefore(p, q)}
               notOlder == {p \in D : command'[p].startedAt >= command'[q].startedAt}
    <3>1. q \in D /\ Cardinality(before) >= Retained
      BY <2>2 DEF Obsolete
    <3>2. before \subseteq notOlder
      BY <1>6, <1>7, <2>1 DEF SortsBefore
    <3>3. IsFiniteSet(notOlder) /\ Cardinality(notOlder) \in Nat /\ Cardinality(before) \in Nat
          /\ Cardinality(before) <= Cardinality(notOlder)
      <4> HIDE DEF before
      <4>1. notOlder \subseteq D
        OBVIOUS
      <4> HIDE DEF notOlder
      <4>2. QED BY <1>6, <3>2, <4>1, FS_Subset, FS_CardinalityType
    <3>4. command'[q].group = g /\ command'[q].status \in EndStatuses
      BY <3>1 DEF D
    <3>5. ~IsActive(q)'
      BY <3>4 DEF IsActive, ActiveStatuses, EndStatuses
    <3>6. Cardinality(notOlder) >= Retained
      <4> HIDE DEF before, notOlder
      <4>1. QED BY <3>1, <3>3
    <3>7. Cardinality({p \in kept : command'[p].startedAt >= command'[q].startedAt}) >= Retained
      BY <1>11a, <3>6
    <3>8. QED BY <1>12, <3>4, <3>5, <3>7
  <2>3. CASE q \notin Obsolete(D)
    <3>1. q # r /\ q \in Started \ commands /\ command'[q] = command[q]
      BY <1>1, <1>3, <2>1, <2>3 DEF Started
    <3>2. /\ ~IsActive(q)
          /\ Cardinality({p \in Done(command[q].group) : command[p].startedAt >= command[q].startedAt}) >= Retained
      BY <1>13, <3>1
    <3>3. ~IsActive(q)'
      BY <3>1, <3>2 DEF IsActive, Started
    <3>4. \A p \in Done(command[q].group) : p \in Runs /\ (p # r => command'[p] = command[p])
      BY <1>3 DEF Done
    <3>5. CASE command[q].group = g
      <4> DEFINE old == {p \in Done(g) : command[p].startedAt >= command[q].startedAt}
                 all == {p \in D : command'[p].startedAt >= command'[q].startedAt}
      <4>1. old \subseteq all
        BY <1>5, <3>1, <3>4, <3>5
      <4>2. all \subseteq D
        OBVIOUS
      <4> HIDE DEF all, old
      <4>3. /\ IsFiniteSet(all) /\ Cardinality(all) \in Nat
            /\ Cardinality(old) <= Cardinality(all) /\ Cardinality(old) \in Nat
        BY <1>6, <4>1, <4>2, FS_Subset, FS_CardinalityType
      <4>4. Cardinality(all) >= Retained
        BY <3>2, <3>5, <4>3 DEF old
      <4>5. Cardinality({p \in kept : command'[p].startedAt >= command'[q].startedAt}) >= Retained
        BY <1>11a, <4>4 DEF all
      <4>6. QED BY <1>12, <3>1, <3>3, <3>5, <4>5
    <3>6. CASE command[q].group # g
      <4>1. r \notin Done(command[q].group)
        BY <1>4 DEF Done
      <4>2. {p \in DoneNext(command'[q].group) : command'[p].startedAt >= command'[q].startedAt}
            = {p \in Done(command[q].group) : command[p].startedAt >= command[q].startedAt}
        BY <1>12, <3>1, <3>4, <3>6, <4>1
      <4>3. QED BY <3>2, <3>3, <4>2
    <3>7. QED BY <3>5, <3>6
  <2>4. QED BY <2>2, <2>3
<1>16. QED BY <1>14, <1>15, Zenon DEF NewestRetained, DoneNext

\* Only the end of a run prunes, and it keeps the newest.
LEMMA RetainedStep ==
  ASSUME Typed, Typed', NewestRetained, PlacesDistinct', [Next]_vars
  PROVE  NewestRetained'
<1>1. RunsGoOn
  BY StepGoesOn
<1>2. ASSUME NEW r \in Runs, Start(r)
      PROVE  NewestRetained'
  <2>1. command[r] = None /\ commands' = commands \cup {r}
    BY <1>2 DEF Start
  <2>2. PICK g \in Groups, k \in Keys, t \in Times : command' = [command EXCEPT ![r] = [NewCommand(g, k, t) EXCEPT !.process = TRUE]]
    BY <1>2 DEF Start
  <2> DEFINE new == [NewCommand(g, k, t) EXCEPT !.process = TRUE]
  <2>3. new \in Command /\ new.status = "running"
    <3>1. NewCommand(g, k, t) \in Command /\ NewCommand(g, k, t).status = "running"
      BY NewCommandTyped DEF Typed, NewCommand
    <3>2. QED BY <3>1 DEF Command
  <2>4. command' = [command EXCEPT ![r] = new]
    BY <2>2
  <2> HIDE DEF new
  <2>5. command'[r] = new /\ \A q \in Runs : q # r => command'[q] = command[q]
    BY <2>4 DEF Typed, TypeOK
  <2>6. Started' = Started \cup {r} /\ r \notin Started
    BY <2>1, <2>3, <2>5 DEF Started
  <2>7. IsActive(r)'
    BY <2>3, <2>5, <2>6 DEF IsActive, ActiveStatuses
  <2>8. \A q \in Started : /\ q \in Started' /\ command'[q] = command[q]
                           /\ IsActive(q)' <=> IsActive(q)
    BY <2>5, <2>6 DEF IsActive, Started
  <2>9. QED BY <2>1, <2>6, <2>7, <2>8, QuietRetains
\* The other quiet steps.
<1>3. ASSUME \A q \in Runs : /\ command'[q] = None <=> command[q] = None
                             /\ IsActive(q)' <=> IsActive(q),
             commands' = commands
      PROVE  NewestRetained'
  <2>1. Started' = Started
    BY <1>3 DEF Started
  <2>2. \A q \in Started : q \in Runs /\ command'[q].group = command[q].group
                           /\ command'[q].startedAt = command[q].startedAt
    BY <1>1 DEF RunsGoOn, SameRun, Started
  <2>3. QED BY <1>3, <2>1, <2>2, QuietRetains
<1>4. ASSUME NEW r \in Runs, StartFails(r)
      PROVE  NewestRetained'
  <2>1. PICK g \in Groups, k \in Keys, t \in Times : Finish(r, Appended(NewCommand(g, k, t), 1), {1}, "failed")
    BY <1>4 DEF StartFails
  <2>2. NewCommand(g, k, t) \in Command /\ NewCommand(g, k, t).nextSequence = 1
    BY NewCommandTyped DEF Typed, NewCommand
  <2>3. NewCommand(g, k, t).nextSequence <= MaxWrites + 1 /\ 1 \in Nat \ {0}
    BY <2>2
  <2>4. Appended(NewCommand(g, k, t), 1) \in Command
    BY <2>2, <2>3, AppendedSame
  <2>5. command[r] = None /\ "failed" \in EndStatuses
    BY <1>4 DEF StartFails, EndStatuses
  <2> DEFINE new == Appended(NewCommand(g, k, t), 1)
  <2>6. new \in Command /\ Finish(r, new, {1}, "failed")
    BY <2>1, <2>4
  <2> HIDE DEF new
  <2>7. QED BY <2>5, <2>6, FinishRetains
<1>5. ASSUME NEW r \in Runs, NEW new \in Command, command[r] # None, command' = [command EXCEPT ![r] = new],
             new.status \in ActiveStatuses <=> command[r].status \in ActiveStatuses, commands' = commands
      PROVE  NewestRetained'
  <2>1. command'[r] = new /\ new # None /\ \A q \in Runs : q # r => command'[q] = command[q]
    BY <1>5 DEF Typed, TypeOK
  <2>2. \A q \in Runs : /\ command'[q] = None <=> command[q] = None
                        /\ IsActive(q)' <=> IsActive(q)
    BY <1>5, <2>1 DEF IsActive, Started
  <2>3. QED BY <1>3, <1>5, <2>2
<1>6. ASSUME NEW r \in Runs, Output(r)
      PROVE  NewestRetained'
  <2>1. PICK size \in Sizes : command' = [command EXCEPT ![r] = Appended(@, size)]
    BY <1>6 DEF Output
  <2> DEFINE new == Appended(command[r], size)
  <2>2. command[r] # None /\ command[r] \in Command /\ command[r].nextSequence <= MaxWrites /\ commands' = commands
    BY <1>6 DEF Output, Typed, TypeOK
  <2>3. command[r].nextSequence <= MaxWrites + 1
    BY <2>2 DEF Command, SequenceNumbers
  <2>4. /\ new \in Command
        /\ new = [command[r] EXCEPT !.output = new.output, !.nextSequence = command[r].nextSequence + 1]
    BY <2>2, <2>3, AppendedOutput
  <2>5. command' = [command EXCEPT ![r] = new]
    BY <2>1 DEF Typed, TypeOK
  <2> HIDE DEF new
  <2>6. new.status = command[r].status
    BY <2>2, <2>4 DEF Command
  <2>7. QED BY <1>5, <2>2, <2>4, <2>5, <2>6
<1>7. ASSUME NEW r \in Runs, MonitorEnds(r)
      PROVE  NewestRetained'
  <2> DEFINE cmd == command[r]
             new == [cmd EXCEPT !.status = "finalizing", !.process = FALSE, !.finalizing = TRUE]
  <2>1. cmd # None /\ cmd \in Command /\ IsActive(r) /\ cmd.status \in ActiveStatuses
    BY <1>7 DEF MonitorEnds, Typed, TypeOK, RunOK, Consistent, IsActive, Started
  <2>2. \/ \E status \in EndStatuses : Finish(r, cmd, {}, status)
        \/ /\ command' = [command EXCEPT ![r] = [@ EXCEPT !.status = "finalizing", !.process = FALSE,
                                                          !.finalizing = TRUE]]
           /\ commands' = commands
    BY <1>7, Zenon DEF MonitorEnds, EndStatuses
  <2>3. CASE \E status \in EndStatuses : Finish(r, cmd, {}, status)
    BY <2>1, <2>3, FinishRetains
  <2>4. CASE /\ command' = [command EXCEPT ![r] = [@ EXCEPT !.status = "finalizing", !.process = FALSE,
                                                            !.finalizing = TRUE]]
             /\ commands' = commands
    <3>1. command' = [command EXCEPT ![r] = new]
      BY <2>4 DEF Typed, TypeOK
    <3>2. new \in Command /\ new.status = "finalizing" /\ "finalizing" \in ActiveStatuses
      BY <2>1 DEF Command, ActiveStatuses
    <3> HIDE DEF new
    <3>3. QED BY <1>5, <2>1, <2>4, <3>1, <3>2
  <2>5. QED BY <2>2, <2>3, <2>4
<1>8. ASSUME NEW r \in Runs, FinalizerEnds(r)
      PROVE  NewestRetained'
  <2> DEFINE cmd == command[r]
  <2>1. /\ cmd # None /\ cmd \in Command /\ Consistent(cmd) /\ cmd.finalizing /\ IsActive(r)
    BY <1>8 DEF FinalizerEnds, Typed, TypeOK, RunOK, Consistent, IsActive, Started
  <2>2. Outcome(cmd, "succeeded") \in EndStatuses /\ Outcome(cmd, "failed") \in EndStatuses
    BY DEF Outcome, EndStatuses
  <2>3. \/ Finish(r, cmd, {}, Outcome(cmd, "succeeded"))
        \/ Finish(r, Appended(cmd, 1), {cmd.nextSequence}, Outcome(cmd, "failed"))
    BY <1>8, Zenon DEF FinalizerEnds
  <2>4. /\ Appended(cmd, 1) \in Command
        /\ Appended(cmd, 1).group = cmd.group /\ Appended(cmd, 1).startedAt = cmd.startedAt
    <3>1. cmd.nextSequence <= MaxWrites + 1 /\ 1 \in Nat \ {0}
      BY <2>1, ActiveNumber
    <3>2. QED BY <2>1, <3>1, AppendedSame DEF SameRun
  <2>5. QED BY <2>1, <2>2, <2>3, <2>4, FinishRetains
<1>9. ASSUME NEW r \in Runs, KillTimer(r)
      PROVE  NewestRetained'
  <2> DEFINE new == [command[r] EXCEPT !.stopTimer = FALSE]
  <2>1. /\ command[r] # None /\ command[r] \in Command /\ command' = [command EXCEPT ![r] = new]
        /\ commands' = commands
    BY <1>9 DEF KillTimer, Typed, TypeOK
  <2>2. new \in Command /\ new.status = command[r].status
    BY <2>1 DEF Command
  <2> HIDE DEF new
  <2>3. QED BY <1>5, <2>1, <2>2
<1>10. ASSUME NEW S \in SUBSET Stoppable(commands), StopEach(S), commands' = commands
       PROVE  NewestRetained'
  <2>1. \A r \in Runs \ S : command'[r] = command[r]
    BY <1>10 DEF StopEach
  <2>2. ASSUME NEW r \in S
        PROVE  r \in Runs /\ command[r] # None /\ IsActive(r) /\ command'[r] # None /\ IsActive(r)'
    <3>1. r \in Runs /\ command[r] # None /\ command[r] \in Command /\ IsActive(r)
      BY <1>10 DEF Stoppable, IsActive, Started, Typed, TypeOK
    <3>2. command'[r] = [command[r] EXCEPT !.stopRequested = TRUE, !.status = "stopping", !.stopTimer = TRUE]
      BY <1>10, <3>1 DEF StopEach
    <3>3. command'[r] \in Command /\ command'[r].status = "stopping"
      BY <3>1, <3>2 DEF Command, ActiveStatuses
    <3>4. QED BY <3>1, <3>3 DEF IsActive, Started, ActiveStatuses
  <2>3. \A r \in Runs : /\ command'[r] = None <=> command[r] = None
                        /\ IsActive(r)' <=> IsActive(r)
    BY <2>1, <2>2 DEF IsActive, Started
  <2>4. QED BY <1>3, <1>10, <2>3
<1>11. CASE (\E r \in Runs : Stop(r)) \/ (\E g \in Groups : StopGroup(g)) \/ Close
  <2>1. (\E S \in SUBSET Stoppable(commands) : StopEach(S)) /\ commands' = commands
    BY <1>11, Zenon DEF Stop, StopGroup, Close
  <2>2. QED BY <1>10, <2>1
<1>12. ASSUME UNCHANGED <<command, commands>>
       PROVE  NewestRetained'
  <2>1. \A r \in Runs : /\ command'[r] = None <=> command[r] = None
                        /\ IsActive(r)' <=> IsActive(r)
    BY <1>12 DEF IsActive, Started
  <2>2. QED BY <1>3, <1>12, <2>1
<1>13. CASE \E r \in Runs : LeaderExits(r) \/ DescendantExits(r)
  BY <1>12, <1>13 DEF LeaderExits, DescendantExits
<1>14. CASE \E s \in Streams : Unsubscribe(s) \/ \E r \in Runs : Subscribe(s, r)
  BY <1>12, <1>14 DEF Unsubscribe, Subscribe
<1>15. CASE UNCHANGED vars
  BY <1>12, <1>15 DEF vars
<1>16. QED BY <1>2, <1>4, <1>6, <1>7, <1>8, <1>9, <1>11, <1>13, <1>14, <1>15 DEF Next, RunStep

\* The history of a group keeps its newest completed runs: never more than
\* completedRunsPerOwner, and what prune dropped is stamped no later than that many of those it
\* kept, whatever was started and finished since and whatever the clock showed.
THEOREM NewestAreRetained == Spec => []NewestRetained
<1>1. Init => PlacesDistinct /\ NewestRetained
  <2>1. ASSUME Init
        PROVE  Started = {} /\ commands = {}
    BY <2>1 DEF Init, Started
  <2>2. Cardinality({}) = 0
    BY FS_EmptySet
  <2>3. \A g : {r \in {} : command[r].group = g /\ ~IsActive(r)} = {}
    OBVIOUS
  <2>4. QED BY <2>1, <2>2, <2>3 DEF PlacesDistinct, NewestRetained
<1>2. Typed /\ PlacesDistinct /\ [Next]_vars => PlacesDistinct'
  BY StepGoesOn, PlacesStep
<1>3. Typed /\ Typed' /\ PlacesDistinct' /\ NewestRetained /\ [Next]_vars => NewestRetained'
  BY RetainedStep
<1>4. QED BY <1>1, <1>2, <1>3, Typing, PTL DEF Spec
=============================================================================
