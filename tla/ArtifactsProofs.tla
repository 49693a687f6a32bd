--------------------------- MODULE ArtifactsProofs ---------------------------
(***************************************************************************)
(* Theorems about Artifacts, for any number of artifacts, runs, retained   *)
(* builds, crashes and errors: what holds of the rows and runs of any      *)
(* number of server processes, and, of one process, that its builds have   *)
(* their payload, that no payload outlives its reason, and that what can   *)
(* be downloaded is the history ArtifactHistory promises.                  *)
(***************************************************************************)
EXTENDS Artifacts, ProofLemmas, SequenceTheorems

USE ArtifactAssumption

-----------------------------------------------------------------------------
(* Selections.                                                             *)

\* Every place of a selection has an element: as many places come before some selected one.
LEMMA PlaceTaken ==
  ASSUME NEW P \in SUBSET Nat, IsFiniteSet(P), NEW n \in 1..Cardinality(P)
  PROVE  \E i \in P : Cardinality({j \in P : j < i}) = n - 1
<1> DEFINE m       == Cardinality(P)
           low(i)  == {j \in P : j < i}
           rank    == [i \in P |-> Cardinality(low(i))]
<1>1. m \in Nat
  BY FS_CardinalityType
<1>2. \A i \in P : IsFiniteSet(low(i)) /\ Cardinality(low(i)) \in Nat
  <2>1. SUFFICES ASSUME NEW i \in P
                 PROVE  IsFiniteSet(low(i)) /\ Cardinality(low(i)) \in Nat
    OBVIOUS
  <2>2. low(i) \subseteq P
    OBVIOUS
  <2> HIDE DEF low
  <2>3. QED BY <2>2, FS_Subset, FS_CardinalityType
<1>3. \A i \in P : \A T \in SUBSET P : i \in T /\ low(i) \subseteq T =>
        IsFiniteSet(T) /\ Cardinality(T) \in Nat /\ Cardinality(low(i)) < Cardinality(T)
  <2>1. SUFFICES ASSUME NEW i \in P, NEW T \in SUBSET P, i \in T, low(i) \subseteq T
                 PROVE  IsFiniteSet(T) /\ Cardinality(T) \in Nat /\ Cardinality(low(i)) < Cardinality(T)
    OBVIOUS
  <2>2. i \notin low(i)
    OBVIOUS
  <2> HIDE DEF low
  <2>3. IsFiniteSet(low(i)) /\ Cardinality(low(i)) \in Nat
    BY <1>2
  <2>4. IsFiniteSet(low(i) \cup {i}) /\ Cardinality(low(i) \cup {i}) = Cardinality(low(i)) + 1
    BY <2>2, <2>3, FS_AddElement
  <2>5. IsFiniteSet(T)
    BY FS_Subset
  <2>6. Cardinality(T) \in Nat
    BY <2>5, FS_CardinalityType
  <2>7. low(i) \cup {i} \in SUBSET T
    BY <2>1
  <2>8. Cardinality(low(i) \cup {i}) <= Cardinality(T)
    BY <2>5, <2>7, FS_Subset
  <2>9. QED BY <2>3, <2>4, <2>5, <2>6, <2>8
<1>4. rank \in [P -> 0..(m - 1)]
  <2>1. SUFFICES ASSUME NEW i \in P
                 PROVE  Cardinality(low(i)) \in 0..(m - 1)
    OBVIOUS
  <2>2. low(i) \subseteq P
    OBVIOUS
  <2> HIDE DEF low
  <2>3. Cardinality(low(i)) < m /\ Cardinality(low(i)) \in Nat
    BY <1>2, <1>3, <2>2
  <2>4. QED BY <1>1, <2>3
<1>5. \A i, k \in P : i < k => rank[i] < rank[k]
  <2>1. SUFFICES ASSUME NEW i \in P, NEW k \in P, i < k
                 PROVE  Cardinality(low(i)) < Cardinality(low(k))
    OBVIOUS
  <2>2. i \in low(k) /\ low(i) \subseteq low(k) /\ low(k) \in SUBSET P
    <3>1. P \subseteq Int
      OBVIOUS
    <3>2. \A j \in P : j < i => j < k
      BY <2>1, <3>1
    <3>3. QED BY <2>1, <3>2
  <2> HIDE DEF low
  <2>3. QED BY <1>3, <2>2
<1>6. rank \in Injection(P, 0..(m - 1))
  <2>1. \A i, k \in P : rank[i] = rank[k] => i = k
    <3>1. SUFFICES ASSUME NEW i \in P, NEW k \in P, rank[i] = rank[k]
                   PROVE  i = k
      OBVIOUS
    <3>2. rank[i] \in Int /\ rank[k] \in Int /\ i \in Int /\ k \in Int
      BY <1>4
    <3> HIDE DEF rank
    <3>3. ~(i < k) /\ ~(k < i)
      BY <1>5, <3>1, <3>2
    <3>4. QED BY <3>2, <3>3
  <2> HIDE DEF rank
  <2>2. QED BY <1>4, <2>1 DEF Injection, IsInjective
<1>7. IsFiniteSet(0..(m - 1)) /\ Cardinality(0..(m - 1)) = m
  <2> HIDE DEF m
  <2>1. m - 1 \in Int /\ 0 \in Int
    BY <1>1
  <2>2. /\ IsFiniteSet(0..(m - 1))
        /\ Cardinality(0..(m - 1)) = IF 0 > m - 1 THEN 0 ELSE (m - 1) - 0 + 1
    BY <2>1, FS_Interval
  <2>3. QED BY <1>1, <2>2
<1>8. rank \in Surjection(P, 0..(m - 1))
  <2> HIDE DEF rank, m
  <2>1. Cardinality(P) = Cardinality(0..(m - 1))
    BY <1>7 DEF m
  <2>2. QED BY <1>6, <1>7, <2>1, FS_Injection
<1>9. n - 1 \in 0..(m - 1)
  BY <1>1
<1>10. PICK i \in P : rank[i] = n - 1
  <2> HIDE DEF rank, m
  <2> QED BY <1>8, <1>9 DEF Surjection
<1>11. QED BY <1>10
\* A selection of a sequence is a sequence of its elements, and no longer.
LEMMA SelectedIn ==
  ASSUME NEW R, NEW q \in Seq(R), NEW S
  PROVE  /\ Selected(q, S) \in Seq(R) /\ Len(Selected(q, S)) <= Len(q)
         /\ Range(Selected(q, S)) \subseteq Range(q)
         /\ q = <<>> => Selected(q, S) = <<>>
<1> DEFINE P == {i \in DOMAIN q : q[i] \in S}
           m == Cardinality(P)
           at(n) == CHOOSE i \in P : Cardinality({j \in P : j < i}) = n - 1
<1>1. DOMAIN q = 1..Len(q) /\ Len(q) \in Nat /\ \A i \in DOMAIN q : q[i] \in R
  OBVIOUS
<1>2. P \in SUBSET Nat /\ P \subseteq DOMAIN q
  BY <1>1
<1>3. IsFiniteSet(DOMAIN q) /\ Cardinality(DOMAIN q) = Len(q)
  <2>1. /\ IsFiniteSet(1..Len(q))
        /\ Cardinality(1..Len(q)) = IF 1 > Len(q) THEN 0 ELSE Len(q) - 1 + 1
    BY <1>1, FS_Interval
  <2>2. (IF 1 > Len(q) THEN 0 ELSE Len(q) - 1 + 1) = Len(q)
    BY <1>1
  <2>3. QED BY <1>1, <2>1, <2>2
<1>4. IsFiniteSet(P) /\ m \in Nat /\ m <= Len(q)
  <2>1. IsFiniteSet(P) /\ m <= Len(q)
    <3> HIDE DEF P
    <3> QED BY <1>2, <1>3, FS_Subset
  <2>2. QED BY <2>1, FS_CardinalityType
<1>5. \A n \in 1..m : at(n) \in P
  <2> HIDE DEF P
  <2>1. SUFFICES ASSUME NEW n \in 1..m
                 PROVE  at(n) \in P
    OBVIOUS
  <2>2. \E i \in P : Cardinality({j \in P : j < i}) = n - 1
    BY <1>2, <1>4, PlaceTaken
  <2>3. QED BY <2>2
<1>6. Selected(q, S) = [n \in 1..m |-> q[at(n)]]
  BY Zenon DEF Selected
<1>7. q = <<>> => m = 0
  <2>1. q = <<>> => P = {}
    OBVIOUS
  <2> HIDE DEF P
  <2>2. QED BY <2>1, FS_EmptySet
<1> HIDE DEF P, m, at
<1>8. \A n \in 1..m : q[at(n)] \in R /\ q[at(n)] \in Range(q)
  BY <1>1, <1>2, <1>5 DEF Range
<1>9. Selected(q, S) \in Seq(R) /\ Len(Selected(q, S)) = m
  BY <1>4, <1>6, <1>8
<1>10. Range(Selected(q, S)) \subseteq Range(q)
  BY <1>6, <1>8 DEF Range
<1>11. q = <<>> => Selected(q, S) = <<>>
  BY <1>7, <1>9
<1>12. QED BY <1>4, <1>9, <1>10, <1>11

\* A selection of what comes first is the beginning of the sequence.
LEMMA SelectedFirst ==
  ASSUME NEW R, NEW q \in Seq(R), NEW S, NEW k \in 0..Len(q),
         \A i \in 1..Len(q) : q[i] \in S <=> i <= k
  PROVE  Selected(q, S) = SubSeq(q, 1, k)
<1> DEFINE P == {i \in DOMAIN q : q[i] \in S}
           at(n) == CHOOSE i \in P : Cardinality({j \in P : j < i}) = n - 1
<1>1. Len(q) \in Nat /\ k \in Nat /\ P = 1..k
  OBVIOUS
<1>2. \A i \in Nat : Cardinality(1..i) = i
  <2>1. SUFFICES ASSUME NEW i \in Nat
                 PROVE  Cardinality(1..i) = i
    OBVIOUS
  <2>2. Cardinality(1..i) = IF 1 > i THEN 0 ELSE i - 1 + 1
    BY FS_Interval
  <2>3. QED BY <2>2
<1>3. \A i \in 1..k : Cardinality({j \in P : j < i}) = i - 1
  <2>1. SUFFICES ASSUME NEW i \in 1..k
                 PROVE  Cardinality({j \in P : j < i}) = i - 1
    OBVIOUS
  <2>2. {j \in 1..k : j < i} = 1..(i - 1) /\ i - 1 \in Nat
    BY <1>1
  <2>3. QED BY <1>1, <1>2, <2>2
<1>4. Selected(q, S) = [n \in 1..Cardinality(P) |-> q[at(n)]]
  BY Zenon DEF Selected
<1>5. Cardinality(P) = k
  BY <1>1, <1>2
<1>6. \A n \in 1..k : at(n) = n
  <2>1. SUFFICES ASSUME NEW n \in 1..k
                 PROVE  at(n) = n
    OBVIOUS
  <2>2. n \in P /\ Cardinality({j \in P : j < n}) = n - 1
    BY <1>1, <1>3
  <2>3. \A i \in P : Cardinality({j \in P : j < i}) = n - 1 => i = n
    <3>1. SUFFICES ASSUME NEW i \in P, Cardinality({j \in P : j < i}) = n - 1
                   PROVE  i = n
      OBVIOUS
    <3>2. i \in 1..k /\ i - 1 = n - 1
      BY <1>1, <1>3, <3>1
    <3>3. QED BY <1>1, <3>2
  <2> HIDE DEF P
  <2>4. QED BY <2>2, <2>3
<1> HIDE DEF P, at
<1>7. Selected(q, S) = [n \in 1..k |-> q[n]]
  BY <1>4, <1>5, <1>6
<1>8. SubSeq(q, 1, k) = [n \in 1..k |-> q[n]]
  OBVIOUS
<1>9. QED BY <1>7, <1>8

\* What is selected comes first when no selected element follows one that is not.
LEMMA FirstOnes ==
  ASSUME NEW R, NEW q \in Seq(R), NEW S,
         \A i, j \in DOMAIN q : i < j /\ q[j] \in S => q[i] \in S
  PROVE  \E k \in 0..Len(q) : \A i \in 1..Len(q) : q[i] \in S <=> i <= k
<1> DEFINE T == {i \in 1..Len(q) : q[i] \notin S}
<1>1. Len(q) \in Nat /\ DOMAIN q = 1..Len(q) /\ T \in SUBSET Nat
  OBVIOUS
<1>2. CASE T = {}
  <2>1. Len(q) \in 0..Len(q)
    BY <1>1
  <2>2. \A i \in 1..Len(q) : q[i] \in S <=> i <= Len(q)
    BY <1>1, <1>2
  <2>3. QED BY <2>1, <2>2
<1>3. CASE T # {}
  <2>1. PICK x \in T : \A y \in T : x <= y
    <3> HIDE DEF T
    <3> QED BY <1>1, <1>3, LeastExists
  <2>2. x \in 1..Len(q) /\ q[x] \notin S
    BY <2>1
  <2>3. \A i \in 1..Len(q) : i < x => q[i] \in S
    BY <2>1, <2>2
  <2>4. \A i \in 1..Len(q) : i > x => q[i] \notin S
    BY <1>1, <2>2
  <2>5. x - 1 \in 0..Len(q)
    BY <1>1, <2>2
  <2>6. \A i \in 1..Len(q) : q[i] \in S <=> i <= x - 1
    <3>1. SUFFICES ASSUME NEW i \in 1..Len(q)
                   PROVE  q[i] \in S <=> i <= x - 1
      OBVIOUS
    <3>2. CASE i < x
      BY <1>1, <2>2, <2>3, <3>2
    <3>3. CASE i = x
      BY <1>1, <2>2, <3>3
    <3>4. CASE i > x
      BY <1>1, <2>2, <2>4, <3>4
    <3>5. QED BY <1>1, <2>2, <3>2, <3>3, <3>4
  <2>7. QED BY <2>5, <2>6
<1>4. QED BY <1>2, <1>3
-----------------------------------------------------------------------------
(* Rows and runs, of any number of server processes.                       *)

Outcomes == {"none", "rejected", "succeeded", "failed", "stopped", "lost"}

\* The types alone, and the rows beside them.
Shapes ==
  /\ registered \in BOOLEAN
  /\ definition \in [Artifacts -> 0..MaxRevision \cup {Removed}]
  /\ builds \in [Artifacts -> Seq(Runs)]
  /\ files \in [Runs -> {"none", "partial", "whole"}]
  /\ server \in [Servers -> {"sweeping", "verifying", "serving", "down"}]
  /\ expected \in [Servers -> SUBSET Runs]
  /\ deleted \in [Servers -> SUBSET Artifacts]
  /\ removing \in [Servers -> SUBSET Artifacts]
  /\ forgetting \in [Servers -> {"no", "files", "row"}]
  /\ run \in [Runs -> Run \cup {None}]
  /\ phase \in [Runs -> Phases]
  /\ stopped \in [Runs -> BOOLEAN]
  /\ outcome \in [Runs -> {"none", "rejected", "succeeded", "failed", "stopped", "lost"}]
  /\ obsolete \in [Runs -> SUBSET Runs]
  /\ crashes \in 0..MaxCrashes /\ errors \in 0..MaxErrors

RowsOK(a) ==
  /\ Len(builds[a]) <= MaxRetained
  /\ builds[a] # <<>> => registered /\ Exists(a)
  /\ \A b \in Range(builds[a]) : run[b].artifact = a

Over == {"evicting", "done"}

\* A definition outlives no catalog entry; a run that began has a server and an artifact; a row
\* is of a run that recorded it, and what such a run evicts is no row any more.
RunsTyped ==
  /\ registered \/ \A a \in Artifacts : ~Exists(a)
  /\ \A r \in Runs : phase[r] = "idle" <=> run[r] = None
  /\ \A r \in Rows : phase[r] \in Over
  /\ \A q \in Runs : /\ obsolete[q] # {} => phase[q] = "evicting"
                     /\ \A x \in obsolete[q] : phase[x] \in Over /\ x \notin Rows

Typed == Shapes /\ (\A a \in Artifacts : RowsOK(a)) /\ RunsTyped

\* The starts accepted during a removal are of artifacts.
LateTyped == late \subseteq Artifacts

\* The three are what the run checks.
LEMMA TypesOfRows ==
  Typed /\ LateTyped => TypeOK
BY DEF Typed, Shapes, RowsOK, TypeOK, Exists, LateTyped

\* Only a start changes them.
LEMMA LateKeeps ==
  LateTyped /\ [Next]_vars => LateTyped'
<1> SUFFICES ASSUME LateTyped, [Next]_vars
             PROVE  LateTyped'
  OBVIOUS
<1>1. CASE UNCHANGED vars
  BY <1>1 DEF vars, runVars, LateTyped
<1>2. ASSUME NEW r \in Runs, RunStep(r) \/ Stop(r) \/ CommandEnds(r)
      PROVE  LateTyped'
  BY <1>2 DEF RunStep, Stop, CommandEnds, Launch, CaptureBegins, CaptureEnds, CancelCapture,
              RemoveCapture, InsertBuild, InsertFails, EvictAndFinish, runVars, LateTyped
<1>3. ASSUME NEW s \in Servers, ServerStep(s)
      PROVE  LateTyped'
  BY <1>3 DEF ServerStep, RemoveOrphans, DeleteMissing, DeleteRepositoryFiles, ForgetRow,
              DeleteArtifactFiles, runVars, LateTyped
<1>4. ASSUME NEW s \in Servers, UserStep(s)
      PROVE  LateTyped'
  <2>1. ASSUME NEW a \in Artifacts, NEW r \in Runs, Request(s, r, a)
        PROVE  LateTyped'
    BY <2>1 DEF Request, LateTyped
  <2>2. ASSUME NEW a \in Artifacts,
               CreateDefinition(s, a) \/ DeleteDefinition(s, a)
               \/ \E revision \in 1..MaxRevision : UpdateDefinition(s, a, revision)
        PROVE  LateTyped'
    BY <2>2 DEF CreateDefinition, DeleteDefinition, UpdateDefinition, runVars, LateTyped
  <2>3. CASE Boot(s) \/ Crash(s) \/ ForgetRepository(s)
    BY <2>3 DEF Boot, Crash, ForgetRepository, runVars, LateTyped
  <2>4. QED BY <1>4, <2>1, <2>2, <2>3 DEF UserStep
<1>5. QED BY <1>1, <1>2, <1>3, <1>4 DEF Next

\* The rows of an artifact are runs.
LEMMA RowsAreRuns ==
  ASSUME Typed
  PROVE  /\ Rows \subseteq Runs
         /\ \A a \in Artifacts : Range(builds[a]) \subseteq Rows
         /\ \A b \in Rows : \E a \in Artifacts : b \in Range(builds[a])
BY DEF Typed, Shapes, Rows, Range

\* What a step has to leave alone to keep the rows as they should be: the rows, their runs and
\* definitions.
LEMMA RowsStay ==
  ASSUME Typed, Shapes', UNCHANGED <<registered, builds>>,
         \A a \in Artifacts : Exists(a) => Exists(a)',
         registered \/ \A a \in Artifacts : ~Exists(a)',
         \A r \in Runs : /\ phase[r] # "idle" => run'[r] = run[r]
                         /\ phase[r] \in Over => phase'[r] \in Over
                         /\ phase'[r] = "idle" <=> run'[r] = None
                         /\ obsolete'[r] = {} \/ (obsolete'[r] = obsolete[r] /\ phase'[r] = phase[r])
  PROVE  Typed'
<1>1. Rows' = Rows /\ Rows \subseteq Runs
  BY RowsAreRuns DEF Rows
<1>2. ASSUME NEW a \in Artifacts
      PROVE  RowsOK(a)'
  <2>1. RowsOK(a)
    BY DEF Typed
  <2>2. \A b \in Range(builds[a]) : run'[b] = run[b]
    <3>1. \A b \in Range(builds[a]) : b \in Rows /\ b \in Runs
      BY RowsAreRuns
    <3>2. \A b \in Range(builds[a]) : phase[b] # "idle"
      BY <3>1 DEF Typed, RunsTyped, Over
    <3>3. QED BY <3>1, <3>2
  <2>3. QED BY <2>1, <2>2 DEF RowsOK
<1>3. RunsTyped'
  <2>1. \A r \in Rows' : phase'[r] \in Over
    BY <1>1 DEF Typed, RunsTyped
  <2>2. ASSUME NEW q \in Runs
        PROVE  /\ obsolete'[q] # {} => phase'[q] = "evicting"
               /\ \A x \in obsolete'[q] : phase'[x] \in Over /\ x \notin Rows'
    <3>1. obsolete[q] \subseteq Runs
      BY DEF Typed, Shapes
    <3>2. QED BY <1>1, <3>1 DEF Typed, RunsTyped
  <2>3. QED BY <2>1, <2>2 DEF RunsTyped
<1>4. QED BY <1>2, <1>3 DEF Typed

\* A run that is not idle has its server and its artifact.
LEMMA RunKnown ==
  ASSUME Typed, NEW r \in Runs, phase[r] # "idle"
  PROVE  run[r] \in Run /\ run[r] # None /\ run[r].server \in Servers /\ run[r].artifact \in Artifacts
<1>1. run[r] \in Run
  BY DEF Typed, Shapes, RunsTyped
<1>2. QED BY <1>1 DEF Run, Typed, RunsTyped

\* A run's step from one phase to the next, with or without an outcome.
PhaseStep(r, to) ==
  /\ to \in Phases \ {"idle"}
  /\ phase' = [phase EXCEPT ![r] = to]
  /\ phase[r] \notin Over \cup {"idle"} \/ (phase[r] = "evicting" /\ to = "done")
  /\ obsolete' = obsolete \/ obsolete' = [obsolete EXCEPT ![r] = {}]
  /\ phase[r] = "evicting" => obsolete'[r] = {}
  /\ files' \in [Runs -> {"none", "partial", "whole"}]
  /\ outcome' \in [Runs -> Outcomes]
  /\ errors' \in 0..MaxErrors
  /\ UNCHANGED <<store, memory, run, stopped, crashes>>

\* Such a step keeps the rows as they should be.
LEMMA PhaseStays ==
  ASSUME Typed, NEW r \in Runs, NEW to, PhaseStep(r, to)
  PROVE  Typed'
<1> USE DEF PhaseStep
<1>1. Shapes'
  BY DEF Typed, Shapes, Outcomes, store, memory
<1>2. /\ phase \in [Runs -> Phases] /\ obsolete \in [Runs -> SUBSET Runs]
      /\ \A q \in Runs : (phase[q] = "idle" <=> run[q] = None) /\ (obsolete[q] # {} => phase[q] = "evicting")
      /\ registered \/ \A a \in Artifacts : ~Exists(a)
  BY DEF Typed, Shapes, Outcomes, RunsTyped
<1>3. \A q \in Runs : /\ phase[q] # "idle" => run'[q] = run[q]
                      /\ phase[q] \in Over => phase'[q] \in Over
                      /\ phase'[q] = "idle" <=> run'[q] = None
                      /\ obsolete'[q] = {} \/ (obsolete'[q] = obsolete[q] /\ phase'[q] = phase[q])
  <2>1. SUFFICES ASSUME NEW q \in Runs
                 PROVE  /\ phase[q] # "idle" => run'[q] = run[q]
                        /\ phase[q] \in Over => phase'[q] \in Over
                        /\ phase'[q] = "idle" <=> run'[q] = None
                        /\ obsolete'[q] = {} \/ (obsolete'[q] = obsolete[q] /\ phase'[q] = phase[q])
    OBVIOUS
  <2>2. CASE q = r
    BY <1>2, <2>2 DEF Over
  <2>3. CASE q # r
    BY <1>2, <2>3
  <2>4. QED BY <2>2, <2>3
<1>4. UNCHANGED <<registered, builds>> /\ \A a \in Artifacts : Exists(a)' = Exists(a)
  BY DEF store, Exists
<1>5. QED BY <1>1, <1>2, <1>3, <1>4, RowsStay
-----------------------------------------------------------------------------
(* Each action keeps the rows as they should be.                           *)

\* The runner's end of a run is a step of its phase, with one of the outcomes.
LEMMA EndIsAPhase ==
  ASSUME Typed, NEW r \in Runs, NEW how \in {"succeeded", "failed"}, Ends(r, how)
  PROVE  /\ phase' = [phase EXCEPT ![r] = "done"]
         /\ outcome' \in [Runs -> Outcomes]
BY DEF Ends, Goto, Typed, Shapes, Outcomes

\* Removing payloads leaves payloads.
LEMMA WithoutIsFiles ==
  ASSUME Typed, NEW gone, Without(gone)
  PROVE  /\ files' \in [Runs -> {"none", "partial", "whole"}]
         /\ \A b \in Runs : files'[b] = IF b \in gone THEN "none" ELSE files[b]
BY DEF Without, Typed, Shapes, Outcomes

\* Launch: the run starts, or is refused.
LEMMA LaunchTyped ==
  ASSUME Typed, NEW r \in Runs, Launch(r)
  PROVE  Typed'
<1>1. \E to \in {"running", "done"} : phase' = [phase EXCEPT ![r] = to]
  BY DEF Launch, Goto
<1>2. PICK to \in {"running", "done"} : phase' = [phase EXCEPT ![r] = to]
  BY <1>1
<1>3. /\ phase[r] = "opening" /\ UNCHANGED <<store, files, memory, run, stopped, obsolete, bounds>>
      /\ outcome' = outcome \/ outcome' = [outcome EXCEPT ![r] = "rejected"]
  BY DEF Launch
<1>4. /\ files' \in [Runs -> {"none", "partial", "whole"}] /\ errors' \in 0..MaxErrors
      /\ outcome' \in [Runs -> Outcomes]
  <2>1. /\ files \in [Runs -> {"none", "partial", "whole"}] /\ errors \in 0..MaxErrors
        /\ outcome \in [Runs -> Outcomes]
    BY DEF Typed, Shapes, Outcomes
  <2>2. files' = files /\ errors' = errors
    BY <1>3 DEF bounds
  <2>3. outcome' \in [Runs -> Outcomes]
    BY <1>3, <2>1 DEF Outcomes
  <2>4. QED BY <2>1, <2>2, <2>3
<1>5. phase[r] \notin Over \cup {"idle"} /\ phase[r] # "evicting" /\ UNCHANGED crashes /\ obsolete' = obsolete
      /\ to \in Phases \ {"idle"}
  BY <1>3 DEF Over, bounds, Phases
<1>6. PhaseStep(r, to)
  BY <1>2, <1>3, <1>4, <1>5 DEF PhaseStep
<1>7. QED BY <1>6, PhaseStays

\* CommandEnds: to the capture, or to the end.
LEMMA CommandEndsTyped ==
  ASSUME Typed, NEW r \in Runs, CommandEnds(r)
  PROVE  Typed'
<1>1. /\ phase[r] = "running" /\ UNCHANGED <<store, files, memory, run, stopped, obsolete, bounds>>
      /\ phase[r] \notin Over \cup {"idle"} /\ phase[r] # "evicting" /\ UNCHANGED crashes
      /\ files' \in [Runs -> {"none", "partial", "whole"}] /\ errors' \in 0..MaxErrors
      /\ "capture" \in Phases \ {"idle"} /\ "done" \in Phases \ {"idle"} /\ obsolete' = obsolete
  BY DEF CommandEnds, Over, bounds, Typed, Shapes, Outcomes, Phases
<1>2. CASE Goto(r, "capture") /\ UNCHANGED outcome
  <2>1. /\ phase' = [phase EXCEPT ![r] = "capture"]
        /\ outcome' \in [Runs -> Outcomes]
    BY <1>2 DEF Goto, Typed, Shapes, Outcomes
  <2>2. PhaseStep(r, "capture")
    BY <1>1, <2>1 DEF PhaseStep
  <2>3. QED BY <2>2, PhaseStays
<1>3. CASE Ends(r, "failed")
  <2>1. PhaseStep(r, "done")
    BY <1>1, <1>3, EndIsAPhase DEF PhaseStep
  <2>2. QED BY <2>1, PhaseStays
<1>4. QED BY <1>2, <1>3 DEF CommandEnds

\* CaptureBegins: the directory is made, or the run ends.
LEMMA CaptureBeginsTyped ==
  ASSUME Typed, NEW r \in Runs, CaptureBegins(r)
  PROVE  Typed'
<1>1. /\ phase[r] = "capture" /\ UNCHANGED <<store, memory, run, stopped, obsolete, bounds>>
      /\ phase[r] \notin Over \cup {"idle"} /\ phase[r] # "evicting" /\ UNCHANGED crashes
      /\ errors' \in 0..MaxErrors
      /\ "copying" \in Phases \ {"idle"} /\ "done" \in Phases \ {"idle"} /\ obsolete' = obsolete
  BY DEF CaptureBegins, Over, bounds, Typed, Shapes, Outcomes, Phases
<1>2. CASE files' = [files EXCEPT ![r] = "partial"] /\ Goto(r, "copying") /\ UNCHANGED outcome
  <2>1. /\ phase' = [phase EXCEPT ![r] = "copying"]
        /\ files' \in [Runs -> {"none", "partial", "whole"}]
        /\ outcome' \in [Runs -> Outcomes]
    BY <1>2 DEF Goto, Typed, Shapes, Outcomes
  <2>2. PhaseStep(r, "copying")
    BY <1>1, <2>1 DEF PhaseStep
  <2>3. QED BY <2>2, PhaseStays
<1>3. CASE Ends(r, "failed") /\ UNCHANGED files
  <2>1. files' \in [Runs -> {"none", "partial", "whole"}]
    BY <1>3 DEF Typed, Shapes, Outcomes
  <2>2. PhaseStep(r, "done")
    BY <1>1, <1>3, <2>1, EndIsAPhase DEF PhaseStep
  <2>3. QED BY <2>2, PhaseStays
<1>4. QED BY <1>2, <1>3 DEF CaptureBegins

\* CaptureEnds: the payload is whole, or it is removed and the run ends.
LEMMA CaptureEndsTyped ==
  ASSUME Typed, NEW r \in Runs, CaptureEnds(r)
  PROVE  Typed'
<1>1. /\ phase[r] = "copying" /\ UNCHANGED <<store, memory, run, stopped, obsolete, bounds>>
      /\ phase[r] \notin Over \cup {"idle"} /\ phase[r] # "evicting" /\ UNCHANGED crashes
      /\ errors' \in 0..MaxErrors
      /\ "captured" \in Phases \ {"idle"} /\ "done" \in Phases \ {"idle"} /\ obsolete' = obsolete
  BY DEF CaptureEnds, Over, bounds, Typed, Shapes, Outcomes, Phases
<1>2. CASE files' = [files EXCEPT ![r] = "whole"] /\ Goto(r, "captured") /\ UNCHANGED outcome
  <2>1. /\ phase' = [phase EXCEPT ![r] = "captured"]
        /\ files' \in [Runs -> {"none", "partial", "whole"}]
        /\ outcome' \in [Runs -> Outcomes]
    BY <1>2 DEF Goto, Typed, Shapes, Outcomes
  <2>2. PhaseStep(r, "captured")
    BY <1>1, <2>1 DEF PhaseStep
  <2>3. QED BY <2>2, PhaseStays
<1>3. CASE Without({r}) /\ Ends(r, "failed")
  <2>1. PhaseStep(r, "done")
    BY <1>1, <1>3, EndIsAPhase, WithoutIsFiles DEF PhaseStep
  <2>2. QED BY <2>1, PhaseStays
<1>4. QED BY <1>2, <1>3 DEF CaptureEnds

\* CancelCapture: the deletion or the stop is noticed.
LEMMA CancelCaptureTyped ==
  ASSUME Typed, NEW r \in Runs, CancelCapture(r)
  PROVE  Typed'
<1>1. /\ phase[r] = "captured" /\ UNCHANGED <<store, memory, run, stopped, obsolete, bounds>>
      /\ phase[r] \notin Over \cup {"idle"} /\ phase[r] # "evicting" /\ UNCHANGED crashes
      /\ errors' \in 0..MaxErrors /\ files' \in [Runs -> {"none", "partial", "whole"}]
      /\ outcome' \in [Runs -> Outcomes]
      /\ "cancelling" \in Phases \ {"idle"} /\ phase' = [phase EXCEPT ![r] = "cancelling"]
      /\ obsolete' = obsolete
  BY DEF CancelCapture, Goto, Over, bounds, Typed, Shapes, Outcomes, Phases
<1>2. PhaseStep(r, "cancelling")
  BY <1>1 DEF PhaseStep
<1>3. QED BY <1>2, PhaseStays

\* RemoveCapture: the captured payload goes.
LEMMA RemoveCaptureTyped ==
  ASSUME Typed, NEW r \in Runs, RemoveCapture(r)
  PROVE  Typed'
<1>1. /\ phase[r] = "cancelling" /\ UNCHANGED <<store, memory, run, stopped, obsolete, bounds>>
      /\ phase[r] \notin Over \cup {"idle"} /\ phase[r] # "evicting" /\ UNCHANGED crashes
      /\ errors' \in 0..MaxErrors /\ "done" \in Phases \ {"idle"} /\ obsolete' = obsolete
      /\ Without({r}) /\ Ends(r, "failed")
  BY DEF RemoveCapture, Over, bounds, Typed, Shapes, Outcomes, Phases
<1>2. PhaseStep(r, "done")
  BY <1>1, EndIsAPhase, WithoutIsFiles DEF PhaseStep
<1>3. QED BY <1>2, PhaseStays

\* InsertFails: the payload stays behind.
LEMMA InsertFailsTyped ==
  ASSUME Typed, NEW r \in Runs, InsertFails(r)
  PROVE  Typed'
<1>1. /\ phase[r] = "captured" /\ UNCHANGED <<store, files, memory, run, stopped, obsolete, crashes>>
      /\ phase[r] \notin Over \cup {"idle"} /\ phase[r] # "evicting"
      /\ files' \in [Runs -> {"none", "partial", "whole"}]
      /\ "done" \in Phases \ {"idle"} /\ obsolete' = obsolete /\ Ends(r, "failed")
  BY DEF InsertFails, Over, Typed, Shapes, Outcomes, Phases
<1>2. errors' \in 0..MaxErrors
  <2>1. errors \in 0..MaxErrors /\ MaxErrors \in Nat
    BY DEF Typed, Shapes, Outcomes
  <2>2. QED BY <2>1 DEF InsertFails
<1>3. PhaseStep(r, "done")
  BY <1>1, <1>2, EndIsAPhase DEF PhaseStep
<1>4. QED BY <1>3, PhaseStays

\* EvictAndFinish: the payloads of the rows the insertion dropped go.
LEMMA EvictAndFinishTyped ==
  ASSUME Typed, NEW r \in Runs, EvictAndFinish(r)
  PROVE  Typed'
<1>1. /\ phase[r] = "evicting" /\ UNCHANGED <<store, memory, run, stopped, bounds>> /\ UNCHANGED crashes
      /\ errors' \in 0..MaxErrors /\ "done" \in Phases \ {"idle"}
      /\ obsolete' = [obsolete EXCEPT ![r] = {}] /\ obsolete'[r] = {}
      /\ Without(obsolete[r]) /\ Ends(r, "succeeded")
  BY DEF EvictAndFinish, bounds, Typed, Shapes, Outcomes, Phases
<1>2. PhaseStep(r, "done")
  BY <1>1, EndIsAPhase, WithoutIsFiles DEF PhaseStep
<1>3. QED BY <1>2, PhaseStays
\* A step that leaves the phases, the runs and what they evict alone.
LEMMA MemoryStep ==
  ASSUME Typed, Shapes', UNCHANGED <<registered, builds, run, phase, obsolete>>,
         \A a \in Artifacts : Exists(a) => Exists(a)',
         registered \/ \A a \in Artifacts : ~Exists(a)'
  PROVE  Typed'
<1>1. \A r \in Runs : /\ phase[r] # "idle" => run'[r] = run[r]
                      /\ phase[r] \in Over => phase'[r] \in Over
                      /\ phase'[r] = "idle" <=> run'[r] = None
                      /\ obsolete'[r] = {} \/ (obsolete'[r] = obsolete[r] /\ phase'[r] = phase[r])
  BY DEF Typed, RunsTyped
<1>2. QED BY <1>1, RowsStay

\* A definition that exists goes on existing when no definition changes.
LEMMA SameDefinitions ==
  ASSUME Typed, UNCHANGED <<registered, definition>>
  PROVE  /\ \A a \in Artifacts : Exists(a) => Exists(a)'
         /\ registered \/ \A a \in Artifacts : ~Exists(a)'
BY DEF Typed, RunsTyped, Exists

\* The requests and removals that touch the memory of a process and the payloads only.
LEMMA QuietStepsTyped ==
  ASSUME Typed, NEW s \in Servers,
         \/ \E a \in Artifacts : DeleteArtifactFiles(s, a)
         \/ ForgetRepository(s) \/ DeleteRepositoryFiles(s) \/ Boot(s) \/ RemoveOrphans(s)
  PROVE  Typed'
<1>1. UNCHANGED <<registered, definition, builds, run, phase, obsolete>>
  BY DEF DeleteArtifactFiles, ForgetRepository, DeleteRepositoryFiles, Boot, RemoveOrphans, store, runVars
<1>2. Shapes'
  <2>1. ASSUME NEW a \in Artifacts, DeleteArtifactFiles(s, a)
        PROVE  Shapes'
    <3>1. Without(RunsOf(a))
      BY <2>1 DEF DeleteArtifactFiles
    <3>2. QED BY <2>1, <3>1, WithoutIsFiles DEF DeleteArtifactFiles, Typed, Shapes, store, runVars, bounds
  <2>2. CASE ForgetRepository(s)
    <3>1. /\ stopped' \in [Runs -> BOOLEAN] /\ deleted' \in [Servers -> SUBSET Artifacts]
          /\ forgetting' \in [Servers -> {"no", "files", "row"}]
      BY <2>2 DEF ForgetRepository, StopAll, Typed, Shapes, IsActive
    <3>2. QED BY <2>2, <3>1 DEF ForgetRepository, Typed, Shapes, store, bounds
  <2>3. CASE DeleteRepositoryFiles(s)
    <3>1. Without(Runs)
      BY <2>3 DEF DeleteRepositoryFiles
    <3>2. QED BY <2>3, <3>1, WithoutIsFiles DEF DeleteRepositoryFiles, Typed, Shapes, store, runVars, bounds
  <2>4. CASE Boot(s)
    <3>1. Rows \subseteq Runs
      BY RowsAreRuns
    <3>2. QED BY <2>4, <3>1 DEF Boot, Typed, Shapes, store, runVars, bounds
  <2>5. CASE RemoveOrphans(s)
    <3>1. Without(Orphans(s))
      BY <2>5 DEF RemoveOrphans
    <3>2. QED BY <2>5, <3>1, WithoutIsFiles DEF RemoveOrphans, Typed, Shapes, store, runVars, bounds
  <2>6. QED BY <2>1, <2>2, <2>3, <2>4, <2>5
<1>3. QED BY <1>1, <1>2, SameDefinitions, MemoryStep

\* CreateDefinition and UpdateDefinition.
LEMMA DefinitionsTyped ==
  ASSUME Typed, NEW s \in Servers, NEW a \in Artifacts, NEW revision \in 1..MaxRevision,
         CreateDefinition(s, a) \/ UpdateDefinition(s, a, revision)
  PROVE  Typed'
<1>1. registered /\ UNCHANGED <<registered, builds, files, memory, runVars, bounds>>
  BY DEF CreateDefinition, UpdateDefinition
<1>2. definition' \in [Artifacts -> 0..MaxRevision \cup {Removed}] /\ \A x \in Artifacts : Exists(x) => Exists(x)'
  <2>1. definition \in [Artifacts -> 0..MaxRevision \cup {Removed}] /\ MaxRevision \in Nat \ {0}
    BY DEF Typed, Shapes
  <2>2. CASE CreateDefinition(s, a)
    BY <2>1, <2>2 DEF CreateDefinition, Exists
  <2>3. CASE UpdateDefinition(s, a, revision)
    <3>1. definition' = [definition EXCEPT ![a] = revision + 1] /\ revision + 1 \in 1..MaxRevision
      BY <2>1, <2>3 DEF UpdateDefinition
    <3>2. QED BY <2>1, <3>1 DEF Exists
  <2>4. QED BY <2>2, <2>3
<1>3. Shapes'
  BY <1>1, <1>2 DEF Typed, Shapes, memory, runVars, bounds
<1>4. QED BY <1>1, <1>2, <1>3, MemoryStep DEF runVars

\* Request: the run comes to exist.
LEMMA RequestTyped ==
  ASSUME Typed, NEW s \in Servers, NEW r \in Runs, NEW a \in Artifacts, Request(s, r, a)
  PROVE  Typed'
<1>1. /\ phase[r] = "idle" /\ phase' = [phase EXCEPT ![r] = "opening"]
      /\ run' = [run EXCEPT ![r] = [server |-> s, artifact |-> a]]
      /\ UNCHANGED <<store, obsolete>>
  BY DEF Request, Goto
<1>2. /\ run \in [Runs -> Run \cup {None}] /\ phase \in [Runs -> Phases]
      /\ \A q \in Runs : (phase[q] = "idle" <=> run[q] = None) /\ (obsolete[q] # {} => phase[q] = "evicting")
  BY DEF Typed, Shapes, RunsTyped
<1>3. [server |-> s, artifact |-> a] \in Run
  BY DEF Run
<1>4. [server |-> s, artifact |-> a] # None
  BY <1>3, ArtifactAssumption
<1>5. Shapes'
  BY <1>1, <1>3 DEF Request, Typed, Shapes, store, bounds, Phases
<1>6. \A q \in Runs : /\ phase[q] # "idle" => run'[q] = run[q]
                      /\ phase[q] \in Over => phase'[q] \in Over
                      /\ phase'[q] = "idle" <=> run'[q] = None
                      /\ obsolete'[q] = {} \/ (obsolete'[q] = obsolete[q] /\ phase'[q] = phase[q])
  <2>1. SUFFICES ASSUME NEW q \in Runs
                 PROVE  /\ phase[q] # "idle" => run'[q] = run[q]
                        /\ phase[q] \in Over => phase'[q] \in Over
                        /\ phase'[q] = "idle" <=> run'[q] = None
                        /\ obsolete'[q] = {} \/ (obsolete'[q] = obsolete[q] /\ phase'[q] = phase[q])
    OBVIOUS
  <2>2. CASE q = r
    BY <1>1, <1>2, <1>4, <2>2 DEF Over
  <2>3. CASE q # r
    BY <1>1, <1>2, <2>3
  <2>4. QED BY <2>2, <2>3
<1>7. UNCHANGED <<registered, definition, builds>>
  BY <1>1 DEF store
<1>8. QED BY <1>5, <1>6, <1>7, SameDefinitions, RowsStay
\* DeleteDefinition: the rows go with the definition.
LEMMA DeleteDefinitionTyped ==
  ASSUME Typed, NEW s \in Servers, NEW a \in Artifacts, DeleteDefinition(s, a)
  PROVE  Typed' /\ Rows' = Rows \ Range(builds[a])
<1>1. /\ definition' = [definition EXCEPT ![a] = Removed] /\ builds' = [builds EXCEPT ![a] = <<>>]
      /\ UNCHANGED <<registered, run, phase, obsolete, outcome, files, server, expected, forgetting>>
      /\ registered
  BY DEF DeleteDefinition
<1>2. /\ definition \in [Artifacts -> 0..MaxRevision \cup {Removed}] /\ builds \in [Artifacts -> Seq(Runs)]
      /\ stopped \in [Runs -> BOOLEAN] /\ deleted \in [Servers -> SUBSET Artifacts]
      /\ removing \in [Servers -> SUBSET Artifacts]
  BY DEF Typed, Shapes
<1>3. Shapes'
  <2>1. /\ stopped' \in [Runs -> BOOLEAN] /\ deleted' \in [Servers -> SUBSET Artifacts]
        /\ removing' \in [Servers -> SUBSET Artifacts]
    BY <1>2 DEF DeleteDefinition, StopAll, IsActive
  <2>2. definition' \in [Artifacts -> 0..MaxRevision \cup {Removed}] /\ builds' \in [Artifacts -> Seq(Runs)]
    BY <1>1, <1>2
  <2>3. UNCHANGED <<crashes, errors>>
    BY DEF DeleteDefinition, bounds
  <2>4. QED BY <1>1, <2>1, <2>2, <2>3 DEF Typed, Shapes
<1>4. Range(<<>>) = {}
  BY DEF Range
<1>5. Rows' = Rows \ Range(builds[a])
  <2>1. \A x \in Artifacts : Range(builds'[x]) = IF x = a THEN {} ELSE Range(builds[x])
    BY <1>1, <1>2, <1>4
  <2>2. \A x \in Artifacts : x # a => Range(builds[x]) \cap Range(builds[a]) = {}
    BY DEF Typed, RowsOK
  <2>3. QED BY <2>1, <2>2 DEF Rows
<1>6. \A x \in Artifacts : RowsOK(x)'
  <2>1. SUFFICES ASSUME NEW x \in Artifacts
                 PROVE  RowsOK(x)'
    OBVIOUS
  <2>2. CASE x = a
    <3>1. builds'[x] = <<>> /\ Len(<<>>) = 0 /\ MaxRetained \in Nat
      BY <1>1, <1>2, <2>2
    <3>2. QED BY <1>4, <3>1 DEF RowsOK
  <2>3. CASE x # a
    <3>1. builds'[x] = builds[x] /\ definition'[x] = definition[x]
      BY <1>1, <1>2, <2>3
    <3>2. QED BY <1>1, <3>1 DEF Typed, RowsOK, Exists
  <2>4. QED BY <2>2, <2>3
<1>7. RunsTyped'
  BY <1>1, <1>5 DEF Typed, RunsTyped
<1>8. QED BY <1>3, <1>5, <1>6, <1>7 DEF Typed

\* ForgetRow: the catalog entry, the definitions and all rows go.
LEMMA ForgetRowTyped ==
  ASSUME Typed, NEW s \in Servers, ForgetRow(s)
  PROVE  Typed' /\ Rows' = {}
<1>1. /\ registered' = FALSE /\ definition' = [a \in Artifacts |-> Removed]
      /\ builds' = [a \in Artifacts |-> <<>>] /\ forgetting' = [forgetting EXCEPT ![s] = "no"]
      /\ UNCHANGED <<run, phase, obsolete, outcome, stopped, files, server, expected, deleted, removing, crashes,
                     errors>>
  BY DEF ForgetRow, runVars, bounds
<1>2. Range(<<>>) = {}
  BY DEF Range
<1>3. Shapes'
  <2>1. <<>> \in Seq(Runs)
    OBVIOUS
  <2>2. forgetting' \in [Servers -> {"no", "files", "row"}]
    BY <1>1 DEF Typed, Shapes
  <2>3. definition' \in [Artifacts -> 0..MaxRevision \cup {Removed}] /\ builds' \in [Artifacts -> Seq(Runs)]
    BY <1>1, <2>1
  <2>4. QED BY <1>1, <2>2, <2>3 DEF Typed, Shapes
<1>4. Rows' = {}
  BY <1>1, <1>2 DEF Rows
<1>5. \A x \in Artifacts : RowsOK(x)'
  <2>1. Len(<<>>) = 0 /\ MaxRetained \in Nat
    OBVIOUS
  <2>2. QED BY <1>1, <1>2, <2>1 DEF RowsOK
<1>6. \A a \in Artifacts : ~Exists(a)'
  <2>1. Removed \notin 1..MaxRevision
    BY ArtifactAssumption
  <2>2. QED BY <1>1, <2>1 DEF Exists
<1>7. RunsTyped'
  BY <1>1, <1>4, <1>6 DEF Typed, RunsTyped
<1>8. QED BY <1>3, <1>4, <1>5, <1>7 DEF Typed

\* What is kept of a list is its beginning, no longer than the bound and with the first element.
LEMMA KeptFirst ==
  ASSUME NEW R, NEW all \in Seq(R), all # <<>>
  PROVE  \E k \in 1..Len(all) :
           /\ k <= MaxRetained /\ (Len(all) <= MaxRetained => k = Len(all))
           /\ Kept(all) \in Seq(R) /\ Len(Kept(all)) = k /\ Kept(all) = SubSeq(all, 1, k)
           /\ \A i \in 1..k : Kept(all)[i] = all[i]
<1> DEFINE k == IF Len(all) > MaxRetained THEN MaxRetained ELSE Len(all)
<1>1. Len(all) \in Nat \ {0} /\ MaxRetained \in Nat \ {0} /\ \A i \in 1..Len(all) : all[i] \in R
  OBVIOUS
<1>2. k \in 1..Len(all) /\ k <= MaxRetained /\ (Len(all) <= MaxRetained => k = Len(all))
  BY <1>1
<1>3. Kept(all) = SubSeq(all, 1, k)
  BY DEF Kept
<1> HIDE DEF k
<1>4. SubSeq(all, 1, k) = [i \in 1..k |-> all[i]]
  BY <1>1, <1>2
<1>5. /\ Kept(all) \in Seq(R) /\ Len(Kept(all)) = k
      /\ \A i \in 1..k : Kept(all)[i] = all[i]
  BY <1>1, <1>2, <1>3, <1>4
<1>6. QED BY <1>2, <1>3, <1>5

\* The new row comes before the rows there are.
LEMMA NewestRows ==
  ASSUME Typed, NEW r \in Runs, NEW a \in Artifacts
  PROVE  /\ NewestFirst(r, a) \in Seq(Runs) /\ NewestFirst(r, a) # <<>>
         /\ Len(NewestFirst(r, a)) = Len(builds[a]) + 1 /\ Len(builds[a]) \in Nat
         /\ NewestFirst(r, a)[1] = r
         /\ \A i \in 1..Len(builds[a]) : NewestFirst(r, a)[i + 1] = builds[a][i]
         /\ \A i \in 2..Len(NewestFirst(r, a)) : i - 1 \in 1..Len(builds[a]) /\ NewestFirst(r, a)[i] = builds[a][i - 1]
         /\ Range(NewestFirst(r, a)) = {r} \cup Range(builds[a])
<1>1. builds[a] \in Seq(Runs)
  BY DEF Typed, Shapes
<1> DEFINE all == <<r>> \o builds[a]
<1>2. NewestFirst(r, a) = all
  BY DEF NewestFirst
<1>3. /\ all \in Seq(Runs) /\ Len(all) = Len(builds[a]) + 1 /\ Len(builds[a]) \in Nat /\ all[1] = r /\ all # <<>>
      /\ \A i \in 1..Len(builds[a]) : all[i + 1] = builds[a][i]
  BY <1>1
<1> HIDE DEF all
<1>4. \A i \in 2..Len(all) : i - 1 \in 1..Len(builds[a]) /\ all[i] = builds[a][i - 1]
  <2>1. SUFFICES ASSUME NEW i \in 2..Len(all)
                 PROVE  i - 1 \in 1..Len(builds[a]) /\ all[i] = builds[a][i - 1]
    OBVIOUS
  <2>2. i - 1 \in 1..Len(builds[a]) /\ (i - 1) + 1 = i
    BY <1>3
  <2>3. QED BY <1>3, <2>2
<1>5. Range(all) = {r} \cup Range(builds[a])
  <2>1. Range(all) = {all[i] : i \in 1..Len(all)} /\ Range(builds[a]) = {builds[a][i] : i \in 1..Len(builds[a])}
    BY <1>1, <1>3 DEF Range
  <2>2. \A i \in 1..Len(all) : i = 1 \/ i \in 2..Len(all)
    BY <1>3
  <2>3. \A i \in 1..Len(builds[a]) : i + 1 \in 1..Len(all)
    BY <1>3
  <2>4. 1 \in 1..Len(all)
    BY <1>3
  <2>5. Range(all) \subseteq {r} \cup Range(builds[a])
    <3>1. \A i \in 2..Len(all) : all[i] \in Range(builds[a])
      BY <1>4, <2>1, Zenon
    <3>2. \A i \in 1..Len(all) : all[i] \in {r} \cup Range(builds[a])
      BY <1>3, <2>2, <3>1
    <3>3. QED BY <2>1, <3>2, Zenon
  <2>6. {r} \cup Range(builds[a]) \subseteq Range(all)
    <3>1. r \in Range(all)
      BY <1>3, <2>1, <2>4
    <3>2. \A i \in 1..Len(builds[a]) : builds[a][i] \in Range(all)
      BY <1>3, <2>1, <2>3
    <3>3. QED BY <2>1, <3>1, <3>2
  <2>7. QED BY <2>5, <2>6
<1>6. QED BY <1>2, <1>3, <1>4, <1>5

\* InsertBuild: the rows of the artifact become the new one and the newest of the others; what
\* the insertion dropped is no row any more.
LEMMA InsertBuildTyped ==
  ASSUME Typed, NEW r \in Runs, InsertBuild(r)
  PROVE  /\ Typed' /\ run[r].artifact \in Artifacts
         /\ r \in Rows' /\ Rows' \subseteq Rows \cup {r}
         /\ \A x \in Rows : x \in Rows' \/ x \in obsolete'[r]
<1> DEFINE a   == run[r].artifact
           all == NewestFirst(r, a)
<1>1. /\ phase[r] = "captured" /\ Exists(a)
      /\ builds' = [builds EXCEPT ![a] = Kept(all)]
      /\ obsolete' = [obsolete EXCEPT ![r] = Dropped(all)]
      /\ phase' = [phase EXCEPT ![r] = "evicting"]
      /\ UNCHANGED <<registered, definition, files, memory, run, stopped, outcome, bounds>>
  BY DEF InsertBuild, Goto
<1>2. a \in Artifacts
  BY <1>1, RunKnown
<1> HIDE DEF a
<1>3. /\ all \in Seq(Runs) /\ all # <<>> /\ all[1] = r /\ Range(all) = {r} \cup Range(builds[a])
  BY <1>2, NewestRows
<1> HIDE DEF all
<1>4. PICK k \in 1..Len(all) :
           /\ k <= MaxRetained
           /\ Kept(all) \in Seq(Runs) /\ Len(Kept(all)) = k
           /\ \A i \in 1..k : Kept(all)[i] = all[i]
  BY <1>3, KeptFirst
<1>5. /\ Range(Kept(all)) \subseteq Range(all) /\ r \in Range(Kept(all)) /\ Kept(all) # <<>>
  <2>1. Range(Kept(all)) = {Kept(all)[i] : i \in 1..k}
    BY <1>4 DEF Range
  <2>2. Range(all) = {all[i] : i \in 1..Len(all)}
    BY <1>3 DEF Range
  <2>3. 1 \in 1..k /\ 1..k \subseteq 1..Len(all)
    BY <1>3, <1>4
  <2>4. Kept(all) # <<>>
    BY <1>4, <2>3
  <2>5. QED BY <1>3, <1>4, <2>1, <2>2, <2>3, <2>4
<1>6. /\ Dropped(all) = Range(all) \ Range(Kept(all)) /\ Dropped(all) \subseteq Range(builds[a])
  BY <1>3, <1>5 DEF Dropped
<1>7. /\ Rows \subseteq Runs /\ Range(builds[a]) \subseteq Rows
      /\ builds \in [Artifacts -> Seq(Runs)] /\ phase \in [Runs -> Phases]
      /\ obsolete \in [Runs -> SUBSET Runs]
  BY <1>2, RowsAreRuns DEF Typed, Shapes
<1>8. Shapes'
  <2>1. builds' \in [Artifacts -> Seq(Runs)] /\ obsolete' \in [Runs -> SUBSET Runs] /\ phase' \in [Runs -> Phases]
    BY <1>1, <1>4, <1>6, <1>7 DEF Phases
  <2>2. QED BY <1>1, <2>1 DEF Typed, Shapes, memory, bounds
<1>9. \A x \in Artifacts : Range(builds'[x]) = IF x = a THEN Range(Kept(all)) ELSE Range(builds[x])
  BY <1>1, <1>2, <1>7
<1>10. \A x \in Artifacts : \A b \in Range(builds[x]) : run[b].artifact = x
  BY DEF Typed, RowsOK
<1>11. /\ r \in Rows' /\ Rows' \subseteq Rows \cup {r}
       /\ \A x \in Rows : x \in Rows' \/ x \in Dropped(all)
       /\ \A x \in Dropped(all) : x \notin Rows'
  <2>1. \A b : b \in Rows <=> \E x \in Artifacts : b \in Range(builds[x])
    BY DEF Rows
  <2>2. \A b : b \in Rows' <=> \E x \in Artifacts : b \in Range(builds'[x])
    BY DEF Rows
  <2>3. r \in Rows'
    BY <1>2, <1>5, <1>9, <2>2
  <2>4. \A b \in Rows' : b \in Rows \cup {r}
    BY <1>3, <1>5, <1>9, <1>2, <2>1, <2>2
  <2>5. \A b \in Rows : b \in Rows' \/ b \in Dropped(all)
    BY <1>2, <1>3, <1>6, <1>9, <2>1, <2>2
  <2>6. \A b \in Dropped(all) : b \notin Rows'
    <3>1. SUFFICES ASSUME NEW b \in Dropped(all), NEW x \in Artifacts, b \in Range(builds'[x])
                   PROVE  FALSE
      BY <2>2
    <3>2. CASE x = a
      BY <1>6, <1>9, <3>1, <3>2
    <3>3. CASE x # a
      <4>1. b \in Range(builds[x]) /\ b \in Range(builds[a])
        BY <1>6, <1>9, <3>1, <3>3
      <4>2. QED BY <1>2, <1>10, <3>3, <4>1
    <3>4. QED BY <3>2, <3>3
  <2>7. QED BY <2>3, <2>4, <2>5, <2>6
<1>12. \A x \in Artifacts : RowsOK(x)'
  <2>1. SUFFICES ASSUME NEW x \in Artifacts
                 PROVE  RowsOK(x)'
    OBVIOUS
  <2>2. RowsOK(x) /\ UNCHANGED <<registered, run>> /\ Exists(x)' = Exists(x)
    BY <1>1 DEF Typed, Exists
  <2>3. CASE x = a
    <3>1. builds'[x] = Kept(all)
      BY <1>1, <1>2, <1>7, <2>3
    <3>2. \A b \in Range(Kept(all)) : run[b].artifact = a
      BY <1>2, <1>3, <1>5, <1>10 DEF a
    <3>3. Exists(x) /\ registered
      BY <1>1, <1>2, <2>3 DEF Typed, RunsTyped
    <3>4. QED BY <1>4, <2>2, <2>3, <3>1, <3>2, <3>3 DEF RowsOK
  <2>4. CASE x # a
    <3>1. builds'[x] = builds[x]
      BY <1>1, <1>7, <2>4
    <3>2. QED BY <2>2, <3>1 DEF RowsOK
  <2>5. QED BY <2>3, <2>4
<1>13. RunsTyped'
  <2>1. /\ registered' \/ \A x \in Artifacts : ~Exists(x)'
        /\ \A q \in Runs : phase[q] = "idle" <=> run[q] = None
        /\ \A q \in Rows : phase[q] \in Over
        /\ \A q \in Runs : obsolete[q] # {} => phase[q] = "evicting"
        /\ \A q \in Runs : \A x \in obsolete[q] : phase[x] \in Over /\ x \notin Rows
    BY <1>1 DEF Typed, RunsTyped, Exists
  <2>2. \A q \in Runs : phase'[q] = IF q = r THEN "evicting" ELSE phase[q]
    BY <1>1, <1>7
  <2>3. \A q \in Runs : obsolete'[q] = IF q = r THEN Dropped(all) ELSE obsolete[q]
    BY <1>1, <1>7
  <2>4. \A q \in Runs : phase'[q] = "idle" <=> run'[q] = None
    BY <1>1, <2>1, <2>2
  <2>5. \A q \in Rows' : phase'[q] \in Over
    BY <1>7, <1>11, <2>1, <2>2 DEF Over
  <2>6. ASSUME NEW q \in Runs
        PROVE  /\ obsolete'[q] # {} => phase'[q] = "evicting"
               /\ \A x \in obsolete'[q] : phase'[x] \in Over /\ x \notin Rows'
    <3>1. CASE q = r
      <4>1. obsolete'[q] = Dropped(all) /\ phase'[q] = "evicting"
        BY <2>2, <2>3, <3>1
      <4>2. \A x \in Dropped(all) : x \in Runs /\ x \notin Rows' /\ phase[x] \in Over
        BY <1>6, <1>7, <1>11, <2>1
      <4>3. \A x \in Dropped(all) : phase'[x] \in Over
        BY <2>2, <4>2 DEF Over
      <4>4. QED BY <4>1, <4>2, <4>3
    <3>2. CASE q # r
      <4>1. obsolete'[q] = obsolete[q] /\ phase'[q] = phase[q]
        BY <2>2, <2>3, <3>2
      <4>2. \A x \in obsolete[q] : x \in Runs /\ x # r /\ x \notin Rows /\ phase[x] \in Over
        BY <1>1, <1>7, <2>1 DEF Over
      <4>3. QED BY <1>11, <2>1, <2>2, <4>1, <4>2
    <3>3. QED BY <3>1, <3>2
  <2>7. QED BY <2>1, <2>4, <2>5, <2>6 DEF RunsTyped
<1>14. obsolete'[r] = Dropped(all)
  BY <1>1, <1>7
<1>15. QED BY <1>2, <1>8, <1>11, <1>12, <1>13, <1>14 DEF Typed, a
\* DeleteMissing: rows whose payload is missing go.
LEMMA DeleteMissingTyped ==
  ASSUME Typed, NEW s \in Servers, DeleteMissing(s)
  PROVE  Typed' /\ Rows' \subseteq Rows
<1>1. /\ builds' = [a \in Artifacts |-> Selected(builds[a], Runs \ Missing(s))]
      /\ Without(Missing(s)) /\ server' = [server EXCEPT ![s] = "serving"]
      /\ expected' = [expected EXCEPT ![s] = {}]
      /\ UNCHANGED <<registered, definition, deleted, removing, forgetting, runVars, bounds>>
  BY DEF DeleteMissing
<1>2. builds \in [Artifacts -> Seq(Runs)]
  BY DEF Typed, Shapes
<1>3. \A a \in Artifacts : /\ builds'[a] \in Seq(Runs) /\ Len(builds'[a]) <= Len(builds[a])
                           /\ Range(builds'[a]) \subseteq Range(builds[a])
                           /\ builds[a] = <<>> => builds'[a] = <<>>
  <2>1. SUFFICES ASSUME NEW a \in Artifacts
                 PROVE  /\ builds'[a] \in Seq(Runs) /\ Len(builds'[a]) <= Len(builds[a])
                        /\ Range(builds'[a]) \subseteq Range(builds[a])
                        /\ builds[a] = <<>> => builds'[a] = <<>>
    OBVIOUS
  <2>2. builds'[a] = Selected(builds[a], Runs \ Missing(s)) /\ builds[a] \in Seq(Runs)
    BY <1>1, <1>2
  <2>3. QED BY <2>2, SelectedIn
<1>4. builds' \in [Artifacts -> Seq(Runs)]
  BY <1>1, <1>3
<1>5. Shapes'
  BY <1>1, <1>4, WithoutIsFiles DEF Typed, Shapes, runVars, bounds
<1>6. Rows' \subseteq Rows
  BY <1>3 DEF Rows
<1>7. \A a \in Artifacts : RowsOK(a)'
  <2>1. SUFFICES ASSUME NEW a \in Artifacts
                 PROVE  RowsOK(a)'
    OBVIOUS
  <2>2. RowsOK(a) /\ Exists(a)' = Exists(a) /\ UNCHANGED <<registered, run>>
    BY <1>1 DEF Typed, Exists, runVars
  <2>3. Len(builds[a]) \in Nat /\ Len(builds'[a]) \in Nat /\ MaxRetained \in Nat
    BY <1>2, <1>3
  <2>4. Len(builds'[a]) <= MaxRetained
    BY <1>3, <2>2, <2>3 DEF RowsOK
  <2>5. QED BY <1>3, <2>2, <2>4 DEF RowsOK
<1>8. RunsTyped'
  BY <1>1, <1>6 DEF Typed, RunsTyped, Exists, runVars
<1>9. QED BY <1>5, <1>6, <1>7, <1>8 DEF Typed

\* A crash ends the runs of its process.
LEMMA CrashTyped ==
  ASSUME Typed, NEW s \in Servers, Crash(s)
  PROVE  /\ Typed'
         /\ \A r \in Runs : \/ phase'[r] = phase[r] /\ obsolete'[r] = obsolete[r] /\ outcome'[r] = outcome[r]
                            \/ phase'[r] = "done" /\ obsolete'[r] = {} /\ run[r] # None /\ run[r].server = s
         /\ \A r \in Runs : run[r] # None /\ run[r].server = s => phase'[r] = "done" /\ obsolete'[r] = {}
<1> DEFINE mine == {r \in Runs : run[r] # None /\ run[r].server = s /\ phase[r] # "done"}
<1>1. /\ phase' = [r \in Runs |-> IF r \in mine THEN "done" ELSE phase[r]]
      /\ outcome' = [r \in Runs |-> IF r \in mine THEN "lost" ELSE outcome[r]]
      /\ obsolete' = [r \in Runs |-> IF r \in mine THEN {} ELSE obsolete[r]]
      /\ UNCHANGED <<store, files, run, stopped, errors>>
      /\ crashes < MaxCrashes /\ crashes' = crashes + 1
      /\ server' = [server EXCEPT ![s] = "down"]
      /\ expected' = [expected EXCEPT ![s] = {}]
      /\ deleted' = [deleted EXCEPT ![s] = {}]
      /\ removing' = [removing EXCEPT ![s] = {}]
      /\ forgetting' = [forgetting EXCEPT ![s] = "no"]
  BY Zenon DEF Crash
<1>2. \A r \in mine : run[r] # None /\ run[r].server = s /\ phase[r] # "done"
  OBVIOUS
<1>3. \A r \in Runs : r \in mine \/ run[r] = None \/ run[r].server # s \/ phase[r] = "done"
  OBVIOUS
<1> HIDE DEF mine
<1>4. /\ Shapes /\ crashes \in 0..MaxCrashes /\ MaxCrashes \in Nat
      /\ \A r \in Runs : phase[r] = "idle" <=> run[r] = None
      /\ \A r \in Runs : obsolete[r] # {} => phase[r] = "evicting"
      /\ registered \/ \A a \in Artifacts : ~Exists(a)
  BY DEF Typed, RunsTyped, Shapes
<1>5. Shapes'
  <2>1. phase' \in [Runs -> Phases] /\ obsolete' \in [Runs -> SUBSET Runs]
    BY <1>1, <1>4 DEF Shapes, Phases
  <2>2. outcome' \in [Runs -> {"none", "rejected", "succeeded", "failed", "stopped", "lost"}]
    BY <1>1, <1>4 DEF Shapes
  <2>3. crashes' \in 0..MaxCrashes
    BY <1>1, <1>4
  <2>4. /\ server' \in [Servers -> {"sweeping", "verifying", "serving", "down"}]
        /\ expected' \in [Servers -> SUBSET Runs]
        /\ deleted' \in [Servers -> SUBSET Artifacts]
        /\ removing' \in [Servers -> SUBSET Artifacts]
        /\ forgetting' \in [Servers -> {"no", "files", "row"}]
    BY <1>1, <1>4 DEF Shapes
  <2>5. QED BY <1>1, <1>4, <2>1, <2>2, <2>3, <2>4 DEF Shapes, store
<1>6. \A q \in Runs : /\ phase[q] # "idle" => run'[q] = run[q]
                      /\ phase[q] \in Over => phase'[q] \in Over
                      /\ phase'[q] = "idle" <=> run'[q] = None
                      /\ obsolete'[q] = {} \/ (obsolete'[q] = obsolete[q] /\ phase'[q] = phase[q])
  BY <1>1, <1>2, <1>4 DEF Over
<1>7. UNCHANGED <<registered, definition, builds>>
  BY <1>1 DEF store
<1>8. Typed'
  BY <1>5, <1>6, <1>7, SameDefinitions, RowsStay
<1>9. \A r \in Runs : \/ phase'[r] = phase[r] /\ obsolete'[r] = obsolete[r] /\ outcome'[r] = outcome[r]
                      \/ phase'[r] = "done" /\ obsolete'[r] = {} /\ run[r] # None /\ run[r].server = s
  BY <1>1, <1>2
<1>10. \A r \in Runs : run[r] # None /\ run[r].server = s => phase'[r] = "done" /\ obsolete'[r] = {}
  BY <1>1, <1>3, <1>4
<1>11. QED BY <1>8, <1>9, <1>10

\* The rows and runs of the first state, and of a state that does not change.
LEMMA InitTyped ==
  Init => Typed
<1> SUFFICES ASSUME Init
             PROVE  Typed
  OBVIOUS
<1>1. <<>> \in Seq(Runs) /\ Range(<<>>) = {} /\ Len(<<>>) = 0
  BY DEF Range
<1>2. 0 \in 0..MaxRevision /\ 0 \notin 1..MaxRevision /\ 0 <= MaxRetained /\ 0 \in 0..MaxCrashes /\ 0 \in 0..MaxErrors
  OBVIOUS
<1>3. Shapes
  BY <1>1, <1>2 DEF Init, Shapes, Phases
<1>4. \A a \in Artifacts : RowsOK(a)
  BY <1>1, <1>2 DEF Init, RowsOK
<1>5. Rows = {}
  BY <1>1 DEF Init, Rows
<1>6. RunsTyped
  BY <1>5 DEF Init, RunsTyped
<1>7. QED BY <1>3, <1>4, <1>6 DEF Typed

\* Every step keeps them.
LEMMA NextTyped ==
  Typed /\ [Next]_vars => Typed'
<1> SUFFICES ASSUME Typed, [Next]_vars
             PROVE  Typed'
  OBVIOUS
<1>1. CASE UNCHANGED vars
  BY <1>1 DEF vars, store, memory, runVars, bounds, Typed, Shapes, RowsOK, RunsTyped, Rows, Exists
<1>2. ASSUME NEW r \in Runs, RunStep(r) \/ Stop(r) \/ CommandEnds(r)
      PROVE  Typed'
  <2>1. CASE Launch(r)
    BY <2>1, LaunchTyped
  <2>2. CASE CaptureBegins(r)
    BY <2>2, CaptureBeginsTyped
  <2>3. CASE CaptureEnds(r)
    BY <2>3, CaptureEndsTyped
  <2>4. CASE CancelCapture(r)
    BY <2>4, CancelCaptureTyped
  <2>5. CASE RemoveCapture(r)
    BY <2>5, RemoveCaptureTyped
  <2>6. CASE InsertBuild(r)
    BY <2>6, InsertBuildTyped
  <2>7. CASE InsertFails(r)
    BY <2>7, InsertFailsTyped
  <2>8. CASE EvictAndFinish(r)
    BY <2>8, EvictAndFinishTyped
  <2>9. CASE CommandEnds(r)
    BY <2>9, CommandEndsTyped
  <2>10. CASE Stop(r)
    <3>1. UNCHANGED <<registered, definition, builds, run, phase, obsolete>>
      BY <2>10 DEF Stop, store
    <3>2. Shapes'
      BY <2>10 DEF Stop, Typed, Shapes, store, memory, bounds
    <3>3. QED BY <3>1, <3>2, SameDefinitions, MemoryStep
  <2>11. QED BY <1>2, <2>1, <2>2, <2>3, <2>4, <2>5, <2>6, <2>7, <2>8, <2>9, <2>10 DEF RunStep
<1>3. ASSUME NEW s \in Servers, ServerStep(s) \/ UserStep(s)
      PROVE  Typed'
  <2>1. CASE DeleteRepositoryFiles(s) \/ Boot(s) \/ RemoveOrphans(s) \/ ForgetRepository(s)
    BY <2>1, QuietStepsTyped
  <2>2. ASSUME NEW a \in Artifacts, DeleteArtifactFiles(s, a)
        PROVE  Typed'
    BY <2>2, QuietStepsTyped
  <2>3. CASE DeleteMissing(s)
    BY <2>3, DeleteMissingTyped
  <2>4. CASE ForgetRow(s)
    BY <2>4, ForgetRowTyped
  <2>5. CASE Crash(s)
    BY <2>5, CrashTyped
  <2>6. ASSUME NEW a \in Artifacts, NEW revision \in 1..MaxRevision,
               CreateDefinition(s, a) \/ UpdateDefinition(s, a, revision)
        PROVE  Typed'
    BY <2>6, DefinitionsTyped
  <2>7. ASSUME NEW a \in Artifacts, CreateDefinition(s, a)
        PROVE  Typed'
    <3>1. 1 \in 1..MaxRevision
      OBVIOUS
    <3>2. QED BY <2>7, <3>1, DefinitionsTyped
  <2>8. ASSUME NEW a \in Artifacts, DeleteDefinition(s, a)
        PROVE  Typed'
    BY <2>8, DeleteDefinitionTyped
  <2>9. ASSUME NEW a \in Artifacts, NEW r \in Runs, Request(s, r, a)
        PROVE  Typed'
    BY <2>9, RequestTyped
  <2>10. QED BY <1>3, <2>1, <2>2, <2>3, <2>4, <2>5, <2>6, <2>7, <2>8, <2>9 DEF ServerStep, UserStep
<1>4. QED BY <1>1, <1>2, <1>3 DEF Next

\* Every state has its types, the rows of an artifact are at most the retained ones and belong to
\* runs of that artifact, and only an artifact that is defined has rows: for any number of server
\* processes over the database.
THEOREM ArtifactTypes ==
  Spec => []TypeOK
<1>1. Spec => []Typed
  BY InitTyped, NextTyped, PTL DEF Spec
<1>2. Init => LateTyped
  BY DEF Init, LateTyped
<1>3. QED BY <1>1, <1>2, LateKeeps, TypesOfRows, PTL DEF Spec
-----------------------------------------------------------------------------
(* One server process over the database.                                   *)

Whole(b) == files[b] = "whole"
Idle     == \A r \in Runs : phase[r] \in {"idle", "done"}

\* A process that does not serve requests has nothing at work: it read the rows there are, and
\* after the sweep only rows have payloads.
StartUp(s) ==
  /\ server[s] # "serving" => forgetting[s] = "no" /\ removing[s] = {} /\ Idle
  /\ server[s] \in {"sweeping", "verifying"} => expected[s] = Rows
  /\ server[s] = "verifying" => \A b \in Runs : files[b] # "none" => b \in Rows

\* The rows whose payload is there are the newest: removing the repository's directory takes
\* those of the rows there are, not of a row that is inserted after it.
WholeFirst(a) ==
  \A i, j \in DOMAIN builds[a] : i < j /\ Whole(builds[a][j]) => Whole(builds[a][i])

RowsWhole(s) ==
  /\ server[s] = "serving" /\ forgetting[s] # "row" => \A b \in Rows : Whole(b)
  /\ \A a \in Artifacts : WholeFirst(a)

\* A run has no payload before it captures one; when it has captured one, the payload is there,
\* unless the artifact is deleted or the repository is being removed; a run of an artifact that
\* is gone is told so.
RunOK(s, r) ==
  /\ phase[r] \in {"idle", "opening", "running", "capture"} => files[r] = "none"
  /\ phase[r] = "captured" /\ ~Whole(r) /\ Exists(run[r].artifact) =>
        forgetting[s] = "row" /\ \A b \in Range(builds[run[r].artifact]) : ~Whole(b)
  /\ phase[r] # "idle" => definition[run[r].artifact] # 0
  /\ registered /\ phase[r] \notin {"idle", "done"} /\ ~Exists(run[r].artifact) => run[r].artifact \in deleted[s]
  /\ outcome[r] = "failed" => phase[r] = "done"

\* Two runs at work are of two artifacts.
OneRun == \A q, r \in Runs : IsActive(q) /\ IsActive(r) /\ run[q].artifact = run[r].artifact => q = r

OneOK(s) ==
  /\ StartUp(s) /\ RowsWhole(s) /\ OneRun
  /\ \A a \in removing[s] : definition[a] = Removed
  /\ \A r \in Runs : RunOK(s, r)

One(s) == Servers = {s} /\ Typed /\ OneOK(s)

\* What accounts for a payload while the repository is in the catalog.
Reason(b) ==
  \/ b \in Rows \/ phase[b] \in {"copying", "captured", "cancelling"}
  \/ \E r \in Runs : b \in obsolete[r]
  \/ \E s \in Servers : server[s] # "serving" \/ run[b].artifact \in removing[s]
  \/ errors > 0 /\ outcome[b] = "failed"
KnownAccounted == registered => \A b \in Runs : files[b] # "none" => Reason(b)

\* Of one process: its requests are served while a run is at work or a removal is under way.
LEMMA AtWork ==
  ASSUME NEW s, One(s), (\E r \in Runs : phase[r] \notin {"idle", "done"}) \/ forgetting[s] # "no" \/ removing[s] # {}
  PROVE  server[s] = "serving"
BY DEF One, OneOK, StartUp, Idle

\* A step of a run at work: its phase, its payload and what was to be evicted.
OneStep(s, r, to) ==
  /\ phase[r] \notin {"idle", "done"} /\ to \in Phases \ {"idle"}
  /\ phase' = [phase EXCEPT ![r] = to]
  /\ \A b \in Runs : files'[b] = files[b] \/ (b \notin Rows /\ (b = r \/ phase[b] \in Over))
  /\ UNCHANGED <<store, memory, run>>
  /\ to \notin {"opening", "done"} => IsActive(r) \/ ~Busy(run[r].server, run[r].artifact)
  /\ \A q \in Runs \ {r} : outcome'[q] = outcome[q]
  /\ RunOK(s, r)'

\* It leaves the invariant as it is, for the other runs too.
LEMMA OneStepKeeps ==
  ASSUME NEW s, One(s), NEW r \in Runs, NEW to, OneStep(s, r, to)
  PROVE  OneOK(s)'
<1>1. server[s] = "serving"
  BY AtWork DEF OneStep
<1>2. /\ UNCHANGED <<registered, definition, builds, server, expected, deleted, removing, forgetting, run>>
      /\ Rows' = Rows /\ \A a \in Artifacts : Exists(a)' = Exists(a)
  BY DEF OneStep, store, memory, Rows, Exists
<1>3. /\ Rows \subseteq Runs /\ (\A a \in Artifacts : Range(builds[a]) \subseteq Rows)
      /\ builds \in [Artifacts -> Seq(Runs)] /\ phase \in [Runs -> Phases]
      /\ run \in [Runs -> Run \cup {None}]
      /\ \A q \in Runs : phase[q] = "idle" <=> run[q] = None
  BY RowsAreRuns DEF One, Typed, Shapes, RunsTyped
<1>4. \A b \in Rows : files'[b] = files[b]
  BY <1>3 DEF OneStep
<1>5. StartUp(s)'
  BY <1>1, <1>2 DEF StartUp
<1>6. RowsWhole(s)'
  <2>1. server[s] = "serving" /\ forgetting[s] # "row" => \A b \in Rows : files'[b] = "whole"
    BY <1>4 DEF One, OneOK, RowsWhole, Whole
  <2>2. ASSUME NEW a \in Artifacts
        PROVE  WholeFirst(a)'
    <3>1. WholeFirst(a) /\ builds'[a] = builds[a]
      BY <1>2 DEF One, OneOK, RowsWhole
    <3>2. \A i \in DOMAIN builds[a] : builds[a][i] \in Rows
      BY <1>3 DEF Range
    <3>3. QED BY <1>4, <3>1, <3>2 DEF WholeFirst, Whole
  <2>3. QED BY <1>2, <2>1, <2>2 DEF RowsWhole, Whole
<1>7. \A q \in Runs : phase'[q] = IF q = r THEN to ELSE phase[q]
  BY <1>3 DEF OneStep
<1>8. OneRun'
  <2>1. \A q \in Runs \ {r} : IsActive(q)' = IsActive(q)
    BY <1>7 DEF IsActive
  <2>2. IsActive(r)' => \A q \in Runs \ {r} : IsActive(q) => run[q].artifact # run[r].artifact
    <3>1. SUFFICES ASSUME IsActive(r)', NEW q \in Runs \ {r}, IsActive(q), run[q].artifact = run[r].artifact
                   PROVE  FALSE
      OBVIOUS
    <3>2. to \notin {"opening", "done"}
      BY <1>7, <3>1 DEF IsActive
    <3>3. CASE IsActive(r)
      BY <3>1, <3>3 DEF One, OneOK, OneRun
    <3>4. CASE ~Busy(run[r].server, run[r].artifact)
      <4>1. run[q] # None /\ run[r] # None /\ run[q] \in Run /\ run[r] \in Run
        BY <1>3, <3>1 DEF OneStep, IsActive
      <4>2. run[q].server = run[r].server
        BY <4>1 DEF Run, One
      <4>3. q \in RunsOf(run[r].artifact)
        BY <3>1, <4>1 DEF RunsOf
      <4>4. QED BY <3>1, <3>4, <4>2, <4>3 DEF Busy
    <3>5. QED BY <3>2, <3>3, <3>4 DEF OneStep
  <2>3. SUFFICES ASSUME NEW p \in Runs, NEW q \in Runs, IsActive(p)', IsActive(q)', run[p].artifact = run[q].artifact
                 PROVE  p = q
    BY <1>2 DEF OneRun
  <2>4. CASE p = r \/ q = r
    BY <2>1, <2>2, <2>3, <2>4
  <2>5. CASE p # r /\ q # r
    BY <2>1, <2>3, <2>5 DEF One, OneOK, OneRun
  <2>6. QED BY <2>4, <2>5
<1>9. \A q \in Runs : RunOK(s, q)'
  <2>1. SUFFICES ASSUME NEW q \in Runs, q # r
                 PROVE  RunOK(s, q)'
    BY DEF OneStep
  <2>2. RunOK(s, q) /\ phase'[q] = phase[q] /\ outcome'[q] = outcome[q]
    BY <1>7, <2>1 DEF One, OneOK, OneStep
  <2>3. files'[q] = files[q] \/ phase[q] \in Over
    BY <2>1 DEF OneStep
  <2>4. ASSUME phase[q] # "idle"
        PROVE  run[q].artifact \in Artifacts
    BY <2>4, RunKnown DEF One
  <2>5. /\ phase'[q] \in {"idle", "opening", "running", "capture"} => files'[q] = "none"
        /\ phase'[q] # "idle" => definition'[run'[q].artifact] # 0
        /\ outcome'[q] = "failed" => phase'[q] = "done"
    BY <1>2, <2>2, <2>3 DEF RunOK, Over
  <2>6. registered' /\ phase'[q] \notin {"idle", "done"} /\ ~Exists(run[q].artifact)' => run'[q].artifact \in deleted'[s]
    BY <1>2, <2>2, <2>4 DEF RunOK
  <2>7. phase'[q] = "captured" /\ files'[q] # "whole" /\ Exists(run[q].artifact)' =>
          forgetting'[s] = "row" /\ \A b \in Range(builds'[run'[q].artifact]) : files'[b] # "whole"
    <3>1. SUFFICES ASSUME phase'[q] = "captured", files'[q] # "whole", Exists(run[q].artifact)'
                   PROVE  forgetting'[s] = "row" /\ \A b \in Range(builds'[run'[q].artifact]) : files'[b] # "whole"
      OBVIOUS
    <3>2. run[q].artifact \in Artifacts /\ files'[q] = files[q] /\ phase[q] = "captured"
      BY <2>2, <2>3, <2>4, <3>1 DEF Over
    <3>3. forgetting[s] = "row" /\ \A b \in Range(builds[run[q].artifact]) : files[b] # "whole"
      BY <1>2, <2>2, <3>1, <3>2 DEF RunOK, Whole
    <3>4. \A b \in Range(builds[run[q].artifact]) : files'[b] = files[b]
      BY <1>3, <1>4, <3>2
    <3>5. QED BY <1>2, <3>3, <3>4
  <2>8. Exists(run[q].artifact)' <=> definition[run[q].artifact] \in 1..MaxRevision
    BY <1>2 DEF Exists
  <2>9. QED BY <1>2, <2>5, <2>6, <2>7, <2>8 DEF RunOK, Whole, Exists
<1>10. \A a \in removing'[s] : definition'[a] = Removed
  BY <1>2 DEF One, OneOK
<1>11. QED BY <1>5, <1>6, <1>8, <1>9, <1>10 DEF OneOK
\* The run whose step it is: no payload before the capture, and a payload when it is captured.
LEMMA StepOK ==
  ASSUME NEW s, One(s), NEW r \in Runs, NEW to \in Phases \ {"idle"}, phase[r] \notin {"idle", "done"},
         phase' = [phase EXCEPT ![r] = to], UNCHANGED <<store, memory, run>>,
         to \in {"opening", "running", "capture"} => files'[r] = "none",
         to = "captured" => files'[r] = "whole", outcome'[r] = "failed" => to = "done"
  PROVE  RunOK(s, r)'
<1>1. phase'[r] = to
  BY DEF One, Typed, Shapes
<1>2. RunOK(s, r)
  BY DEF One, OneOK
<1>3. UNCHANGED <<registered, definition, builds, deleted, forgetting, run>>
  BY DEF store, memory
<1>4. Exists(run[r].artifact)' <=> Exists(run[r].artifact)
  BY <1>3 DEF Exists
<1>5. registered /\ ~Exists(run[r].artifact) => run[r].artifact \in deleted[s]
  BY <1>2 DEF RunOK
<1>6. definition[run[r].artifact] # 0
  BY <1>2 DEF RunOK
<1>7. QED BY <1>1, <1>3, <1>4, <1>5, <1>6 DEF RunOK, Whole, Exists

\* Such a step accounts for the payloads of the other runs.
LEMMA StepAccounts ==
  ASSUME NEW s, One(s), KnownAccounted, NEW r \in Runs, NEW to, OneStep(s, r, to),
         \A b \in Runs \ {r} : files'[b] \in {files[b], "none"},
         \A q \in Runs \ {r} : obsolete'[q] = obsolete[q],
         \A b \in obsolete[r] : b \in obsolete'[r] \/ files'[b] = "none",
         errors > 0 => errors' > 0,
         registered /\ files'[r] # "none" => Reason(r)'
  PROVE  KnownAccounted'
<1>1. /\ UNCHANGED <<registered, server, removing, run>> /\ Rows' = Rows
  BY DEF OneStep, store, memory, Rows
<1>2. \A b \in Runs \ {r} : phase'[b] = phase[b] /\ outcome'[b] = outcome[b]
  BY DEF OneStep, One, Typed, Shapes
<1>3. SUFFICES ASSUME registered, NEW b \in Runs, files'[b] # "none", b # r
               PROVE  Reason(b)'
  BY <1>1 DEF KnownAccounted
<1>4. Reason(b) /\ files'[b] = files[b]
  BY <1>3 DEF KnownAccounted
<1>5. ASSUME NEW q \in Runs, b \in obsolete[q]
      PROVE  b \in obsolete'[q]
  BY <1>3, <1>5
<1>6. QED BY <1>1, <1>2, <1>3, <1>4, <1>5 DEF Reason

Kept1(s) == OneOK(s)' /\ KnownAccounted'

\* Launch and CommandEnds: there is no payload yet.
LEMMA EarlyStepsKeep ==
  ASSUME NEW s, One(s), KnownAccounted, NEW r \in Runs, Launch(r) \/ CommandEnds(r)
  PROVE  Kept1(s)
<1>1. \E to \in {"running", "capture", "done"} :
        /\ phase' = [phase EXCEPT ![r] = to]
        /\ to \notin {"opening", "done"} => IsActive(r) \/ ~Busy(run[r].server, run[r].artifact)
        /\ outcome' = outcome \/ (to = "done" /\ \E how : outcome' = [outcome EXCEPT ![r] = how])
  <2>1. CASE Launch(r)
    BY <2>1 DEF Launch, Goto
  <2>2. CASE CommandEnds(r)
    <3>1. IsActive(r)
      BY <2>2 DEF CommandEnds, IsActive
    <3>2. QED BY <2>2, <3>1 DEF CommandEnds, Goto, Ends
  <2>3. QED BY <2>1, <2>2
<1>2. PICK to \in {"running", "capture", "done"} :
        /\ phase' = [phase EXCEPT ![r] = to]
        /\ to \notin {"opening", "done"} => IsActive(r) \/ ~Busy(run[r].server, run[r].artifact)
        /\ outcome' = outcome \/ (to = "done" /\ \E how : outcome' = [outcome EXCEPT ![r] = how])
  BY <1>1
<1>3. phase[r] \in {"opening", "running"} /\ UNCHANGED <<store, files, memory, run, stopped, obsolete, bounds>>
  BY DEF Launch, CommandEnds
<1>4. RunOK(s, r) /\ outcome \in [Runs -> {"none", "rejected", "succeeded", "failed", "stopped", "lost"}]
  BY DEF One, OneOK, Typed, Shapes
<1>5. files'[r] = "none" /\ to \in Phases \ {"idle"} /\ to # "captured" /\ (outcome[r] = "failed" => phase[r] = "done")
  BY <1>3, <1>4 DEF RunOK, Phases
<1>6. outcome'[r] = "failed" => to = "done"
  BY <1>2, <1>3, <1>5
<1>7. \A q \in Runs \ {r} : outcome'[q] = outcome[q]
  BY <1>2, <1>4
<1>8. RunOK(s, r)'
  BY <1>2, <1>3, <1>5, <1>6, StepOK
<1>9. OneStep(s, r, to)
  BY <1>2, <1>3, <1>5, <1>7, <1>8 DEF OneStep
<1>10. OneOK(s)'
  BY <1>9, OneStepKeeps
<1>11. KnownAccounted'
  BY <1>3, <1>5, <1>9, StepAccounts DEF bounds
<1>12. QED BY <1>10, <1>11 DEF Kept1

\* The runner's end of a run at work removes its payload or leaves none.
LEMMA EndsWithoutPayload ==
  ASSUME NEW s, One(s), KnownAccounted, NEW r \in Runs, phase[r] \notin {"idle", "done", "evicting"},
         NEW how, Ends(r, how), UNCHANGED <<store, memory, run, obsolete, bounds>>,
         files'[r] = "none", \A b \in Runs \ {r} : files'[b] = files[b]
  PROVE  Kept1(s)
<1>1. /\ phase' = [phase EXCEPT ![r] = "done"]
      /\ outcome' = [outcome EXCEPT ![r] = IF stopped[r] THEN "stopped" ELSE how]
  BY DEF Ends, Goto
<1>2. \A q \in Runs \ {r} : outcome'[q] = outcome[q]
  BY <1>1 DEF One, Typed, Shapes
<1>3. r \notin Rows /\ "done" \in Phases \ {"idle"}
  BY DEF One, Typed, RunsTyped, Over, Phases
<1>4. RunOK(s, r)'
  BY <1>1, <1>3, StepOK
<1>5. OneStep(s, r, "done")
  BY <1>1, <1>2, <1>3, <1>4 DEF OneStep
<1>6. OneOK(s)'
  BY <1>5, OneStepKeeps
<1>7. KnownAccounted'
  BY <1>5, StepAccounts DEF bounds
<1>8. QED BY <1>6, <1>7 DEF Kept1

\* CaptureBegins, CaptureEnds and CancelCapture go on with a payload of their own.
LEMMA CaptureStepsKeep ==
  ASSUME NEW s, One(s), KnownAccounted, NEW r \in Runs, NEW to \in {"copying", "captured", "cancelling"},
         phase[r] \in {"capture", "copying", "captured"}, Goto(r, to),
         \A b \in Runs \ {r} : files'[b] = files[b], to = "captured" => files'[r] = "whole",
         UNCHANGED <<store, memory, run, outcome, obsolete, bounds>>
  PROVE  Kept1(s)
<1>1. phase' = [phase EXCEPT ![r] = to] /\ to \in Phases \ {"idle"} /\ phase'[r] = to
  BY DEF Goto, Phases, One, Typed, Shapes
<1>2. r \notin Rows /\ IsActive(r)
  BY DEF One, Typed, RunsTyped, Over, IsActive
<1>3. RunOK(s, r)
  BY DEF One, OneOK
<1>4. outcome'[r] # "failed"
  BY <1>3 DEF RunOK
<1>5. RunOK(s, r)'
  BY <1>1, <1>4, StepOK
<1>6. OneStep(s, r, to)
  BY <1>1, <1>2, <1>5 DEF OneStep
<1>7. OneOK(s)'
  BY <1>6, OneStepKeeps
<1>8. Reason(r)'
  BY <1>1 DEF Reason
<1>9. KnownAccounted'
  BY <1>6, <1>8, StepAccounts DEF bounds
<1>10. QED BY <1>7, <1>9 DEF Kept1

\* The steps of a capture.
LEMMA CapturesKeep ==
  ASSUME NEW s, One(s), KnownAccounted, NEW r \in Runs,
         CaptureBegins(r) \/ CaptureEnds(r) \/ CancelCapture(r) \/ RemoveCapture(r)
  PROVE  Kept1(s)
<1>1. /\ files \in [Runs -> {"none", "partial", "whole"}]
      /\ \A b \in Runs : Without({r}) => files'[b] = IF b = r THEN "none" ELSE files[b]
      /\ RunOK(s, r)
  BY WithoutIsFiles DEF One, OneOK, Typed, Shapes
<1>2. CASE CaptureBegins(r)
  <2>1. /\ phase[r] = "capture" /\ UNCHANGED <<store, memory, run, obsolete, bounds>>
        /\ files[r] = "none"
    BY <1>1, <1>2 DEF CaptureBegins, RunOK
  <2>2. CASE files' = [files EXCEPT ![r] = "partial"] /\ Goto(r, "copying") /\ UNCHANGED outcome
    BY <1>1, <2>1, <2>2, CaptureStepsKeep
  <2>3. CASE Ends(r, "failed") /\ UNCHANGED files
    BY <2>1, <2>3, EndsWithoutPayload
  <2>4. QED BY <1>2, <2>2, <2>3 DEF CaptureBegins
<1>3. CASE CaptureEnds(r)
  <2>1. phase[r] = "copying" /\ UNCHANGED <<store, memory, run, obsolete, bounds>>
    BY <1>3 DEF CaptureEnds
  <2>2. CASE files' = [files EXCEPT ![r] = "whole"] /\ Goto(r, "captured") /\ UNCHANGED outcome
    BY <1>1, <2>1, <2>2, CaptureStepsKeep
  <2>3. CASE Without({r}) /\ Ends(r, "failed")
    BY <1>1, <2>1, <2>3, EndsWithoutPayload
  <2>4. QED BY <1>3, <2>2, <2>3 DEF CaptureEnds
<1>4. CASE CancelCapture(r)
  <2>1. /\ phase[r] = "captured" /\ Goto(r, "cancelling") /\ UNCHANGED files
        /\ UNCHANGED <<store, memory, run, outcome, obsolete, bounds>>
    BY <1>4 DEF CancelCapture
  <2>2. QED BY <2>1, CaptureStepsKeep
<1>5. CASE RemoveCapture(r)
  <2>1. /\ phase[r] = "cancelling" /\ Without({r}) /\ Ends(r, "failed")
        /\ UNCHANGED <<store, memory, run, obsolete, bounds>>
    BY <1>5 DEF RemoveCapture
  <2>2. QED BY <1>1, <2>1, EndsWithoutPayload
<1>6. QED BY <1>2, <1>3, <1>4, <1>5

\* InsertFails: the payload stays behind when the database failed; of a deleted artifact the run
\* has been told.
LEMMA InsertFailsKeeps ==
  ASSUME NEW s, One(s), KnownAccounted, NEW r \in Runs, InsertFails(r)
  PROVE  Kept1(s)
<1>1. /\ phase[r] = "captured" /\ ~Cancelled(r) /\ Ends(r, "failed")
      /\ UNCHANGED <<store, files, memory, run, stopped, obsolete, crashes>>
      /\ (~Exists(run[r].artifact) /\ UNCHANGED errors) \/ errors' = errors + 1
  BY DEF InsertFails
<1>2. ~stopped[r] /\ run[r].artifact \notin deleted[s]
  <2>1. run[r].server = s
    BY <1>1, RunKnown DEF One
  <2>2. QED BY <1>1, <2>1 DEF Cancelled
<1>3. phase' = [phase EXCEPT ![r] = "done"] /\ outcome' = [outcome EXCEPT ![r] = "failed"]
  BY <1>1, <1>2 DEF Ends, Goto
<1>4. errors \in Nat /\ outcome'[r] = "failed" /\ \A q \in Runs \ {r} : outcome'[q] = outcome[q]
  BY <1>3 DEF One, Typed, Shapes
<1>5. "done" \in Phases \ {"idle"}
  BY DEF Phases
<1>6. RunOK(s, r)'
  BY <1>1, <1>3, <1>5, StepOK
<1>7. OneStep(s, r, "done")
  BY <1>1, <1>3, <1>4, <1>5, <1>6 DEF OneStep
<1>8. OneOK(s)'
  BY <1>7, OneStepKeeps
<1>9. registered => errors' = errors + 1
  <2>1. RunOK(s, r)
    BY DEF One, OneOK
  <2>2. QED BY <1>1, <1>2, <2>1 DEF RunOK
<1>10. registered => Reason(r)'
  BY <1>4, <1>9 DEF Reason
<1>11. errors > 0 => errors' > 0
  BY <1>1, <1>4
<1>12. KnownAccounted'
  BY <1>1, <1>7, <1>10, <1>11, StepAccounts
<1>13. QED BY <1>8, <1>12 DEF Kept1

\* EvictAndFinish: what the insertion dropped loses its payload.
LEMMA EvictKeeps ==
  ASSUME NEW s, One(s), KnownAccounted, NEW r \in Runs, EvictAndFinish(r)
  PROVE  Kept1(s)
<1>1. /\ phase[r] = "evicting" /\ Without(obsolete[r]) /\ Ends(r, "succeeded")
      /\ obsolete' = [obsolete EXCEPT ![r] = {}]
      /\ UNCHANGED <<store, memory, run, stopped, bounds>>
  BY DEF EvictAndFinish
<1>2. /\ obsolete \in [Runs -> SUBSET Runs] /\ outcome \in [Runs -> {"none", "rejected", "succeeded", "failed", "stopped", "lost"}]
      /\ \A x \in obsolete[r] : phase[x] \in Over /\ x \notin Rows
      /\ RunOK(s, r)
  BY DEF One, OneOK, Typed, RunsTyped, Shapes
<1>3. \A b \in Runs : files'[b] = IF b \in obsolete[r] THEN "none" ELSE files[b]
  BY <1>1, WithoutIsFiles DEF One
<1>4. /\ phase' = [phase EXCEPT ![r] = "done"]
      /\ outcome' = [outcome EXCEPT ![r] = IF stopped[r] THEN "stopped" ELSE "succeeded"]
  BY <1>1 DEF Ends, Goto
<1>5. outcome'[r] # "failed" /\ \A q \in Runs \ {r} : outcome'[q] = outcome[q]
  BY <1>2, <1>4
<1>6. "done" \in Phases \ {"idle"}
  BY DEF Phases
<1>7. RunOK(s, r)'
  BY <1>1, <1>4, <1>5, <1>6, StepOK
<1>8. OneStep(s, r, "done")
  BY <1>1, <1>2, <1>3, <1>4, <1>5, <1>6, <1>7 DEF OneStep
<1>9. OneOK(s)'
  BY <1>8, OneStepKeeps
<1>10. registered /\ files'[r] # "none" => Reason(r)'
  <2>1. SUFFICES ASSUME registered, files'[r] # "none"
                 PROVE  Reason(r)'
    OBVIOUS
  <2>2. r \notin obsolete[r] /\ files[r] # "none"
    BY <1>3, <2>1
  <2>3. Reason(r)
    BY <2>1, <2>2 DEF KnownAccounted
  <2>4. outcome[r] # "failed" /\ phase[r] \notin {"copying", "captured", "cancelling"}
    BY <1>1, <1>2 DEF RunOK
  <2>5. UNCHANGED <<server, removing, run>> /\ Rows' = Rows
    BY <1>1 DEF store, memory, Rows
  <2>6. \A q \in Runs : r \in obsolete[q] => r \in obsolete'[q]
    BY <1>1, <1>2, <2>2
  <2>7. QED BY <2>3, <2>4, <2>5, <2>6 DEF Reason
<1>11. \A q \in Runs \ {r} : obsolete'[q] = obsolete[q]
  BY <1>1, <1>2
<1>12. KnownAccounted'
  <2>1. \A b \in Runs \ {r} : files'[b] \in {files[b], "none"}
    BY <1>3
  <2>2. \A b \in obsolete[r] : b \in obsolete'[r] \/ files'[b] = "none"
    BY <1>2, <1>3
  <2>3. errors > 0 => errors' > 0
    BY <1>1 DEF bounds
  <2>4. QED BY <1>8, <1>10, <1>11, <2>1, <2>2, <2>3, StepAccounts
<1>13. QED BY <1>9, <1>12 DEF Kept1
\* InsertBuild: the payload of the new row is there, unless the repository is being removed and
\* none is.
LEMMA InsertKeeps ==
  ASSUME NEW s, One(s), KnownAccounted, NEW r \in Runs, InsertBuild(r)
  PROVE  Kept1(s)
<1> DEFINE a   == run[r].artifact
           all == NewestFirst(r, a)
<1>1. /\ phase[r] = "captured" /\ ~Cancelled(r) /\ Exists(a)
      /\ builds' = [builds EXCEPT ![a] = Kept(all)]
      /\ obsolete' = [obsolete EXCEPT ![r] = Dropped(all)]
      /\ phase' = [phase EXCEPT ![r] = "evicting"]
      /\ UNCHANGED <<registered, definition, files, memory, run, stopped, outcome, bounds>>
  BY DEF InsertBuild, Goto
<1>2. /\ UNCHANGED <<server, expected, deleted, removing, forgetting>>
      /\ server[s] = "serving"
      /\ phase \in [Runs -> Phases] /\ builds \in [Artifacts -> Seq(Runs)]
      /\ \A q \in Runs : phase'[q] = IF q = r THEN "evicting" ELSE phase[q]
      /\ a \in Artifacts
  BY <1>1, AtWork, RunKnown DEF memory, One, Typed, Shapes
<1>3. /\ r \in Rows' /\ Rows' \subseteq Rows \cup {r} /\ r \notin Rows /\ Rows \subseteq Runs
      /\ \A x \in Rows : x \in Rows' \/ x \in obsolete'[r]
  BY <1>1, InsertBuildTyped, RowsAreRuns DEF One, Typed, RunsTyped, Over
<1>4. RunOK(s, r) /\ RowsWhole(s) /\ OneRun /\ \A q \in Runs : RunOK(s, q)
  BY DEF One, OneOK
<1>5. Whole(r) \/ (forgetting[s] = "row" /\ \A b \in Range(builds[a]) : ~Whole(b))
  BY <1>1, <1>4 DEF RunOK
<1>6. StartUp(s)'
  BY <1>2 DEF StartUp
<1>7. RowsWhole(s)'
  <2>1. server[s] = "serving" /\ forgetting[s] # "row" => \A b \in Rows' : Whole(b)
    BY <1>3, <1>4, <1>5 DEF RowsWhole
  <2>2. ASSUME NEW x \in Artifacts
        PROVE  WholeFirst(x)'
    <3>1. WholeFirst(x)
      BY <1>4 DEF RowsWhole
    <3>2. CASE x # a
      <4>1. builds'[x] = builds[x]
        BY <1>1, <1>2, <3>2
      <4>2. QED BY <1>1, <3>1, <4>1 DEF WholeFirst, Whole
    <3>3. CASE x = a
      <4> HIDE DEF a
      <4>1. /\ all \in Seq(Runs) /\ all # <<>> /\ all[1] = r /\ Len(builds[a]) \in Nat
            /\ Len(all) = Len(builds[a]) + 1
            /\ \A i \in 2..Len(all) : i - 1 \in 1..Len(builds[a]) /\ all[i] = builds[a][i - 1]
        BY <1>2, NewestRows DEF One
      <4> HIDE DEF all
      <4>2. PICK k \in 1..Len(all) : /\ Kept(all) \in Seq(Runs) /\ Len(Kept(all)) = k
                                     /\ \A i \in 1..k : Kept(all)[i] = all[i]
        BY <4>1, KeptFirst
      <4>3. builds'[x] = Kept(all) /\ DOMAIN Kept(all) = 1..k /\ DOMAIN builds[a] = 1..Len(builds[a])
        BY <1>1, <1>2, <3>3, <4>2
      <4>4. SUFFICES ASSUME NEW i \in 1..k, NEW j \in 1..k, i < j, Whole(all[j])
                     PROVE  Whole(all[i])
        <5>1. SUFFICES \A i, j \in 1..k : i < j /\ files[Kept(all)[j]] = "whole" => files[Kept(all)[i]] = "whole"
          BY <1>1, <4>3 DEF WholeFirst, Whole
        <5>2. QED BY <4>2, <4>4 DEF Whole
      <4>5. i \in 1..Len(all) /\ j \in 2..Len(all) /\ (i = 1 \/ i \in 2..Len(all)) /\ i \in Nat /\ j \in Nat
        BY <4>1, <4>2, <4>4
      <4>6. all[j] = builds[a][j - 1] /\ j - 1 \in 1..Len(builds[a]) /\ Whole(builds[a][j - 1])
        BY <4>1, <4>4, <4>5
      <4>7. CASE i = 1
        <5>1. builds[a][j - 1] \in Range(builds[a])
          BY <4>3, <4>6 DEF Range
        <5>2. QED BY <1>5, <4>1, <4>6, <4>7, <5>1
      <4>8. CASE i \in 2..Len(all)
        <5>1. all[i] = builds[a][i - 1] /\ i - 1 \in 1..Len(builds[a]) /\ i - 1 < j - 1
          BY <4>1, <4>4, <4>5, <4>8
        <5>2. QED BY <3>1, <3>3, <4>3, <4>6, <5>1 DEF WholeFirst
      <4>9. QED BY <4>5, <4>7, <4>8
    <3>4. QED BY <3>2, <3>3
  <2>3. QED BY <1>1, <1>2, <2>1, <2>2 DEF RowsWhole, Whole
<1>8. \A q \in Runs : IsActive(q)' = IsActive(q)
  BY <1>1, <1>2 DEF IsActive
<1>9. OneRun'
  BY <1>1, <1>4, <1>8 DEF OneRun
<1>10. \A q \in Runs : RunOK(s, q)'
  <2>1. SUFFICES ASSUME NEW q \in Runs
                 PROVE  RunOK(s, q)'
    OBVIOUS
  <2>2. CASE q = r
    BY <1>1, <1>2, <1>4, <2>2 DEF RunOK, Exists
  <2>3. CASE q # r
    <3>1. RunOK(s, q) /\ phase'[q] = phase[q]
      BY <1>2, <1>4, <2>3
    <3>2. phase[q] = "captured" => builds'[run[q].artifact] = builds[run[q].artifact]
      <4>1. phase[q] = "captured" => run[q].artifact # a /\ run[q].artifact \in Artifacts
        BY <1>1, <1>4, <2>3, RunKnown DEF One, OneRun, IsActive
      <4>2. QED BY <1>1, <1>2, <4>1
    <3>3. QED BY <1>1, <1>2, <3>1, <3>2 DEF RunOK, Exists, Whole
  <2>4. QED BY <2>2, <2>3
<1>11. \A x \in removing'[s] : definition'[x] = Removed
  BY <1>1, <1>2 DEF One, OneOK
<1>12. OneOK(s)'
  BY <1>6, <1>7, <1>9, <1>10, <1>11 DEF OneOK
<1>13. KnownAccounted'
  <2>1. SUFFICES ASSUME registered, NEW b \in Runs, files[b] # "none"
                 PROVE  Reason(b)'
    BY <1>1 DEF KnownAccounted
  <2>2. Reason(b)
    BY <2>1 DEF KnownAccounted
  <2>3. CASE b = r
    BY <1>3, <2>3 DEF Reason
  <2>4. CASE b # r /\ b \in Rows
    BY <1>3, <2>4 DEF Reason
  <2>5. CASE b # r /\ b \notin Rows
    <3>1. \A q \in Runs : b \in obsolete[q] => b \in obsolete'[q]
      <4>1. obsolete[r] = {} /\ obsolete \in [Runs -> SUBSET Runs]
        BY <1>1 DEF One, Typed, Shapes, RunsTyped
      <4>2. QED BY <1>1, <4>1
    <3>2. phase'[b] = phase[b] /\ UNCHANGED <<server, removing, run, outcome, errors>>
      BY <1>1, <1>2, <2>5 DEF bounds
    <3>3. QED BY <2>2, <2>5, <3>1, <3>2 DEF Reason
  <2>6. QED BY <2>3, <2>4, <2>5
<1>14. QED BY <1>12, <1>13 DEF Kept1

\* The steps that touch neither rows nor payloads nor runs: Stop, CreateDefinition,
\* UpdateDefinition and ForgetRepository.
LEMMA QuietKeeps ==
  ASSUME NEW s, One(s), KnownAccounted,
         \/ \E r \in Runs : Stop(r)
         \/ ForgetRepository(s)
         \/ \E a \in Artifacts : CreateDefinition(s, a)
         \/ \E a \in Artifacts : \E revision \in 1..MaxRevision : UpdateDefinition(s, a, revision)
  PROVE  Kept1(s)
<1>1. UNCHANGED <<registered, builds, files, server, expected, removing, run, phase, outcome, obsolete, errors>>
  BY DEF Stop, ForgetRepository, CreateDefinition, UpdateDefinition, store, memory, runVars, bounds
<1>2. forgetting' = forgetting \/ (forgetting[s] = "no" /\ server[s] = "serving" /\ forgetting'[s] = "files")
  BY DEF Stop, ForgetRepository, CreateDefinition, UpdateDefinition, memory, One, Typed, Shapes
<1>3. deleted[s] \subseteq deleted'[s]
  BY DEF Stop, ForgetRepository, CreateDefinition, UpdateDefinition, memory, One, Typed, Shapes
<1>4. \A x \in Artifacts : \/ definition'[x] = definition[x] \/ (definition[x] = 0 /\ definition'[x] = 1)
                           \/ (definition[x] \in 1..MaxRevision /\ definition'[x] \in 1..MaxRevision)
  <2>1. definition \in [Artifacts -> 0..MaxRevision \cup {Removed}] /\ MaxRevision \in Nat
    BY DEF One, Typed, Shapes
  <2>2. CASE UNCHANGED definition
    BY <2>2
  <2>3. ASSUME NEW a \in Artifacts, CreateDefinition(s, a)
        PROVE  \A x \in Artifacts : definition'[x] = definition[x] \/ (definition[x] = 0 /\ definition'[x] = 1)
    BY <2>1, <2>3 DEF CreateDefinition
  <2>4. ASSUME NEW a \in Artifacts, NEW revision \in 1..MaxRevision, UpdateDefinition(s, a, revision)
        PROVE  \A x \in Artifacts : \/ definition'[x] = definition[x]
                                    \/ (definition[x] \in 1..MaxRevision /\ definition'[x] \in 1..MaxRevision)
    <3>1. /\ definition[a] \in 1..MaxRevision /\ revision + 1 \in 1..MaxRevision
          /\ definition' = [definition EXCEPT ![a] = revision + 1]
      BY <2>1, <2>4 DEF UpdateDefinition
    <3>2. QED BY <2>1, <3>1
  <2>5. (\E r \in Runs : Stop(r)) \/ ForgetRepository(s) => UNCHANGED definition
    BY DEF Stop, ForgetRepository, store
  <2>6. QED BY <2>2, <2>3, <2>4, <2>5
<1>5. \A x \in Artifacts : /\ definition[x] = Removed => definition'[x] = Removed
                           /\ definition[x] # 0 => definition'[x] # 0 /\ Exists(x)' = Exists(x)
  <2>1. Removed # 0 /\ Removed \notin 1..MaxRevision /\ 0 \notin 1..MaxRevision
    BY ArtifactAssumption
  <2>2. SUFFICES ASSUME NEW x \in Artifacts
                 PROVE  /\ definition[x] = Removed => definition'[x] = Removed
                        /\ definition[x] # 0 => definition'[x] # 0 /\ Exists(x)' = Exists(x)
    OBVIOUS
  <2>3. CASE definition'[x] = definition[x]
    BY <2>3 DEF Exists
  <2>4. CASE definition'[x] # definition[x]
    BY <1>4, <2>1, <2>4 DEF Exists
  <2>5. QED BY <2>3, <2>4
<1>6. /\ StartUp(s) /\ RowsWhole(s) /\ OneRun /\ (\A a \in removing[s] : definition[a] = Removed)
      /\ removing[s] \subseteq Artifacts /\ \A r \in Runs : RunOK(s, r)
  BY DEF One, OneOK, Typed, Shapes
<1>7. Rows' = Rows
  BY <1>1 DEF Rows
<1>8. StartUp(s)'
  BY <1>1, <1>2, <1>6, <1>7 DEF StartUp, Idle
<1>9. RowsWhole(s)'
  <2>1. forgetting[s] # "row" \/ forgetting' = forgetting
    BY <1>2
  <2>2. QED BY <1>1, <1>6, <1>7, <2>1 DEF RowsWhole, WholeFirst, Whole
<1>10. OneRun'
  BY <1>1, <1>6 DEF OneRun, IsActive
<1>11. \A r \in Runs : RunOK(s, r)'
  <2>1. SUFFICES ASSUME NEW r \in Runs
                 PROVE  RunOK(s, r)'
    OBVIOUS
  <2>2. RunOK(s, r)
    BY <1>6
  <2>3. phase[r] # "idle" => /\ definition[run[r].artifact] # 0 /\ definition'[run[r].artifact] # 0
                             /\ Exists(run[r].artifact)' = Exists(run[r].artifact)
    <3>1. SUFFICES ASSUME phase[r] # "idle"
                   PROVE  /\ definition[run[r].artifact] # 0 /\ definition'[run[r].artifact] # 0
                          /\ Exists(run[r].artifact)' = Exists(run[r].artifact)
      OBVIOUS
    <3>2. run[r].artifact \in Artifacts
      BY <3>1, RunKnown DEF One
    <3>3. definition[run[r].artifact] # 0
      BY <2>2, <3>1 DEF RunOK
    <3>4. QED BY <1>1, <1>5, <3>2, <3>3 DEF Exists
  <2>4. forgetting[s] = "row" => forgetting'[s] = "row"
    BY <1>2
  <2>5. QED BY <1>1, <1>3, <2>2, <2>3, <2>4 DEF RunOK, Exists, Whole
<1>12. \A a \in removing'[s] : definition'[a] = Removed
  BY <1>1, <1>5, <1>6
<1>13. OneOK(s)'
  BY <1>8, <1>9, <1>10, <1>11, <1>12 DEF OneOK
<1>14. KnownAccounted'
  BY <1>1, <1>7 DEF KnownAccounted, Reason
<1>15. QED BY <1>13, <1>14 DEF Kept1

\* Request: the run has no payload yet, and its artifact exists.
LEMMA RequestKeeps ==
  ASSUME NEW s, One(s), KnownAccounted, NEW r \in Runs, NEW a \in Artifacts, Request(s, r, a)
  PROVE  Kept1(s)
<1>1. /\ server[s] = "serving" /\ phase[r] = "idle" /\ Exists(a)
      /\ run' = [run EXCEPT ![r] = [server |-> s, artifact |-> a]]
      /\ deleted' = [deleted EXCEPT ![s] = @ \ {a}]
      /\ phase' = [phase EXCEPT ![r] = "opening"]
      /\ UNCHANGED <<registered, definition, builds, files, server, expected, removing, forgetting, outcome, obsolete,
                     errors>>
  BY DEF Request, Goto, store, bounds
<1>2. /\ phase \in [Runs -> Phases] /\ run \in [Runs -> Run \cup {None}] /\ deleted \in [Servers -> SUBSET Artifacts]
      /\ s \in Servers /\ builds \in [Artifacts -> Seq(Runs)]
  BY DEF One, Typed, Shapes
<1>3. /\ \A q \in Runs : phase'[q] = IF q = r THEN "opening" ELSE phase[q]
      /\ \A q \in Runs \ {r} : run'[q] = run[q]
      /\ run'[r].artifact = a /\ deleted'[s] = deleted[s] \ {a}
  BY <1>1, <1>2
<1>4. /\ StartUp(s) /\ RowsWhole(s) /\ OneRun /\ (\A x \in removing[s] : definition[x] = Removed)
      /\ \A q \in Runs : RunOK(s, q)
  BY DEF One, OneOK
<1>5. Rows' = Rows
  BY <1>1 DEF Rows
<1>6. StartUp(s)'
  BY <1>1 DEF StartUp
<1>7. RowsWhole(s)'
  BY <1>1, <1>4, <1>5 DEF RowsWhole, WholeFirst, Whole
<1>8. OneRun'
  <2>1. \A q \in Runs : IsActive(q)' => q # r /\ IsActive(q)
    BY <1>3 DEF IsActive
  <2>2. QED BY <1>3, <1>4, <2>1 DEF OneRun
<1>9. \A q \in Runs : RunOK(s, q)'
  <2>1. SUFFICES ASSUME NEW q \in Runs
                 PROVE  RunOK(s, q)'
    OBVIOUS
  <2>2. RunOK(s, q)
    BY <1>4
  <2>3. CASE q = r
    <3>1. files[r] = "none" /\ outcome[r] # "failed" /\ definition[a] # 0
      BY <1>1, <2>2, <2>3 DEF RunOK, Exists
    <3>2. Exists(a)'
      BY <1>1 DEF Exists
    <3>3. QED BY <1>1, <1>3, <2>3, <3>1, <3>2 DEF RunOK, Exists
  <2>4. CASE q # r
    <3>1. phase'[q] = phase[q] /\ run'[q] = run[q]
      BY <1>3, <2>4
    <3>2. \A x : ~Exists(x) /\ x \in deleted[s] => x \in deleted'[s]
      BY <1>1, <1>3
    <3>3. QED BY <1>1, <2>2, <3>1, <3>2 DEF RunOK, Exists, Whole
  <2>5. QED BY <2>3, <2>4
<1>10. OneOK(s)'
  BY <1>1, <1>4, <1>6, <1>7, <1>8, <1>9 DEF OneOK
<1>11. KnownAccounted'
  <2>1. SUFFICES ASSUME registered, NEW b \in Runs, files[b] # "none"
                 PROVE  Reason(b)'
    BY <1>1 DEF KnownAccounted
  <2>2. b # r
    BY <1>1, <1>4, <2>1 DEF RunOK
  <2>3. Reason(b) /\ phase'[b] = phase[b] /\ run'[b] = run[b]
    BY <1>3, <2>1, <2>2 DEF KnownAccounted
  <2>4. QED BY <1>1, <1>5, <2>3 DEF Reason
<1>12. QED BY <1>10, <1>11 DEF Kept1
\* DeleteDefinition: the payloads of its rows wait for their directory to be removed.
LEMMA DeleteDefinitionKeeps ==
  ASSUME NEW s, One(s), KnownAccounted, NEW a \in Artifacts, DeleteDefinition(s, a)
  PROVE  Kept1(s)
<1>1. /\ server[s] = "serving" /\ registered /\ Exists(a)
      /\ deleted' = [deleted EXCEPT ![s] = @ \cup {a}]
      /\ definition' = [definition EXCEPT ![a] = Removed]
      /\ builds' = [builds EXCEPT ![a] = <<>>]
      /\ removing' = [removing EXCEPT ![s] = @ \cup {a}]
      /\ UNCHANGED <<registered, files, server, expected, forgetting, run, phase, outcome, obsolete, errors>>
  BY DEF DeleteDefinition, bounds
<1>2. /\ definition \in [Artifacts -> 0..MaxRevision \cup {Removed}] /\ builds \in [Artifacts -> Seq(Runs)]
      /\ deleted \in [Servers -> SUBSET Artifacts] /\ removing \in [Servers -> SUBSET Artifacts] /\ s \in Servers
  BY DEF One, Typed, Shapes
<1>3. /\ StartUp(s) /\ RowsWhole(s) /\ OneRun /\ (\A x \in removing[s] : definition[x] = Removed)
      /\ \A r \in Runs : RunOK(s, r)
  BY DEF One, OneOK
<1>4. Rows' = Rows \ Range(builds[a])
  BY DeleteDefinitionTyped DEF One
<1>5. /\ deleted'[s] = deleted[s] \cup {a} /\ removing'[s] = removing[s] \cup {a}
      /\ \A x \in Artifacts : definition'[x] = IF x = a THEN Removed ELSE definition[x]
      /\ \A x \in Artifacts : builds'[x] = IF x = a THEN <<>> ELSE builds[x]
      /\ Removed # 0 /\ Removed \notin 1..MaxRevision
  BY <1>1, <1>2, ArtifactAssumption
<1>6. StartUp(s)'
  BY <1>1 DEF StartUp
<1>7. RowsWhole(s)'
  <2>1. ASSUME NEW x \in Artifacts
        PROVE  WholeFirst(x)'
    <3>1. CASE x = a
      <4>1. DOMAIN builds'[x] = {}
        BY <1>5, <3>1
      <4>2. QED BY <4>1 DEF WholeFirst
    <3>2. CASE x # a
      BY <1>1, <1>3, <1>5, <3>2 DEF RowsWhole, WholeFirst, Whole
    <3>3. QED BY <3>1, <3>2
  <2>2. server[s] = "serving" /\ forgetting[s] # "row" => \A b \in Rows' : Whole(b)
    BY <1>3, <1>4 DEF RowsWhole
  <2>3. QED BY <1>1, <2>1, <2>2 DEF RowsWhole, Whole
<1>8. OneRun'
  BY <1>1, <1>3 DEF OneRun, IsActive
<1>9. \A r \in Runs : RunOK(s, r)'
  <2>1. SUFFICES ASSUME NEW r \in Runs
                 PROVE  RunOK(s, r)'
    OBVIOUS
  <2>2. RunOK(s, r)
    BY <1>3
  <2>3. CASE phase[r] = "idle"
    BY <1>1, <2>2, <2>3 DEF RunOK
  <2>4. CASE phase[r] # "idle" /\ run[r].artifact = a
    BY <1>1, <1>5, <2>2, <2>4 DEF RunOK, Exists
  <2>5. CASE phase[r] # "idle" /\ run[r].artifact # a
    <3>1. /\ run[r].artifact \in Artifacts /\ definition'[run[r].artifact] = definition[run[r].artifact]
          /\ builds'[run[r].artifact] = builds[run[r].artifact]
      BY <1>5, <2>5, RunKnown DEF One
    <3>2. QED BY <1>1, <1>5, <2>2, <3>1 DEF RunOK, Exists, Whole
  <2>6. QED BY <2>3, <2>4, <2>5
<1>10. \A x \in removing'[s] : definition'[x] = Removed
  BY <1>2, <1>3, <1>5
<1>11. OneOK(s)'
  BY <1>6, <1>7, <1>8, <1>9, <1>10 DEF OneOK
<1>12. KnownAccounted'
  <2>1. SUFFICES ASSUME registered, NEW b \in Runs, files[b] # "none"
                 PROVE  Reason(b)'
    BY <1>1 DEF KnownAccounted
  <2>2. Reason(b)
    BY <2>1 DEF KnownAccounted
  <2>3. CASE b \in Range(builds[a])
    <3>1. run[b].artifact = a
      BY <2>3 DEF One, Typed, RowsOK
    <3>2. run'[b].artifact \in removing'[s]
      BY <1>1, <1>5, <3>1
    <3>3. QED BY <1>2, <3>2 DEF Reason
  <2>4. CASE b \notin Range(builds[a])
    <3>1. \A x \in Servers : run[b].artifact \in removing[x] => run[b].artifact \in removing'[x]
      BY <1>1, <1>2
    <3>2. b \in Rows => b \in Rows'
      BY <1>4, <2>4
    <3>3. QED BY <1>1, <2>2, <3>1, <3>2 DEF Reason
  <2>5. QED BY <2>3, <2>4
<1>13. QED BY <1>11, <1>12 DEF Kept1

\* DeleteArtifactFiles: the artifact has no rows any more.
LEMMA DeleteFilesKeeps ==
  ASSUME NEW s, One(s), KnownAccounted, NEW a \in Artifacts, DeleteArtifactFiles(s, a)
  PROVE  Kept1(s)
<1>1. /\ a \in removing[s] /\ removing' = [removing EXCEPT ![s] = @ \ {a}] /\ Without(RunsOf(a))
      /\ UNCHANGED <<registered, definition, builds, server, expected, deleted, forgetting, run, phase, outcome, obsolete,
                     errors>>
  BY DEF DeleteArtifactFiles, store, runVars, bounds
<1>2. /\ builds \in [Artifacts -> Seq(Runs)] /\ removing \in [Servers -> SUBSET Artifacts] /\ s \in Servers
      /\ Servers = {s}
      /\ \A b \in Runs : files'[b] = IF b \in RunsOf(a) THEN "none" ELSE files[b]
  BY <1>1, WithoutIsFiles DEF One, Typed, Shapes
<1>3. /\ StartUp(s) /\ RowsWhole(s) /\ OneRun /\ (\A x \in removing[s] : definition[x] = Removed)
      /\ \A r \in Runs : RunOK(s, r)
  BY DEF One, OneOK
<1>4. Rows' = Rows /\ server[s] = "serving" /\ removing'[s] = removing[s] \ {a}
  BY <1>1, <1>2, AtWork DEF Rows
<1>5. ~Exists(a) /\ builds[a] = <<>>
  <2>1. definition[a] = Removed /\ Removed \notin 1..MaxRevision
    BY <1>1, <1>3, ArtifactAssumption
  <2>2. QED BY <2>1 DEF Exists, One, Typed, RowsOK
<1>6. /\ \A b \in Rows : b \in Runs /\ files'[b] = files[b]
      /\ \A x \in Artifacts : Range(builds[x]) \subseteq Rows
  <2>1. Range(<<>>) = {}
    BY DEF Range
  <2>2. \A b \in Rows : b \notin RunsOf(a)
    <3>1. SUFFICES ASSUME NEW x \in Artifacts, NEW b \in Range(builds[x])
                   PROVE  b \notin RunsOf(a)
      BY RowsAreRuns DEF One
    <3>2. run[b].artifact = x /\ x # a
      BY <1>5, <2>1, <3>1 DEF One, Typed, RowsOK
    <3>3. QED BY <3>2 DEF RunsOf
  <2>3. QED BY <1>2, <2>2, RowsAreRuns DEF One
<1>7. StartUp(s)'
  BY <1>1, <1>4 DEF StartUp
<1>8. RowsWhole(s)'
  <2>1. ASSUME NEW x \in Artifacts
        PROVE  WholeFirst(x)'
    <3>1. \A i \in DOMAIN builds[x] : files'[builds[x][i]] = files[builds[x][i]]
      BY <1>6 DEF Range
    <3>2. WholeFirst(x)
      BY <1>3 DEF RowsWhole
    <3>3. QED BY <1>1, <3>1, <3>2 DEF WholeFirst, Whole
  <2>2. QED BY <1>1, <1>3, <1>4, <1>6, <2>1 DEF RowsWhole, Whole
<1>9. OneRun'
  BY <1>1, <1>3 DEF OneRun, IsActive
<1>10. \A r \in Runs : RunOK(s, r)'
  <2>1. SUFFICES ASSUME NEW r \in Runs
                 PROVE  RunOK(s, r)'
    OBVIOUS
  <2>2. RunOK(s, r)
    BY <1>3
  <2>3. CASE r \in RunsOf(a)
    <3>1. run[r].artifact = a /\ files'[r] = "none"
      BY <1>2, <2>3 DEF RunsOf
    <3>2. QED BY <1>1, <1>5, <2>2, <3>1 DEF RunOK, Exists
  <2>4. CASE r \notin RunsOf(a)
    <3>1. files'[r] = files[r]
      BY <1>2, <2>4
    <3>2. phase[r] = "captured" => \A b \in Range(builds[run[r].artifact]) : files'[b] = files[b]
      BY <1>6, RunKnown DEF One
    <3>3. QED BY <1>1, <2>2, <3>1, <3>2 DEF RunOK, Exists, Whole
  <2>5. QED BY <2>3, <2>4
<1>11. \A x \in removing'[s] : definition'[x] = Removed
  BY <1>1, <1>3, <1>4
<1>12. OneOK(s)'
  BY <1>7, <1>8, <1>9, <1>10, <1>11 DEF OneOK
<1>13. KnownAccounted'
  <2>1. SUFFICES ASSUME registered, NEW b \in Runs, files'[b] # "none"
                 PROVE  Reason(b)'
    BY <1>1 DEF KnownAccounted
  <2>2. b \notin RunsOf(a) /\ Reason(b)
    BY <1>2, <2>1 DEF KnownAccounted
  <2>3. run[b] # None /\ run[b].artifact # a
    <3>1. RunOK(s, b) /\ (phase[b] = "idle" <=> run[b] = None)
      BY <1>3 DEF One, Typed, RunsTyped
    <3>2. phase[b] # "idle"
      BY <1>2, <2>1, <3>1 DEF RunOK
    <3>3. QED BY <2>2, <3>1, <3>2 DEF RunsOf
  <2>4. \A x \in Servers : run[b].artifact \in removing[x] => run'[b].artifact \in removing'[x]
    BY <1>1, <1>2, <1>4, <2>3
  <2>5. QED BY <1>1, <1>4, <2>2, <2>4 DEF Reason
<1>14. QED BY <1>12, <1>13 DEF Kept1

\* DeleteRepositoryFiles: nothing has a payload any more.
LEMMA DeleteRepositoryKeeps ==
  ASSUME NEW s, One(s), KnownAccounted, DeleteRepositoryFiles(s)
  PROVE  Kept1(s)
<1>1. /\ forgetting[s] = "files" /\ forgetting' = [forgetting EXCEPT ![s] = "row"] /\ Without(Runs)
      /\ UNCHANGED <<registered, definition, builds, server, expected, deleted, removing, run, phase, outcome>>
  BY DEF DeleteRepositoryFiles, store, runVars
<1>2. /\ \A b \in Runs : files'[b] = "none"
      /\ forgetting'[s] = "row" /\ server[s] = "serving"
      /\ \A x \in Artifacts : Range(builds[x]) \subseteq Runs
      /\ builds \in [Artifacts -> Seq(Runs)]
  <2>1. forgetting'[s] = "row" /\ builds \in [Artifacts -> Seq(Runs)]
    BY <1>1 DEF One, Typed, Shapes
  <2>2. QED BY <1>1, <2>1, WithoutIsFiles, AtWork, RowsAreRuns DEF One
<1>3. StartUp(s)'
  BY <1>1, <1>2 DEF StartUp
<1>4. RowsWhole(s)'
  <2>1. ASSUME NEW x \in Artifacts
        PROVE  WholeFirst(x)'
    <3>1. \A i \in DOMAIN builds[x] : files'[builds[x][i]] = "none"
      BY <1>2 DEF Range
    <3>2. QED BY <1>1, <3>1 DEF WholeFirst, Whole
  <2>2. QED BY <1>2, <2>1 DEF RowsWhole
<1>5. OneRun'
  BY <1>1 DEF One, OneOK, OneRun, IsActive
<1>6. \A r \in Runs : RunOK(s, r)'
  <2>1. SUFFICES ASSUME NEW r \in Runs
                 PROVE  RunOK(s, r)'
    OBVIOUS
  <2>2. RunOK(s, r) /\ files'[r] = "none"
    BY <1>2 DEF One, OneOK
  <2>3. phase[r] = "captured" => \A b \in Range(builds[run[r].artifact]) : files'[b] = "none"
    BY <1>2, RunKnown DEF One
  <2>4. QED BY <1>1, <1>2, <2>2, <2>3 DEF RunOK, Exists, Whole
<1>7. \A x \in removing'[s] : definition'[x] = Removed
  BY <1>1 DEF One, OneOK
<1>8. KnownAccounted'
  BY <1>2 DEF KnownAccounted
<1>9. QED BY <1>3, <1>4, <1>5, <1>6, <1>7, <1>8 DEF OneOK, Kept1

\* ForgetRow: no rows, and no catalog entry to account for.
LEMMA ForgetRowKeeps ==
  ASSUME NEW s, One(s), KnownAccounted, ForgetRow(s)
  PROVE  Kept1(s)
<1>1. /\ forgetting[s] = "row" /\ forgetting' = [forgetting EXCEPT ![s] = "no"]
      /\ registered' = FALSE
      /\ definition' = [a \in Artifacts |-> Removed]
      /\ builds' = [a \in Artifacts |-> <<>>]
      /\ UNCHANGED <<files, server, expected, deleted, removing, run, phase, outcome>>
  BY DEF ForgetRow, runVars
<1>2. /\ Rows' = {} /\ server[s] = "serving" /\ removing[s] \subseteq Artifacts
      /\ \A r \in Runs : RunOK(s, r)
  BY <1>1, ForgetRowTyped, AtWork DEF One, OneOK, Typed, Shapes
<1>3. StartUp(s)'
  BY <1>1, <1>2 DEF StartUp
<1>4. RowsWhole(s)'
  <2>1. ASSUME NEW x \in Artifacts
        PROVE  WholeFirst(x)'
    <3>1. DOMAIN builds'[x] = {}
      BY <1>1
    <3>2. QED BY <3>1 DEF WholeFirst
  <2>2. QED BY <1>2, <2>1 DEF RowsWhole
<1>5. OneRun'
  BY <1>1 DEF One, OneOK, OneRun, IsActive
<1>6. \A r \in Runs : RunOK(s, r)'
  <2>1. SUFFICES ASSUME NEW r \in Runs
                 PROVE  RunOK(s, r)'
    OBVIOUS
  <2>2. RunOK(s, r)
    BY <1>2
  <2>3. Removed # 0 /\ Removed \notin 1..MaxRevision
    BY ArtifactAssumption
  <2>4. phase[r] # "idle" => definition'[run[r].artifact] = Removed
    BY <1>1, RunKnown DEF One
  <2>5. QED BY <1>1, <2>2, <2>3, <2>4 DEF RunOK, Exists
<1>7. \A x \in removing'[s] : definition'[x] = Removed
  BY <1>1, <1>2
<1>8. KnownAccounted'
  BY <1>1 DEF KnownAccounted
<1>9. QED BY <1>3, <1>4, <1>5, <1>6, <1>7, <1>8 DEF OneOK, Kept1

\* Boot and RemoveOrphans: payloads of no row go.
LEMMA StartsKeep ==
  ASSUME NEW s, One(s), KnownAccounted, Boot(s) \/ RemoveOrphans(s)
  PROVE  Kept1(s)
<1>1. /\ UNCHANGED <<registered, definition, builds, deleted, removing, forgetting, run, phase, outcome>>
      /\ server[s] \in {"down", "sweeping"} /\ server'[s] \in {"sweeping", "verifying"} /\ s \in Servers
      /\ Rows' = Rows
  BY DEF Boot, RemoveOrphans, store, runVars, One, Typed, Shapes, Rows
<1>2. /\ forgetting[s] = "no" /\ removing[s] = {} /\ Idle /\ Rows \subseteq Runs
      /\ \A r \in Runs : RunOK(s, r)
      /\ \A a \in Artifacts : Range(builds[a]) \subseteq Rows
      /\ builds \in [Artifacts -> Seq(Runs)]
  BY <1>1, RowsAreRuns DEF One, OneOK, StartUp, Typed, Shapes
<1>3. /\ \A b \in Rows : files'[b] = files[b]
      /\ \A b \in Runs : files'[b] \in {files[b], "none"}
      /\ expected'[s] = Rows
      /\ server'[s] = "verifying" => \A b \in Runs : files'[b] # "none" => b \in Rows
  <2>1. CASE Boot(s)
    BY <1>2, <2>1 DEF Boot, One, Typed, Shapes
  <2>2. CASE RemoveOrphans(s)
    <3>1. expected[s] = Rows /\ Without(Orphans(s)) /\ UNCHANGED expected
      BY <2>2 DEF RemoveOrphans, One, OneOK, StartUp
    <3>2. \A b \in Runs : files'[b] = IF b \in Orphans(s) THEN "none" ELSE files[b]
      BY <3>1, WithoutIsFiles DEF One
    <3>3. QED BY <1>2, <3>1, <3>2 DEF Orphans
  <2>3. QED BY <2>1, <2>2
<1>4. StartUp(s)'
  BY <1>1, <1>2, <1>3 DEF StartUp, Idle
<1>5. RowsWhole(s)'
  <2>1. ASSUME NEW x \in Artifacts
        PROVE  WholeFirst(x)'
    <3>1. \A i \in DOMAIN builds[x] : files'[builds[x][i]] = files[builds[x][i]]
      BY <1>2, <1>3 DEF Range
    <3>2. WholeFirst(x)
      BY DEF One, OneOK, RowsWhole
    <3>3. QED BY <1>1, <3>1, <3>2 DEF WholeFirst, Whole
  <2>2. QED BY <1>1, <2>1 DEF RowsWhole
<1>6. OneRun'
  BY <1>1 DEF One, OneOK, OneRun, IsActive
<1>7. \A r \in Runs : RunOK(s, r)'
  <2>1. SUFFICES ASSUME NEW r \in Runs
                 PROVE  RunOK(s, r)'
    OBVIOUS
  <2>2. RunOK(s, r) /\ phase[r] \in {"idle", "done"} /\ files'[r] \in {files[r], "none"}
    BY <1>2, <1>3 DEF Idle
  <2>3. QED BY <1>1, <2>2 DEF RunOK
<1>8. \A x \in removing'[s] : definition'[x] = Removed
  BY <1>1, <1>2
<1>9. KnownAccounted'
  BY <1>1 DEF KnownAccounted, Reason
<1>10. QED BY <1>4, <1>5, <1>6, <1>7, <1>8, <1>9 DEF OneOK, Kept1
\* The beginning of a sequence.
LEMMA Beginning ==
  ASSUME NEW R, NEW q \in Seq(R), NEW k \in 0..Len(q)
  PROVE  /\ SubSeq(q, 1, k) \in Seq(R) /\ Len(SubSeq(q, 1, k)) = k /\ DOMAIN SubSeq(q, 1, k) = 1..k
         /\ \A i \in 1..k : i \in 1..Len(q) /\ SubSeq(q, 1, k)[i] = q[i]
         /\ Len(q) \in Nat /\ k \in Nat
<1>1. Len(q) \in Nat /\ k \in Nat /\ \A i \in 1..k : i \in 1..Len(q)
  OBVIOUS
<1>2. SubSeq(q, 1, k) = [i \in 1..k |-> q[i]]
  OBVIOUS
<1>3. \A i \in 1..k : q[i] \in R
  BY <1>1
<1>4. QED BY <1>1, <1>2, <1>3

\* What a row list offers for download is its beginning: the rows whose payload is there.
LEMMA WholeOnes ==
  ASSUME NEW s, One(s), NEW a \in Artifacts
  PROVE  \E k \in 0..Len(builds[a]) :
           /\ \A i \in 1..Len(builds[a]) : builds[a][i] \in {b \in Runs : files[b] = "whole"} <=> i <= k
           /\ Selected(builds[a], {b \in Runs : files[b] = "whole"}) = SubSeq(builds[a], 1, k)
<1> DEFINE S == {b \in Runs : files[b] = "whole"}
<1>1. builds[a] \in Seq(Runs) /\ WholeFirst(a)
  BY DEF One, Typed, Shapes, OneOK, RowsWhole
<1>2. \A i, j \in DOMAIN builds[a] : i < j /\ builds[a][j] \in S => builds[a][i] \in S
  <2>1. \A i \in DOMAIN builds[a] : builds[a][i] \in Runs
    BY <1>1
  <2>2. QED BY <1>1, <2>1 DEF WholeFirst, Whole
<1> HIDE DEF S
<1>3. PICK k \in 0..Len(builds[a]) : \A i \in 1..Len(builds[a]) : builds[a][i] \in S <=> i <= k
  BY <1>1, <1>2, FirstOnes
<1>4. Selected(builds[a], S) = SubSeq(builds[a], 1, k)
  BY <1>1, <1>3, SelectedFirst
<1>5. QED BY <1>3, <1>4 DEF S

\* DeleteMissing: the rows that stay have their payload.
LEMMA DeleteMissingRows ==
  ASSUME NEW s, One(s), DeleteMissing(s)
  PROVE  /\ \A a \in Artifacts :
              \E k \in 0..Len(builds[a]) :
                /\ \A i \in 1..Len(builds[a]) : files[builds[a][i]] = "whole" <=> i <= k
                /\ builds'[a] = SubSeq(builds[a], 1, k)
                /\ Selected(builds[a], {b \in Runs : files[b] = "whole"}) = SubSeq(builds[a], 1, k)
         /\ \A b \in Rows : b \in Rows' <=> files[b] = "whole"
         /\ \A b \in Rows : files[b] = "whole" => files'[b] = "whole"
         /\ Rows' \subseteq Rows
<1>1. /\ builds' = [a \in Artifacts |-> Selected(builds[a], Runs \ Missing(s))] /\ Without(Missing(s))
      /\ expected[s] = Rows /\ builds \in [Artifacts -> Seq(Runs)]
  BY DEF DeleteMissing, One, OneOK, StartUp, Typed, Shapes
<1>2. Missing(s) = {b \in Rows : files[b] # "whole"}
  BY <1>1 DEF Missing
<1>3. /\ Rows \subseteq Runs /\ \A a \in Artifacts : Range(builds[a]) \subseteq Rows
      /\ Rows' \subseteq Rows
      /\ \A b \in Runs : files'[b] = IF b \in Missing(s) THEN "none" ELSE files[b]
  BY <1>1, RowsAreRuns, DeleteMissingTyped, WithoutIsFiles DEF One
<1>4. ASSUME NEW a \in Artifacts
      PROVE  \E k \in 0..Len(builds[a]) :
                /\ \A i \in 1..Len(builds[a]) : files[builds[a][i]] = "whole" <=> i <= k
                /\ builds'[a] = SubSeq(builds[a], 1, k)
                /\ Selected(builds[a], {b \in Runs : files[b] = "whole"}) = SubSeq(builds[a], 1, k)
  <2>1. PICK k \in 0..Len(builds[a]) :
           /\ \A i \in 1..Len(builds[a]) : builds[a][i] \in {b \in Runs : files[b] = "whole"} <=> i <= k
           /\ Selected(builds[a], {b \in Runs : files[b] = "whole"}) = SubSeq(builds[a], 1, k)
    BY <1>4, WholeOnes
  <2>2. \A i \in 1..Len(builds[a]) : builds[a][i] \in Rows /\ builds[a][i] \in Runs
    BY <1>1, <1>3 DEF Range
  <2>3. \A i \in 1..Len(builds[a]) : files[builds[a][i]] = "whole" <=> i <= k
    BY <2>1, <2>2
  <2>4. \A i \in 1..Len(builds[a]) : builds[a][i] \in Runs \ Missing(s) <=> i <= k
    BY <1>2, <2>2, <2>3
  <2>5. Selected(builds[a], Runs \ Missing(s)) = SubSeq(builds[a], 1, k)
    BY <1>1, <2>4, SelectedFirst
  <2>6. QED BY <1>1, <2>1, <2>3, <2>5
<1>5. \A b \in Rows : b \in Rows' <=> files[b] = "whole"
  <2>1. SUFFICES ASSUME NEW a \in Artifacts, NEW b \in Range(builds[a])
                 PROVE  b \in Rows' <=> files[b] = "whole"
    BY RowsAreRuns DEF One
  <2>2. PICK k \in 0..Len(builds[a]) :
           /\ \A i \in 1..Len(builds[a]) : files[builds[a][i]] = "whole" <=> i <= k
           /\ builds'[a] = SubSeq(builds[a], 1, k)
    BY <1>4
  <2>3. PICK i \in 1..Len(builds[a]) : builds[a][i] = b
    BY <1>1, <2>1 DEF Range
  <2>4. /\ Len(builds[a]) \in Nat /\ DOMAIN builds'[a] = 1..k /\ \A j \in 1..k : builds'[a][j] = builds[a][j]
    <3>1. builds[a] \in Seq(Runs)
      BY <1>1
    <3>2. QED BY <2>2, <3>1, Beginning
  <2>5. files[b] = "whole" => b \in Rows'
    <3>1. files[b] = "whole" => i \in 1..k
      BY <2>2, <2>3, <2>4
    <3>2. files[b] = "whole" => b \in Range(builds'[a])
      BY <2>3, <2>4, <3>1 DEF Range
    <3>3. QED BY <3>2 DEF Rows
  <2>6. ASSUME b \in Rows'
        PROVE  files[b] = "whole"
    <3>1. PICK x \in Artifacts : b \in Range(builds'[x])
      BY <2>6 DEF Rows
    <3>2. PICK m \in 0..Len(builds[x]) :
             /\ \A j \in 1..Len(builds[x]) : files[builds[x][j]] = "whole" <=> j <= m
             /\ builds'[x] = SubSeq(builds[x], 1, m)
      BY <1>4
    <3>3. /\ Len(builds[x]) \in Nat /\ DOMAIN builds'[x] = 1..m /\ \A j \in 1..m : builds'[x][j] = builds[x][j]
      <4>1. builds[x] \in Seq(Runs)
        BY <1>1
      <4>2. QED BY <3>2, <4>1, Beginning
    <3>4. PICK j \in 1..m : builds'[x][j] = b
      BY <3>1, <3>3 DEF Range
    <3>5. j \in 1..Len(builds[x]) /\ j <= m /\ builds[x][j] = b
      BY <3>3, <3>4
    <3>6. QED BY <3>2, <3>5
  <2>7. QED BY <2>5, <2>6
<1>6. \A b \in Rows : files[b] = "whole" => files'[b] = "whole"
  BY <1>2, <1>3
<1>7. QED BY <1>3, <1>4, <1>5, <1>6

\* The server serves requests when every row has its payload and every payload its row.
LEMMA DeleteMissingKeeps ==
  ASSUME NEW s, One(s), KnownAccounted, DeleteMissing(s)
  PROVE  Kept1(s)
<1>1. /\ UNCHANGED <<registered, definition, deleted, removing, forgetting, run, phase, outcome>>
      /\ server[s] = "verifying" /\ server' = [server EXCEPT ![s] = "serving"] /\ s \in Servers
      /\ server \in [Servers -> {"sweeping", "verifying", "serving", "down"}]
      /\ builds \in [Artifacts -> Seq(Runs)] /\ Without(Missing(s)) /\ expected[s] = Rows
  BY DEF DeleteMissing, runVars, One, Typed, Shapes, OneOK, StartUp
<1>2. /\ forgetting[s] = "no" /\ removing[s] = {} /\ Idle /\ Rows \subseteq Runs
      /\ (\A b \in Runs : files[b] # "none" => b \in Rows) /\ (\A r \in Runs : RunOK(s, r))
      /\ server'[s] = "serving"
  BY <1>1, RowsAreRuns DEF One, OneOK, StartUp
<1>3. /\ Rows' \subseteq Rows /\ (\A b \in Rows : b \in Rows' <=> files[b] = "whole")
      /\ \A b \in Rows : files[b] = "whole" => files'[b] = "whole"
      /\ \A b \in Runs : files'[b] = IF b \in Missing(s) THEN "none" ELSE files[b]
  BY <1>1, DeleteMissingRows, WithoutIsFiles DEF One
<1>4. \A b \in Rows' : files'[b] = "whole"
  BY <1>3
<1>5. StartUp(s)'
  BY <1>2 DEF StartUp
<1>6. RowsWhole(s)'
  <2>1. ASSUME NEW x \in Artifacts
        PROVE  WholeFirst(x)'
    <3>1. \A i \in DOMAIN builds'[x] : builds'[x][i] \in Rows'
      BY DEF Rows, Range
    <3>2. QED BY <1>4, <3>1 DEF WholeFirst, Whole
  <2>2. QED BY <1>4, <2>1 DEF RowsWhole, Whole
<1>7. OneRun'
  BY <1>1 DEF One, OneOK, OneRun, IsActive
<1>8. \A r \in Runs : RunOK(s, r)'
  <2>1. SUFFICES ASSUME NEW r \in Runs
                 PROVE  RunOK(s, r)'
    OBVIOUS
  <2>2. RunOK(s, r) /\ phase[r] \in {"idle", "done"} /\ files'[r] \in {files[r], "none"}
    BY <1>2, <1>3 DEF Idle
  <2>3. QED BY <1>1, <2>2 DEF RunOK
<1>9. \A x \in removing'[s] : definition'[x] = Removed
  BY <1>1, <1>2
<1>10. KnownAccounted'
  <2>1. SUFFICES ASSUME NEW b \in Runs, files'[b] # "none"
                 PROVE  Reason(b)'
    BY DEF KnownAccounted
  <2>2. b \in Rows /\ b \notin Missing(s)
    BY <1>2, <1>3, <2>1
  <2>3. b \in Rows'
    BY <1>1, <1>3, <2>2 DEF Missing
  <2>4. QED BY <2>3 DEF Reason
<1>11. QED BY <1>5, <1>6, <1>7, <1>8, <1>9, <1>10 DEF OneOK, Kept1

\* A crash leaves rows and payloads to the next start.
LEMMA CrashKeeps ==
  ASSUME NEW s, One(s), KnownAccounted, Crash(s)
  PROVE  Kept1(s)
<1>1. /\ UNCHANGED <<registered, definition, builds, files, run>> /\ Rows' = Rows
      /\ server' = [server EXCEPT ![s] = "down"] /\ removing' = [removing EXCEPT ![s] = {}]
      /\ forgetting' = [forgetting EXCEPT ![s] = "no"] /\ s \in Servers /\ Servers = {s}
  BY DEF Crash, store, One, Rows
<1>2. server'[s] = "down" /\ removing'[s] = {} /\ forgetting'[s] = "no"
  BY <1>1 DEF One, Typed, Shapes
<1>3. \A r \in Runs : phase'[r] = "done" \/ (phase'[r] = "idle" /\ phase[r] = "idle" /\ outcome'[r] = outcome[r])
  <2>1. SUFFICES ASSUME NEW r \in Runs
                 PROVE  phase'[r] = "done" \/ (phase'[r] = "idle" /\ phase[r] = "idle" /\ outcome'[r] = outcome[r])
    OBVIOUS
  <2>2. CASE phase[r] = "idle"
    BY <2>2, CrashTyped DEF One
  <2>3. CASE phase[r] # "idle"
    <3>1. run[r] # None /\ run[r].server = s
      BY <1>1, <2>3, RunKnown DEF One
    <3>2. QED BY <3>1, CrashTyped DEF One
  <2>4. QED BY <2>2, <2>3
<1>4. RowsWhole(s) /\ \A r \in Runs : RunOK(s, r)
  BY DEF One, OneOK
<1>5. StartUp(s)'
  BY <1>2, <1>3 DEF StartUp, Idle
<1>6. RowsWhole(s)'
  BY <1>1, <1>2, <1>4 DEF RowsWhole, WholeFirst, Whole
<1>7. OneRun'
  BY <1>3 DEF OneRun, IsActive
<1>8. \A r \in Runs : RunOK(s, r)'
  <2>1. SUFFICES ASSUME NEW r \in Runs
                 PROVE  RunOK(s, r)'
    OBVIOUS
  <2>2. CASE phase'[r] = "idle"
    BY <1>1, <1>3, <1>4, <2>2 DEF RunOK
  <2>3. CASE phase'[r] = "done"
    <3>1. definition[run[r].artifact] # 0
      <4>1. phase[r] # "idle"
        <5>1. phase[r] = "idle" => run[r] = None
          BY DEF One, Typed, RunsTyped
        <5>2. phase[r] = "idle" => phase'[r] = "idle"
          BY <5>1, <2>3, CrashTyped DEF One
        <5>3. QED BY <2>3, <5>2
      <4>2. QED BY <1>4, <4>1 DEF RunOK
    <3>2. QED BY <1>1, <2>3, <3>1 DEF RunOK
  <2>4. QED BY <1>3, <2>2, <2>3
<1>9. \A x \in removing'[s] : definition'[x] = Removed
  BY <1>2
<1>10. KnownAccounted'
  BY <1>1, <1>2 DEF KnownAccounted, Reason
<1>11. QED BY <1>5, <1>6, <1>7, <1>8, <1>9, <1>10 DEF OneOK, Kept1

IInv(s) == One(s) /\ KnownAccounted

\* The inductive invariant of one process.
LEMMA InitOne ==
  ASSUME NEW s, Servers = {s}, Init
  PROVE  IInv(s)
<1>1. Typed
  BY InitTyped
<1>2. Rows = {}
  BY DEF Init, Rows, Range
<1>3. KnownAccounted
  BY DEF Init, KnownAccounted
<1>4. /\ StartUp(s) /\ OneRun /\ (\A a \in removing[s] : definition[a] = Removed)
      /\ \A r \in Runs : RunOK(s, r)
  BY DEF Init, StartUp, Idle, OneRun, IsActive, RunOK
<1>5. RowsWhole(s)
  <2>1. \A a \in Artifacts : DOMAIN builds[a] = {}
    BY DEF Init
  <2>2. QED BY <1>2, <2>1 DEF RowsWhole, WholeFirst
<1>6. QED BY <1>1, <1>3, <1>4, <1>5 DEF IInv, One, OneOK

\* With one server every step keeps the invariant.
LEMMA NextOne ==
  ASSUME NEW s, IInv(s), [Next]_vars
  PROVE  IInv(s)'
<1>1. Typed' /\ One(s) /\ KnownAccounted /\ Servers = {s}
  BY NextTyped DEF IInv, One
<1>2. SUFFICES Kept1(s)
  BY <1>1 DEF IInv, One, Kept1
<1>3. CASE UNCHANGED vars
  <2>1. UNCHANGED <<registered, definition, builds, files, server, expected, deleted, removing, forgetting, run, phase,
                    outcome, obsolete, errors>>
    BY <1>3 DEF vars, store, memory, runVars, bounds
  <2>2. OneOK(s)'
    BY <1>1, <2>1 DEF One, OneOK, StartUp, Idle, RowsWhole, WholeFirst, Whole, RunOK, OneRun, IsActive, Rows, Exists
  <2>3. KnownAccounted'
    BY <1>1, <2>1 DEF KnownAccounted, Reason, Rows
  <2>4. QED BY <2>2, <2>3 DEF Kept1
<1>4. ASSUME NEW r \in Runs, RunStep(r) \/ Stop(r) \/ CommandEnds(r)
      PROVE  Kept1(s)
  <2>1. CASE Launch(r) \/ CommandEnds(r)
    BY <1>1, <2>1, EarlyStepsKeep
  <2>2. CASE CaptureBegins(r) \/ CaptureEnds(r) \/ CancelCapture(r) \/ RemoveCapture(r)
    BY <1>1, <2>2, CapturesKeep
  <2>3. CASE InsertBuild(r)
    BY <1>1, <2>3, InsertKeeps
  <2>4. CASE InsertFails(r)
    BY <1>1, <2>4, InsertFailsKeeps
  <2>5. CASE EvictAndFinish(r)
    BY <1>1, <2>5, EvictKeeps
  <2>6. CASE Stop(r)
    BY <1>1, <2>6, QuietKeeps
  <2>7. QED BY <1>4, <2>1, <2>2, <2>3, <2>4, <2>5, <2>6 DEF RunStep
<1>5. CASE ServerStep(s)
  <2>1. CASE RemoveOrphans(s)
    BY <1>1, <2>1, StartsKeep
  <2>2. CASE DeleteMissing(s)
    BY <1>1, <2>2, DeleteMissingKeeps
  <2>3. CASE DeleteRepositoryFiles(s)
    BY <1>1, <2>3, DeleteRepositoryKeeps
  <2>4. CASE ForgetRow(s)
    BY <1>1, <2>4, ForgetRowKeeps
  <2>5. ASSUME NEW a \in Artifacts, DeleteArtifactFiles(s, a)
        PROVE  Kept1(s)
    BY <1>1, <2>5, DeleteFilesKeeps
  <2>6. QED BY <1>5, <2>1, <2>2, <2>3, <2>4, <2>5 DEF ServerStep
<1>6. CASE UserStep(s)
  <2>1. CASE Boot(s)
    BY <1>1, <2>1, StartsKeep
  <2>2. CASE Crash(s)
    BY <1>1, <2>2, CrashKeeps
  <2>3. CASE ForgetRepository(s)
    BY <1>1, <2>3, QuietKeeps
  <2>4. ASSUME NEW a \in Artifacts, CreateDefinition(s, a)
        PROVE  Kept1(s)
    BY <1>1, <2>4, QuietKeeps
  <2>5. ASSUME NEW a \in Artifacts, NEW revision \in 1..MaxRevision, UpdateDefinition(s, a, revision)
        PROVE  Kept1(s)
    BY <1>1, <2>5, QuietKeeps
  <2>6. ASSUME NEW a \in Artifacts, DeleteDefinition(s, a)
        PROVE  Kept1(s)
    BY <1>1, <2>6, DeleteDefinitionKeeps
  <2>7. ASSUME NEW a \in Artifacts, NEW r \in Runs, Request(s, r, a)
        PROVE  Kept1(s)
    BY <1>1, <2>7, RequestKeeps
  <2>8. QED BY <1>6, <2>1, <2>2, <2>3, <2>4, <2>5, <2>6, <2>7 DEF UserStep
<1>7. QED BY <1>1, <1>3, <1>4, <1>5, <1>6 DEF Next

\* The invariant of one process.
LEMMA OneProcess ==
  ASSUME NEW s, Servers = {s}
  PROVE  Spec => []IInv(s)
<1>1. Init => IInv(s)
  BY InitOne
<1>2. IInv(s) /\ [Next]_vars => IInv(s)'
  BY NextOne
<1>3. QED BY <1>1, <1>2, PTL DEF Spec
-----------------------------------------------------------------------------
(* The removal of the repository, by the one process.                      *)

\* While the repository is being removed, and after, the runs at work have been told so, but for
\* those of an artifact that was started meanwhile; and once its directory was removed, a payload
\* is of a run that is about to notice.
Told(s, r) == stopped[r] \/ run[r].artifact \in deleted[s]
AtEnd(r)   == phase[r] \in {"copying", "captured", "cancelling"}
Removal(s) ==
  /\ forgetting[s] # "no" \/ ~registered =>
       \A r \in Runs : phase[r] \notin {"idle", "done"} /\ run[r].artifact \notin late => Told(s, r)
  /\ (forgetting[s] = "row" \/ ~registered) /\ server[s] = "serving" =>
       \A r \in Runs : files[r] # "none" /\ run[r].artifact \notin late => AtEnd(r)

\* A step of a run at work, after which it has no new payload, or is about to notice.
LEMMA RunRemoval ==
  ASSUME NEW s, One(s), Removal(s), NEW r \in Runs, phase[r] \notin {"idle", "done"},
         NEW to \in Phases \ {"idle"}, phase' = [phase EXCEPT ![r] = to],
         UNCHANGED <<registered, server, forgetting, deleted, run, late>>,
         \A q \in Runs : stopped[q] => stopped'[q],
         \A b \in Runs \ {r} : files'[b] \in {files[b], "none"},
         \/ files'[r] = "none" \/ to \in {"copying", "captured", "cancelling"}
         \/ run[r].artifact \in late \/ (forgetting[s] # "row" /\ registered)
  PROVE  Removal(s)'
<1>1. \A q \in Runs : phase'[q] = IF q = r THEN to ELSE phase[q]
  BY DEF One, Typed, Shapes
<1>2. QED BY <1>1 DEF Removal, Told, AtEnd

\* A step that begins no work, adds no payload and takes nothing back.
LEMMA QuietRemoval ==
  ASSUME NEW s, One(s), Removal(s),
         UNCHANGED <<registered, server, forgetting, run, phase, late>>,
         deleted[s] \subseteq deleted'[s], \A q \in Runs : stopped[q] => stopped'[q],
         \A b \in Runs : files'[b] \in {files[b], "none"}
  PROVE  Removal(s)'
BY DEF Removal, Told, AtEnd

\* The steps of a run.
LEMMA RunStepsRemove ==
  ASSUME NEW s, One(s), Removal(s), NEW r \in Runs, RunStep(r) \/ Stop(r) \/ CommandEnds(r)
  PROVE  Removal(s)'
<1>1. /\ phase \in [Runs -> Phases] /\ files \in [Runs -> {"none", "partial", "whole"}]
      /\ stopped \in [Runs -> BOOLEAN] /\ RunOK(s, r) /\ Servers = {s}
      /\ phase[r] # "idle" => run[r].server = s
  <2>1. phase[r] # "idle" => run[r].server \in Servers
    BY RunKnown DEF One
  <2>2. QED BY <2>1 DEF One, Typed, Shapes, OneOK
<1>2. ASSUME Launch(r) \/ CommandEnds(r)
      PROVE  Removal(s)'
  <2>1. /\ phase[r] \in {"opening", "running"} /\ files' = files /\ stopped' = stopped
        /\ UNCHANGED <<registered, server, forgetting, deleted, run, late>>
        /\ \E to \in Phases \ {"idle"} : phase' = [phase EXCEPT ![r] = to]
    BY <1>2 DEF Launch, CommandEnds, Goto, Ends, Phases, store, memory
  <2>2. files'[r] = "none"
    BY <1>1, <2>1 DEF RunOK
  <2>3. QED BY <2>1, <2>2, RunRemoval
<1>3. ASSUME CaptureBegins(r) \/ CaptureEnds(r) \/ CancelCapture(r) \/ RemoveCapture(r)
      PROVE  Removal(s)'
  <2>1. /\ phase[r] \in {"capture", "copying", "captured", "cancelling"} /\ stopped' = stopped
        /\ UNCHANGED <<registered, server, forgetting, deleted, run, late>>
        /\ \A b \in Runs \ {r} : files'[b] = files[b]
    BY <1>1, <1>3 DEF CaptureBegins, CaptureEnds, CancelCapture, RemoveCapture, Without, store, memory
  <2>2. PICK to \in Phases \ {"idle"} : /\ phase' = [phase EXCEPT ![r] = to]
                                        /\ files'[r] = "none" \/ to \in {"copying", "captured", "cancelling"}
    <3>1. phase[r] = "capture" => files[r] = "none"
      BY <1>1 DEF RunOK
    <3>2. CASE CaptureBegins(r)
      BY <1>1, <3>1, <3>2 DEF CaptureBegins, Goto, Ends, Phases
    <3>3. CASE CaptureEnds(r)
      BY <1>1, <3>3 DEF CaptureEnds, Without, Goto, Ends, Phases
    <3>4. CASE CancelCapture(r)
      BY <3>4 DEF CancelCapture, Goto, Phases
    <3>5. CASE RemoveCapture(r)
      BY <3>5 DEF RemoveCapture, Without, Ends, Goto, Phases
    <3>6. QED BY <1>3, <3>2, <3>3, <3>4, <3>5
  <2>3. QED BY <2>1, <2>2, RunRemoval
<1>4. ASSUME InsertBuild(r) \/ InsertFails(r)
      PROVE  Removal(s)'
  <2>1. /\ phase[r] = "captured" /\ ~Cancelled(r) /\ files' = files /\ stopped' = stopped
        /\ UNCHANGED <<registered, server, forgetting, deleted, run, late>>
        /\ \E to \in Phases \ {"idle"} : phase' = [phase EXCEPT ![r] = to]
    BY <1>4 DEF InsertBuild, InsertFails, Goto, Ends, Phases, store, memory
  <2>2. ~Told(s, r)
    BY <1>1, <2>1 DEF Cancelled, Told
  <2>3. run[r].artifact \in late \/ (forgetting[s] = "no" /\ registered)
    BY <2>1, <2>2 DEF Removal
  <2>4. QED BY <2>1, <2>3, RunRemoval
<1>5. ASSUME EvictAndFinish(r)
      PROVE  Removal(s)'
  <2>1. /\ phase[r] = "evicting" /\ stopped' = stopped /\ phase' = [phase EXCEPT ![r] = "done"]
        /\ UNCHANGED <<registered, server, forgetting, deleted, run, late>>
        /\ \A b \in Runs : files'[b] \in {files[b], "none"}
    BY <1>5 DEF EvictAndFinish, Without, Goto, Ends, store, memory
  <2>2. server[s] = "serving"
    BY <2>1, AtWork
  <2>3. files[r] = "none" \/ run[r].artifact \in late \/ (forgetting[s] # "row" /\ registered)
    BY <2>1, <2>2 DEF Removal, AtEnd
  <2>4. "done" \in Phases \ {"idle"}
    BY DEF Phases
  <2>5. QED BY <2>1, <2>3, <2>4, RunRemoval
<1>6. ASSUME Stop(r)
      PROVE  Removal(s)'
  <2>1. /\ UNCHANGED <<registered, server, forgetting, deleted, run, phase, late, files>>
        /\ \A q \in Runs : stopped[q] => stopped'[q]
    BY <1>1, <1>6 DEF Stop, store, memory
  <2>2. QED BY <2>1, QuietRemoval
<1>7. QED BY <1>2, <1>3, <1>4, <1>5, <1>6 DEF RunStep

\* The steps of the process, and of its users.
LEMMA ServerStepsRemove ==
  ASSUME NEW s, One(s), Removal(s), s \in Servers, ServerStep(s) \/ UserStep(s)
  PROVE  Removal(s)'
<1>1. /\ phase \in [Runs -> Phases] /\ files \in [Runs -> {"none", "partial", "whole"}]
      /\ stopped \in [Runs -> BOOLEAN] /\ deleted \in [Servers -> SUBSET Artifacts]
      /\ forgetting \in [Servers -> {"no", "files", "row"}] /\ server \in [Servers -> {"sweeping", "verifying", "serving", "down"}]
      /\ registered \in BOOLEAN /\ run \in [Runs -> Run \cup {None}] /\ StartUp(s) /\ \A r \in Runs : RunOK(s, r)
  BY DEF One, Typed, Shapes, OneOK
<1>2. ~registered => Rows = {} /\ \A a \in Artifacts : ~Exists(a)
  BY DEF One, Typed, RunsTyped, RowsOK, Rows, Range
<1>3. ASSUME NEW a \in Artifacts, \/ CreateDefinition(s, a) \/ DeleteDefinition(s, a) \/ DeleteArtifactFiles(s, a)
                                  \/ \E revision \in 1..MaxRevision : UpdateDefinition(s, a, revision)
      PROVE  Removal(s)'
  <2>1. /\ UNCHANGED <<registered, server, forgetting, run, phase, late>>
        /\ deleted[s] \subseteq deleted'[s] /\ \A q \in Runs : stopped[q] => stopped'[q]
        /\ \A b \in Runs : files'[b] \in {files[b], "none"}
    BY <1>1, <1>3 DEF CreateDefinition, DeleteDefinition, DeleteArtifactFiles, UpdateDefinition, StopAll,
                      Without, store, memory, runVars
  <2>2. QED BY <2>1, QuietRemoval
<1>4. CASE DeleteRepositoryFiles(s)
  <2>1. /\ UNCHANGED <<registered, server, deleted, run, phase, stopped, late>> /\ forgetting[s] = "files"
        /\ \A b \in Runs : files'[b] = "none"
    BY <1>4 DEF DeleteRepositoryFiles, Without, store, runVars
  <2>2. QED BY <2>1 DEF Removal, Told
<1>5. CASE ForgetRow(s)
  <2>1. UNCHANGED <<files, server, deleted, run, phase, stopped, late>> /\ forgetting[s] = "row"
    BY <1>5 DEF ForgetRow, runVars
  <2>2. QED BY <2>1 DEF Removal, Told, AtEnd
<1>6. CASE ForgetRepository(s)
  <2>1. /\ registered /\ registered' = registered /\ forgetting'[s] = "files"
        /\ UNCHANGED <<run, phase>>
        /\ deleted'[s] = deleted[s] \cup {a \in Artifacts : Exists(a)}
        /\ \A r \in Runs : stopped'[r] <=> stopped[r] \/ (run[r] # None /\ run[r].server = s /\ IsActive(r))
    BY <1>1, <1>6 DEF ForgetRepository, StopAll, store
  <2>2. ASSUME NEW r \in Runs, phase[r] \notin {"idle", "done"}
        PROVE  run[r].artifact \in deleted'[s]
    <3>1. run[r].artifact \in Artifacts
      BY <2>2, RunKnown DEF One
    <3>2. ~Exists(run[r].artifact) => run[r].artifact \in deleted[s]
      BY <1>1, <2>1, <2>2 DEF RunOK
    <3>3. QED BY <2>1, <3>1, <3>2
  <2>3. QED BY <2>1, <2>2 DEF Removal, Told
<1>7. ASSUME NEW r \in Runs, NEW a \in Artifacts, Request(s, r, a)
      PROVE  Removal(s)'
  <2>1. /\ registered /\ phase[r] = "idle" /\ files[r] = "none"
    BY <1>1, <1>2, <1>7 DEF Request, RunOK
  <2>2. /\ UNCHANGED <<registered, files, server, forgetting, stopped>>
        /\ late' = IF forgetting[s] = "no" THEN late ELSE late \cup {a}
        /\ deleted'[s] = deleted[s] \ {a}
        /\ \A q \in Runs \ {r} : run'[q] = run[q] /\ phase'[q] = phase[q]
        /\ run'[r].artifact = a
    BY <1>1, <1>7 DEF Request, Goto, store
  <2>3. CASE forgetting[s] = "no"
    BY <2>1, <2>2, <2>3 DEF Removal
  <2>4. CASE forgetting[s] # "no"
    <3>1. a \in late' /\ late \subseteq late'
      BY <2>2, <2>4
    <3>2. ASSUME NEW q \in Runs, phase'[q] \notin {"idle", "done"}, run'[q].artifact \notin late'
          PROVE  Told(s, q)'
      <4>1. q # r /\ run[q].artifact \notin late /\ run[q].artifact # a
        BY <2>2, <3>1, <3>2
      <4>2. Told(s, q)
        BY <2>2, <2>4, <3>2, <4>1 DEF Removal
      <4>3. QED BY <2>2, <4>1, <4>2 DEF Told
    <3>3. ASSUME forgetting[s] = "row", server[s] = "serving",
                 NEW q \in Runs, files'[q] # "none", run'[q].artifact \notin late'
          PROVE  AtEnd(q)'
      <4>1. q # r /\ run[q].artifact \notin late
        BY <2>2, <3>1, <3>3
      <4>2. AtEnd(q)
        BY <2>2, <3>3, <4>1 DEF Removal
      <4>3. QED BY <2>2, <4>1, <4>2 DEF AtEnd
    <3>4. QED BY <2>1, <2>2, <3>2, <3>3 DEF Removal
  <2>5. QED BY <2>3, <2>4
<1>8. ASSUME Boot(s) \/ RemoveOrphans(s)
      PROVE  Removal(s)'
  <2>1. /\ UNCHANGED <<phase, run>> /\ server'[s] # "serving" /\ server[s] # "serving"
    BY <1>1, <1>8 DEF Boot, RemoveOrphans, runVars
  <2>2. QED BY <1>1, <2>1 DEF Removal, StartUp, Idle
<1>9. CASE DeleteMissing(s)
  <2>1. /\ UNCHANGED <<registered, forgetting, phase, run>> /\ server[s] = "verifying"
        /\ \A b \in Runs : files'[b] \in {files[b], "none"}
    BY <1>9 DEF DeleteMissing, Without, runVars
  <2>2. forgetting[s] = "no" /\ Idle /\ \A b \in Runs : files[b] # "none" => b \in Rows
    BY <1>1, <2>1 DEF StartUp
  <2>3. ~registered => \A b \in Runs : files'[b] = "none"
    BY <1>2, <2>1, <2>2
  <2>4. QED BY <2>1, <2>2, <2>3 DEF Removal, Idle
<1>10. CASE Crash(s)
  <2>1. server'[s] = "down"
    BY <1>1, <1>10 DEF Crash
  <2>2. ASSUME NEW r \in Runs
        PROVE  phase'[r] \in {"idle", "done"}
    <3>1. phase[r] # "idle" => run[r] # None /\ run[r].server = s
      <4>1. phase[r] # "idle" => run[r] # None /\ run[r].server \in Servers
        BY RunKnown DEF One
      <4>2. QED BY <4>1 DEF One
    <3>2. QED BY <1>1, <1>10, <3>1 DEF Crash
  <2>3. QED BY <2>1, <2>2 DEF Removal
<1>11. QED BY <1>3, <1>4, <1>5, <1>6, <1>7, <1>8, <1>9, <1>10 DEF ServerStep, UserStep

\* With one server every step keeps it.
LEMMA NextRemoval ==
  ASSUME NEW s, IInv(s), Removal(s), [Next]_vars
  PROVE  Removal(s)'
<1>1. One(s) /\ Servers = {s}
  BY DEF IInv, One
<1>2. CASE UNCHANGED vars
  <2>1. UNCHANGED <<registered, server, forgetting, deleted, run, phase, stopped, late, files>>
    BY <1>2 DEF vars, store, memory, runVars
  <2>2. QED BY <2>1 DEF Removal, Told, AtEnd
<1>3. ASSUME NEW r \in Runs, RunStep(r) \/ Stop(r) \/ CommandEnds(r)
      PROVE  Removal(s)'
  BY <1>1, <1>3, RunStepsRemove
<1>4. CASE ServerStep(s) \/ UserStep(s)
  BY <1>1, <1>4, ServerStepsRemove
<1>5. QED BY <1>1, <1>2, <1>3, <1>4 DEF Next

-----------------------------------------------------------------------------
(* What can be downloaded.                                                 *)

Present == {b \in Runs : files[b] = "whole"}

SelectedAt(q, places) ==
  [n \in 1..Cardinality(places) |->
     q[CHOOSE i \in places : Cardinality({j \in places : j < i}) = n - 1]]

\* The members of a list that are selected decide the selection.
LEMMA SelectedSame ==
  ASSUME NEW q, NEW S, NEW T, \A i \in DOMAIN q : q[i] \in S <=> q[i] \in T
  PROVE  Selected(q, S) = Selected(q, T)
<1>1. {i \in DOMAIN q : q[i] \in S} = {i \in DOMAIN q : q[i] \in T}
  OBVIOUS
<1>2. /\ Selected(q, S) = SelectedAt(q, {i \in DOMAIN q : q[i] \in S})
      /\ Selected(q, T) = SelectedAt(q, {i \in DOMAIN q : q[i] \in T})
  BY Zenon DEF Selected, SelectedAt
<1>3. QED BY <1>1, <1>2

\* Nothing is selected of a list none of whose members is.
LEMMA SelectedNone ==
  ASSUME NEW R, NEW q \in Seq(R), NEW S, \A i \in 1..Len(q) : q[i] \notin S
  PROVE  Selected(q, S) = <<>>
<1>1. Len(q) \in Nat /\ 0 \in 0..Len(q)
  OBVIOUS
<1>2. \A i \in 1..Len(q) : q[i] \in S <=> i <= 0
  <2>1. \A i \in 1..Len(q) : ~(i <= 0)
    BY <1>1
  <2>2. QED BY <2>1
<1>3. Selected(q, S) = SubSeq(q, 1, 0)
  BY <1>1, <1>2, SelectedFirst
<1>4. SubSeq(q, 1, 0) = <<>>
  OBVIOUS
<1>5. QED BY <1>3, <1>4

\* What an artifact offers, before and after a step.
LEMMA Offered ==
  /\ Available = [a \in Artifacts |-> Selected(builds[a], Present)]
  /\ Available' = [a \in Artifacts |-> Selected(builds'[a], Present')]
BY DEF Available, Present

\* It stays while the rows and their payloads do.
LEMMA OfferedStays ==
  ASSUME Typed, NEW a \in Artifacts, builds'[a] = builds[a],
         \A b \in Range(builds[a]) : files'[b] = files[b]
  PROVE  Available'[a] = Available[a]
<1>1. builds[a] \in Seq(Runs)
  BY DEF Typed, Shapes
<1>2. \A i \in DOMAIN builds[a] : builds[a][i] \in Present <=> builds[a][i] \in Present'
  <2>1. \A i \in DOMAIN builds[a] : builds[a][i] \in Range(builds[a]) /\ builds[a][i] \in Runs
    BY <1>1 DEF Range
  <2>2. QED BY <2>1 DEF Present
<1>3. Selected(builds[a], Present) = Selected(builds[a], Present')
  BY <1>2, SelectedSame
<1>4. QED BY <1>3, Offered

\* All of it.
LEMMA AllStays ==
  ASSUME Typed, UNCHANGED builds, \A b \in Rows : files'[b] = files[b]
  PROVE  Available' = Available
<1>1. \A a \in Artifacts : Available'[a] = Available[a]
  BY OfferedStays, RowsAreRuns
<1>2. QED BY <1>1, Offered

\* The payload of a run that is not over is of no row.
LEMMA RunStepOffers ==
  ASSUME NEW s, IInv(s), NEW r \in Runs,
         \/ Launch(r) \/ CommandEnds(r) \/ CaptureBegins(r) \/ CaptureEnds(r) \/ CancelCapture(r)
         \/ RemoveCapture(r) \/ InsertFails(r) \/ EvictAndFinish(r) \/ Stop(r)
  PROVE  Available' = Available
<1>1. Typed /\ files \in [Runs -> {"none", "partial", "whole"}] /\ Rows \subseteq Runs
  BY RowsAreRuns DEF IInv, One, Typed, Shapes
<1>2. CASE Launch(r) \/ CommandEnds(r) \/ CancelCapture(r) \/ InsertFails(r) \/ Stop(r)
  BY <1>1, <1>2, AllStays DEF Launch, CommandEnds, CancelCapture, InsertFails, Stop, store
<1>3. CASE CaptureBegins(r) \/ CaptureEnds(r) \/ RemoveCapture(r)
  <2>1. UNCHANGED builds /\ phase[r] \notin Over
    BY <1>3 DEF CaptureBegins, CaptureEnds, RemoveCapture, store, Over
  <2>2. r \notin Rows
    BY <1>1, <2>1 DEF Typed, RunsTyped
  <2>3. \A b \in Runs : b # r => files'[b] = files[b]
    <3>1. CASE Without({r})
      BY <1>1, <3>1, WithoutIsFiles
    <3>2. CASE UNCHANGED files
      BY <3>2
    <3>3. CASE \E v : files' = [files EXCEPT ![r] = v]
      BY <1>1, <3>3
    <3>4. QED BY <1>3, <3>1, <3>2, <3>3 DEF CaptureBegins, CaptureEnds, RemoveCapture
  <2>4. \A b \in Rows : files'[b] = files[b]
    BY <1>1, <2>2, <2>3
  <2>5. QED BY <1>1, <2>1, <2>4, AllStays
<1>4. CASE EvictAndFinish(r)
  <2>1. UNCHANGED builds /\ Without(obsolete[r])
    BY <1>4 DEF EvictAndFinish, store
  <2>2. \A b \in obsolete[r] : b \notin Rows
    BY <1>1 DEF Typed, RunsTyped
  <2>3. \A b \in Rows : files'[b] = files[b]
    BY <1>1, <2>1, <2>2, WithoutIsFiles
  <2>4. QED BY <1>1, <2>1, <2>3, AllStays
<1>5. QED BY <1>2, <1>3, <1>4

\* InsertBuild publishes the build, or, of a repository whose directory is gone, nothing.
LEMMA InsertPublishes ==
  ASSUME NEW s, IInv(s), NEW r \in Runs, InsertBuild(r)
  PROVE  [History!Next]_Available
<1> DEFINE a   == run[r].artifact
           all == NewestFirst(r, a)
<1>1. /\ phase[r] = "captured" /\ Exists(a) /\ UNCHANGED files
      /\ builds' = [builds EXCEPT ![a] = Kept(all)]
  BY DEF InsertBuild
<1>2. /\ Typed /\ One(s) /\ RunOK(s, r) /\ builds \in [Artifacts -> Seq(Runs)] /\ a \in Artifacts
      /\ r \notin Rows
  BY <1>1, RunKnown DEF IInv, One, OneOK, Typed, Shapes, RunsTyped, Over
<1>3. Whole(r) \/ \A b \in Range(builds[a]) : ~Whole(b)
  BY <1>1, <1>2 DEF RunOK
<1> HIDE DEF a
<1>4. \A x \in Artifacts : x # a => Available'[x] = Available[x]
  BY <1>1, <1>2, OfferedStays
<1>5. Present' = Present
  BY <1>1 DEF Present
<1>6. /\ all \in Seq(Runs) /\ all # <<>> /\ all[1] = r /\ Len(builds[a]) \in Nat
      /\ Len(all) = Len(builds[a]) + 1
      /\ \A i \in 2..Len(all) : i - 1 \in 1..Len(builds[a]) /\ all[i] = builds[a][i - 1]
  BY <1>2, NewestRows
<1> HIDE DEF all
<1>7. PICK m \in 1..Len(all) : /\ m <= MaxRetained /\ (Len(all) <= MaxRetained => m = Len(all))
                               /\ Kept(all) \in Seq(Runs) /\ Len(Kept(all)) = m
                               /\ \A i \in 1..m : Kept(all)[i] = all[i]
  BY <1>6, KeptFirst
<1>8. m = IF Len(all) > MaxRetained THEN MaxRetained ELSE Len(all)
  <2>1. Kept(all) = SubSeq(all, 1, IF Len(all) > MaxRetained THEN MaxRetained ELSE Len(all))
    BY DEF Kept
  <2>2. (IF Len(all) > MaxRetained THEN MaxRetained ELSE Len(all)) \in 0..Len(all)
    BY <1>6
  <2>3. QED BY <1>6, <1>7, <2>1, <2>2, Beginning
<1>9. builds'[a] = Kept(all)
  BY <1>1, <1>2
<1>10. Available'[a] = Selected(Kept(all), Present) /\ Available[a] = Selected(builds[a], Present)
  BY <1>2, <1>5, <1>9, Offered
<1>11. \A i \in 1..m : i \in 1..Len(all) /\ (i = 1 \/ i \in 2..Len(all)) /\ i \in Nat
  BY <1>6, <1>7
<1>12. CASE ~Whole(r)
  <2>1. \A i \in 1..Len(builds[a]) : builds[a][i] \notin Present
    <3>1. \A i \in 1..Len(builds[a]) : builds[a][i] \in Range(builds[a])
      BY <1>2 DEF Range
    <3>2. QED BY <1>3, <1>12, <3>1 DEF Present, Whole
  <2>2. Available[a] = <<>>
    BY <1>2, <1>10, <2>1, SelectedNone
  <2>3. \A i \in 1..m : all[i] \notin Present
    BY <1>6, <1>11, <1>12, <2>1 DEF Present, Whole
  <2>4. \A i \in 1..Len(Kept(all)) : Kept(all)[i] \notin Present
    BY <1>7, <2>3
  <2>5. Available'[a] = <<>>
    BY <1>7, <1>10, <2>4, SelectedNone
  <2>6. Available' = Available
    BY <1>4, <2>2, <2>5, Offered
  <2>7. QED BY <2>6
<1>13. CASE Whole(r)
  <2>1. PICK k \in 0..Len(builds[a]) :
           /\ \A i \in 1..Len(builds[a]) : builds[a][i] \in Present <=> i <= k
           /\ Selected(builds[a], Present) = SubSeq(builds[a], 1, k)
    BY <1>2, WholeOnes DEF Present
  <2> DEFINE j == IF k + 1 > MaxRetained THEN MaxRetained ELSE k + 1
             new == <<r>> \o Available[a]
  <2>2. k \in Nat /\ k <= Len(builds[a]) /\ MaxRetained \in Nat \ {0}
    BY <1>6
  <2>3. j \in 1..m /\ j <= k + 1 /\ (j < m => j = k + 1)
    BY <1>6, <1>8, <2>2
  <2>4. \A i \in 1..m : all[i] \in Present <=> i <= j
    <3>1. SUFFICES ASSUME NEW i \in 1..m
                   PROVE  all[i] \in Present <=> i <= j
      OBVIOUS
    <3>2. CASE i = 1
      BY <1>6, <1>13, <2>3, <3>2 DEF Present, Whole
    <3>3. CASE i \in 2..Len(all)
      <4>1. all[i] \in Present <=> i - 1 <= k
        BY <1>6, <2>1, <3>3
      <4>2. i <= j <=> i - 1 <= k
        BY <1>7, <2>2, <2>3, <3>1
      <4>3. QED BY <4>1, <4>2
    <3>4. QED BY <1>11, <3>1, <3>2, <3>3
  <2> HIDE DEF j
  <2>5. \A i \in 1..Len(Kept(all)) : Kept(all)[i] \in Present <=> i <= j
    BY <1>7, <2>4
  <2>6. Available'[a] = SubSeq(Kept(all), 1, j)
    <3>1. j \in 0..Len(Kept(all))
      BY <1>7, <2>3
    <3>2. QED BY <1>7, <1>10, <2>5, <3>1, SelectedFirst
  <2>7. /\ Available[a] \in Seq(Runs) /\ Len(Available[a]) = k
        /\ \A i \in 1..k : Available[a][i] = builds[a][i]
    <3>1. Available[a] = SubSeq(builds[a], 1, k) /\ builds[a] \in Seq(Runs)
      BY <1>2, <1>10, <2>1
    <3>2. QED BY <3>1, Beginning
  <2>8. /\ new \in Seq(Runs) /\ Len(new) = k + 1 /\ new[1] = r
        /\ \A i \in 1..k : new[i + 1] = Available[a][i]
    BY <2>2, <2>7
  <2> HIDE DEF new
  <2>9. \A i \in 1..j : new[i] = all[i]
    <3>1. SUFFICES ASSUME NEW i \in 1..j
                   PROVE  new[i] = all[i]
      OBVIOUS
    <3>2. i \in Nat /\ (i = 1 \/ (i \in 2..Len(all) /\ i - 1 \in 1..k /\ (i - 1) + 1 = i))
      BY <1>6, <2>2, <2>3
    <3>3. CASE i = 1
      BY <1>6, <2>8, <3>3
    <3>4. CASE i \in 2..Len(all) /\ i - 1 \in 1..k /\ (i - 1) + 1 = i
      BY <1>6, <2>7, <2>8, <3>4
    <3>5. QED BY <3>2, <3>3, <3>4
  <2>10. SubSeq(new, 1, j) = SubSeq(Kept(all), 1, j)
    <3>1. j \in 0..Len(new) /\ j \in 0..Len(Kept(all)) /\ j \in Nat
      BY <1>7, <2>2, <2>3, <2>8
    <3>2. /\ SubSeq(new, 1, j) \in Seq(Runs) /\ Len(SubSeq(new, 1, j)) = j
          /\ \A i \in 1..j : SubSeq(new, 1, j)[i] = new[i]
      BY <2>8, <3>1, Beginning
    <3>3. /\ SubSeq(Kept(all), 1, j) \in Seq(Runs) /\ Len(SubSeq(Kept(all), 1, j)) = j
          /\ \A i \in 1..j : SubSeq(Kept(all), 1, j)[i] = Kept(all)[i]
      BY <1>7, <3>1, Beginning
    <3>4. \A i \in 1..j : SubSeq(new, 1, j)[i] = SubSeq(Kept(all), 1, j)[i]
      BY <1>7, <2>3, <2>9, <3>2, <3>3
    <3>5. QED BY <3>2, <3>3, <3>4, SeqEqual
  <2>11. History!Newest(new) = SubSeq(new, 1, j)
    BY <2>8 DEF History!Newest, j
  <2>12. Available'[a] = History!Newest(<<r>> \o Available[a])
    BY <2>6, <2>10, <2>11 DEF new
  <2>13. Available' = [Available EXCEPT ![a] = History!Newest(<<r>> \o @)]
    BY <1>4, <2>12, Offered
  <2>14. \A x \in Artifacts : r \notin Range(Available[x])
    <3>1. SUFFICES ASSUME NEW x \in Artifacts
                   PROVE  r \notin Range(Available[x])
      OBVIOUS
    <3>2. Available[x] = Selected(builds[x], Present) /\ builds[x] \in Seq(Runs)
      BY <1>2, Offered
    <3>3. Range(Available[x]) \subseteq Range(builds[x])
      BY <3>2, SelectedIn
    <3>4. QED BY <1>2, <3>3, RowsAreRuns
  <2>15. History!Publish(a, r)
    BY <2>13, <2>14 DEF History!Publish, History!Range, Range
  <2>16. QED BY <1>2, <2>15 DEF History!Next
<1>14. QED BY <1>12, <1>13

\* What one process withdraws: the builds of an artifact that is deleted, and everything when the
\* repository goes; the start-up takes no row whose payload is there.
LEMMA RemovalsWithdraw ==
  ASSUME NEW s, IInv(s),
         \/ \E a \in Artifacts : DeleteDefinition(s, a)
         \/ DeleteRepositoryFiles(s) \/ ForgetRow(s)
  PROVE  \E removed \in SUBSET Artifacts : History!Withdraw(removed)
<1>1. Typed /\ One(s) /\ builds \in [Artifacts -> Seq(Runs)]
  BY DEF IInv, One, Typed, Shapes
<1>2. \A S : Selected(<<>>, S) = <<>>
  <2>1. <<>> \in Seq(Runs)
    OBVIOUS
  <2>2. QED BY <2>1, SelectedIn
<1>3. ASSUME NEW a \in Artifacts, DeleteDefinition(s, a)
      PROVE  History!Withdraw({a})
  <2>1. builds' = [builds EXCEPT ![a] = <<>>] /\ UNCHANGED files
    BY <1>3 DEF DeleteDefinition
  <2>2. Available'[a] = <<>>
    BY <1>1, <1>2, <2>1, Offered
  <2>3. \A x \in Artifacts : x # a => Available'[x] = Available[x]
    BY <1>1, <2>1, OfferedStays
  <2>4. Available' = [x \in Artifacts |-> IF x \in {a} THEN <<>> ELSE Available[x]]
    BY <2>2, <2>3, Offered
  <2>5. QED BY <2>4 DEF History!Withdraw
<1>4. CASE DeleteRepositoryFiles(s) \/ ForgetRow(s)
  <2>1. \A x \in Artifacts : Available'[x] = <<>>
    <3>1. SUFFICES ASSUME NEW x \in Artifacts
                   PROVE  Selected(builds'[x], Present') = <<>>
      BY Offered
    <3>2. CASE DeleteRepositoryFiles(s)
      <4>1. UNCHANGED builds /\ \A b \in Runs : files'[b] = "none"
        BY <1>1, <3>2, WithoutIsFiles DEF DeleteRepositoryFiles, store
      <4>2. builds'[x] \in Seq(Runs) /\ Present' = {}
        BY <1>1, <4>1 DEF Present
      <4>3. QED BY <4>2, SelectedNone
    <3>3. CASE ForgetRow(s)
      BY <1>2, <3>3 DEF ForgetRow
    <3>4. QED BY <1>4, <3>2, <3>3
  <2>2. Available' = [x \in Artifacts |-> IF x \in Artifacts THEN <<>> ELSE Available[x]]
    BY <2>1, Offered
  <2>3. History!Withdraw(Artifacts)
    BY <2>2 DEF History!Withdraw
  <2>4. QED BY <2>3
<1>5. QED BY <1>3, <1>4

\* The other steps of a process.
LEMMA ServerStepOffers ==
  ASSUME NEW s, IInv(s),
         \/ RemoveOrphans(s) \/ DeleteMissing(s) \/ Boot(s) \/ Crash(s) \/ ForgetRepository(s)
         \/ \E a \in Artifacts : DeleteArtifactFiles(s, a) \/ CreateDefinition(s, a)
         \/ \E a \in Artifacts : \E revision \in 1..MaxRevision : UpdateDefinition(s, a, revision)
         \/ \E a \in Artifacts, r \in Runs : Request(s, r, a)
  PROVE  Available' = Available
<1>1. Typed /\ One(s) /\ builds \in [Artifacts -> Seq(Runs)] /\ Rows \subseteq Runs
  BY RowsAreRuns DEF IInv, One, Typed, Shapes
<1>2. CASE UNCHANGED <<builds, files>>
  BY <1>1, <1>2, AllStays
<1>3. CASE RemoveOrphans(s)
  <2>1. UNCHANGED builds /\ Without(Orphans(s)) /\ expected[s] = Rows
    BY <1>1, <1>3 DEF RemoveOrphans, store, One, OneOK, StartUp
  <2>2. \A b \in Rows : b \notin Orphans(s)
    BY <2>1 DEF Orphans
  <2>3. \A b \in Rows : files'[b] = files[b]
    BY <1>1, <2>1, <2>2, WithoutIsFiles
  <2>4. QED BY <1>1, <2>1, <2>3, AllStays
<1>4. ASSUME NEW a \in Artifacts, DeleteArtifactFiles(s, a)
      PROVE  Available' = Available
  <2>1. UNCHANGED builds /\ Without(RunsOf(a)) /\ a \in removing[s]
    BY <1>4 DEF DeleteArtifactFiles, store
  <2>2. builds[a] = <<>>
    <3>1. definition[a] = Removed /\ Removed \notin 1..MaxRevision
      BY <1>1, <2>1, ArtifactAssumption DEF One, OneOK
    <3>2. QED BY <1>1, <3>1 DEF Typed, RowsOK, Exists
  <2>3. \A b \in Rows : b \notin RunsOf(a)
    <3>1. SUFFICES ASSUME NEW x \in Artifacts, NEW b \in Range(builds[x])
                   PROVE  b \notin RunsOf(a)
      BY <1>1, RowsAreRuns
    <3>2. run[b].artifact = x /\ x # a
      BY <1>1, <2>2, <3>1 DEF Typed, RowsOK, Range
    <3>3. QED BY <3>2 DEF RunsOf
  <2>4. \A b \in Rows : files'[b] = files[b]
    BY <1>1, <2>1, <2>3, WithoutIsFiles
  <2>5. QED BY <1>1, <2>1, <2>4, AllStays
<1>5. CASE DeleteMissing(s)
  <2>1. ASSUME NEW a \in Artifacts
        PROVE  Available'[a] = Available[a]
    <3>1. PICK k \in 0..Len(builds[a]) :
             /\ \A i \in 1..Len(builds[a]) : files[builds[a][i]] = "whole" <=> i <= k
             /\ builds'[a] = SubSeq(builds[a], 1, k)
             /\ Selected(builds[a], Present) = SubSeq(builds[a], 1, k)
      BY <1>1, <1>5, DeleteMissingRows DEF Present
    <3>2. builds[a] \in Seq(Runs)
      BY <1>1
    <3>3. /\ builds'[a] \in Seq(Runs) /\ Len(builds'[a]) = k /\ k \in Nat
          /\ \A i \in 1..k : i \in 1..Len(builds[a]) /\ builds'[a][i] = builds[a][i]
      BY <3>1, <3>2, Beginning
    <3>4. \A i \in 1..k : builds'[a][i] \in Rows /\ files[builds'[a][i]] = "whole"
      <4>1. \A i \in 1..Len(builds[a]) : builds[a][i] \in Rows
        BY <1>1, RowsAreRuns DEF Range
      <4>2. QED BY <3>1, <3>3, <4>1
    <3>5. \A i \in 1..Len(builds'[a]) : builds'[a][i] \in Present' <=> i <= k
      <4>1. \A i \in 1..k : builds'[a][i] \in Runs /\ files'[builds'[a][i]] = "whole" /\ i <= k
        BY <1>1, <1>5, <3>3, <3>4, DeleteMissingRows
      <4>2. QED BY <3>3, <4>1 DEF Present
    <3>6. k \in 0..Len(builds'[a])
      BY <3>3
    <3>7. Selected(builds'[a], Present') = SubSeq(builds'[a], 1, k)
      BY <3>3, <3>5, <3>6, SelectedFirst
    <3>8. SubSeq(builds'[a], 1, k) = builds'[a]
      <4>1. /\ SubSeq(builds'[a], 1, k) \in Seq(Runs) /\ Len(SubSeq(builds'[a], 1, k)) = k
            /\ \A i \in 1..k : SubSeq(builds'[a], 1, k)[i] = builds'[a][i]
        BY <3>3, <3>6, Beginning
      <4>2. QED BY <3>3, <4>1, SeqEqual
    <3>9. QED BY <3>1, <3>7, <3>8, Offered
  <2>2. QED BY <2>1, Offered
<1>6. Boot(s) \/ Crash(s) \/ ForgetRepository(s) => UNCHANGED <<builds, files>>
  BY DEF Boot, Crash, ForgetRepository, store
<1>7. \A a \in Artifacts : CreateDefinition(s, a) => UNCHANGED <<builds, files>>
  BY DEF CreateDefinition
<1>8. \A a \in Artifacts : \A revision \in 1..MaxRevision : UpdateDefinition(s, a, revision) => UNCHANGED <<builds, files>>
  BY DEF UpdateDefinition
<1>9. \A a \in Artifacts, r \in Runs : Request(s, r, a) => UNCHANGED <<builds, files>>
  BY DEF Request, store
<1>10. QED BY <1>2, <1>3, <1>4, <1>5, <1>6, <1>7, <1>8, <1>9

\* Every step maps to a step of the history, or to none.
LEMMA NextHistory ==
  ASSUME NEW s, IInv(s), [Next]_vars
  PROVE  [History!Next]_Available
<1>1. Typed /\ Servers = {s}
  BY DEF IInv, One
<1>2. CASE UNCHANGED vars
  <2>1. UNCHANGED <<builds, files>>
    BY <1>2 DEF vars, store
  <2>2. QED BY <1>1, <2>1, AllStays
<1>3. ASSUME NEW r \in Runs, RunStep(r) \/ Stop(r) \/ CommandEnds(r)
      PROVE  [History!Next]_Available
  <2>1. CASE InsertBuild(r)
    BY <2>1, InsertPublishes
  <2>2. CASE ~InsertBuild(r)
    <3>1. \/ Launch(r) \/ CommandEnds(r) \/ CaptureBegins(r) \/ CaptureEnds(r) \/ CancelCapture(r)
          \/ RemoveCapture(r) \/ InsertFails(r) \/ EvictAndFinish(r) \/ Stop(r)
      BY <1>3, <2>2 DEF RunStep
    <3>2. Available' = Available
      BY <3>1, RunStepOffers
    <3>3. QED BY <3>2
  <2>3. QED BY <2>1, <2>2
<1>4. CASE (\E a \in Artifacts : DeleteDefinition(s, a)) \/ DeleteRepositoryFiles(s) \/ ForgetRow(s)
  <2>1. \E removed \in SUBSET Artifacts : History!Withdraw(removed)
    BY <1>4, RemovalsWithdraw
  <2>2. QED BY <2>1 DEF History!Next
<1>5. CASE \/ RemoveOrphans(s) \/ DeleteMissing(s) \/ Boot(s) \/ Crash(s) \/ ForgetRepository(s)
           \/ \E a \in Artifacts : DeleteArtifactFiles(s, a) \/ CreateDefinition(s, a)
           \/ \E a \in Artifacts : \E revision \in 1..MaxRevision : UpdateDefinition(s, a, revision)
           \/ \E a \in Artifacts, r \in Runs : Request(s, r, a)
  <2>1. Available' = Available
    BY <1>5, ServerStepOffers
  <2>2. QED BY <2>1
<1>6. ASSUME ServerStep(s) \/ UserStep(s)
      PROVE  [History!Next]_Available
  BY <1>4, <1>5, <1>6 DEF ServerStep, UserStep
<1>7. QED BY <1>1, <1>2, <1>3, <1>6 DEF Next

\* At first nothing can be downloaded.
LEMMA InitHistory ==
  Init => History!Init
<1> SUFFICES ASSUME Init
             PROVE  Available = [a \in Artifacts |-> <<>>]
  BY DEF History!Init
<1>1. <<>> \in Seq(Runs)
  OBVIOUS
<1>2. \A a \in Artifacts : Selected(builds[a], Present) = <<>>
  BY <1>1, SelectedIn DEF Init
<1>3. QED BY <1>2, Offered

-----------------------------------------------------------------------------
(* The theorems of one server process.                                     *)

\* A server that answers requests lists no build without its payload, whatever failed or crashed
\* between the two, unless the repository is being removed.
THEOREM BuildsKeepTheirPayload ==
  ASSUME NEW s, Servers = {s}
  PROVE  Spec => []BuildsHavePayload
<1>1. IInv(s) /\ TypeOK => BuildsHavePayload
  <2>1. SUFFICES ASSUME IInv(s), TypeOK
                 PROVE  BuildsHavePayload
    OBVIOUS
  <2>2. Typed /\ OneOK(s) /\ Servers = {s}
    BY <2>1 DEF IInv, One
  <2>3. server[s] = "serving" /\ forgetting[s] = "no" => \A b \in Rows : files[b] = "whole"
    BY <2>2 DEF OneOK, RowsWhole, Whole
  <2>4. QED BY <2>1, <2>2, <2>3 DEF BuildsHavePayload
<1>2. QED BY <1>1, OneProcess, ArtifactTypes, PTL

\* Every payload in the directory has a reason: a row, a run at work, an eviction or a removal
\* under way, or a start-up to come; left behind are those of a run whose database failed, and, of
\* a forgotten repository, of an artifact that was started while the repository was being removed.
THEOREM PayloadsHaveReasons ==
  ASSUME NEW s, Servers = {s}
  PROVE  Spec => []PayloadsAccounted
<1>1. IInv(s) /\ Removal(s) => PayloadsAccounted
  <2>1. SUFFICES ASSUME IInv(s), Removal(s), NEW b \in Runs, files[b] # "none"
                 PROVE  Accounted(b)
    BY DEF PayloadsAccounted
  <2>2. CASE registered
    BY <2>1, <2>2 DEF IInv, KnownAccounted, Reason, Accounted
  <2>3. CASE ~registered
    BY <2>1, <2>3 DEF Removal, AtEnd, Accounted
  <2>4. QED BY <2>2, <2>3
<1>2. Init => Removal(s)
  BY DEF Init, Removal
<1>3. IInv(s) /\ Removal(s) /\ [Next]_vars => Removal(s)'
  BY NextRemoval
<1>4. QED BY <1>1, <1>2, <1>3, OneProcess, PTL DEF Spec

\* What can be downloaded behaves as ArtifactHistory says: a build comes to be available once, as
\* the newest, and leaves when newer ones replace it or the artifact goes.
THEOREM HistoryIsKept ==
  ASSUME NEW s, Servers = {s}
  PROVE  Spec => HistoryKept
<1>1. Init => History!Init
  BY InitHistory
<1>2. IInv(s) /\ [Next]_vars => [History!Next]_Available
  BY NextHistory
<1>3. Spec => []IInv(s)
  BY OneProcess
<1>4. QED BY <1>1, <1>2, <1>3, PTL DEF Spec, HistoryKept, History!Spec
=============================================================================
