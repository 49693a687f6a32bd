--------------------------- MODULE ArtifactHistory ---------------------------
(***************************************************************************)
(* What Couchview promises of an artifact's builds: the latest successful  *)
(* snapshots, newest first, stay available until newer ones replace them   *)
(* or the artifact is removed.                                             *)
(***************************************************************************)
EXTENDS Sequences, Naturals, Functions

CONSTANTS Artifacts, Builds, MaxRetained

VARIABLE history   \* the builds of each artifact that can be downloaded

Init == history = [a \in Artifacts |-> <<>>]

\* At most the first MaxRetained elements.
Newest(s) == SubSeq(s, 1, IF Len(s) > MaxRetained THEN MaxRetained ELSE Len(s))

Publish(a, b) ==
  /\ \A other \in Artifacts : b \notin Range(history[other])
  /\ history' = [history EXCEPT ![a] = Newest(<<b>> \o @)]

\* An artifact, or a whole repository with its artifacts, is removed.
Withdraw(removed) ==
  history' = [a \in Artifacts |-> IF a \in removed THEN <<>> ELSE history[a]]

Next == \/ \E a \in Artifacts, b \in Builds : Publish(a, b)
        \/ \E removed \in SUBSET Artifacts : Withdraw(removed)

Spec == Init /\ [][Next]_history
=============================================================================
