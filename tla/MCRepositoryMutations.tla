----------------------- MODULE MCRepositoryMutations -----------------------
(* Small instances of RepositoryMutations for TLC. *)
EXTENDS RepositoryMutations, TLC

CONSTANTS r1, r2, r3, s1, s2, f1, f2

\* Requests differ in nothing but their name, and so do servers and files.
MCSymmetry == Permutations(Requests) \cup Permutations(Servers) \cup Permutations(Files)

Staging    == StageKinds
MostKinds  == AllKinds \ {"unstage"}
=============================================================================
