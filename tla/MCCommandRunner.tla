-------------------------- MODULE MCCommandRunner --------------------------
(* Small instances of CommandRunner for TLC. *)
EXTENDS CommandRunner, TLC

CONSTANTS r1, r2, r3, packages, artifacts, k1, k2, s1, s2

\* Runs, keys and streams differ in nothing but their name.
MCSymmetry == Permutations(Runs) \cup Permutations(Keys) \cup Permutations(Streams)
=============================================================================
