----------------------------- MODULE MCArtifacts -----------------------------
(* Small instances of Artifacts for TLC. *)
EXTENDS Artifacts, TLC

CONSTANTS r1, r2, r3, a1, a2, s1, s2

\* Runs differ in nothing but their name.
MCSymmetry == Permutations(Runs)
=============================================================================
