--------------------------- MODULE MCReviewMarks ---------------------------
(* Small instances of ReviewMarks for TLC. *)
EXTENDS ReviewMarks

CONSTANTS c1, c2, f1, f2
=============================================================================
