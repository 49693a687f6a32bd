--------------------------- MODULE MCServerEvents ---------------------------
(* Small instances of ServerEvents for TLC. *)
EXTENDS ServerEvents

CONSTANTS c1, c2
=============================================================================
