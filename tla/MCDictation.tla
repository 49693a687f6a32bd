---------------------------- MODULE MCDictation ----------------------------
(* Model constants for Dictation. *)
EXTENDS Dictation

MCRequests == Clients \X (1..MaxDictations)
=============================================================================
