------------------------- MODULE MCTerminalTransport -------------------------
(***************************************************************************)
(* TerminalTransport for TLC.                                              *)
(***************************************************************************)
EXTENDS TerminalTransport
=============================================================================
