---------------------------- MODULE MCRemoteBridge ----------------------------
(***************************************************************************)
(* RemoteBridge for TLC.                                                   *)
(***************************************************************************)
EXTENDS RemoteBridge
=============================================================================
