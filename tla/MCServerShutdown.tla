-------------------------- MODULE MCServerShutdown --------------------------
(***************************************************************************)
(* Small instances of ServerShutdown for TLC.                              *)
(***************************************************************************)
EXTENDS ServerShutdown
=============================================================================
