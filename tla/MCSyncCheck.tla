---------------------------- MODULE MCSyncCheck ----------------------------
(***************************************************************************)
(* Small instances of SyncCheck for TLC.                                   *)
(***************************************************************************)
EXTENDS SyncCheck

NoLocalClient == -1
NewGame == -1
=============================================================================
