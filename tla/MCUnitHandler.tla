--------------------------- MODULE MCUnitHandler ---------------------------
(***************************************************************************)
(* Small instances of UnitHandler for TLC.                                 *)
(***************************************************************************)
EXTENDS UnitHandler
=============================================================================
