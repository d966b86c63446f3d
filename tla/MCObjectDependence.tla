------------------------- MODULE MCObjectDependence -------------------------
(***************************************************************************)
(* Small instances of ObjectDependence for TLC.                            *)
(***************************************************************************)
EXTENDS ObjectDependence, TLC

Symmetry == Permutations(Objects) \cup Permutations(Types)
=============================================================================
