--------------------------- MODULE SimObjectIDPool ---------------------------
(***************************************************************************)
(* The pool of ids for units and features (rts/Sim/Misc/SimObjectIDPool).  *)
(* The tables poolIDs, freeIDs and tempIDs are keyed by an index that is a *)
(* fixed random permutation of the ids, so the sets of ids stand for them; *)
(* an id that is extracted is the first of a hash table: any free one.     *)
(***************************************************************************)
EXTENDS Naturals

CONSTANTS NumIds   \* MAX_UNITS: ids the pool is expanded by

ASSUME NumIdsAssumption == NumIds \in Nat \ {0}

Ids == 0..(NumIds - 1)

VARIABLES
  freeIDs,  \* ids that can be assigned
  tempIDs   \* ids that were freed with delay and wait for freeIDs to run out

poolVars == <<freeIDs, tempIDs>>

Expand == freeIDs = Ids /\ tempIDs = {}

\* fault: the ids that wait are put back but go on waiting
TakeTwice(uid) ==
  LET rest == freeIDs \ {uid}
  IN  /\ freeIDs' = IF rest = {} THEN tempIDs ELSE rest
      /\ tempIDs' = tempIDs

\* ExtractID, ReserveID: the delayed ids come back when the last one is taken
Take(uid) ==
  LET rest == freeIDs \ {uid}
  IN  /\ freeIDs' = IF rest = {} THEN tempIDs ELSE rest
      /\ tempIDs' = IF rest = {} THEN {} ELSE tempIDs

\* fault: the object has given up its id before
FreeIDOfNone(uid) == tempIDs' = tempIDs \cup {NumIds} /\ UNCHANGED freeIDs

\* FreeID with delay, as both handlers call it
FreeID(uid) == tempIDs' = tempIDs \cup {uid} /\ UNCHANGED freeIDs

RecycleID(uid) ==
  /\ freeIDs' = freeIDs \cup ({uid} \cap tempIDs)
  /\ tempIDs' = tempIDs \ {uid}

HasID(uid) == uid \in freeIDs
IsEmpty == freeIDs = {}
=============================================================================
