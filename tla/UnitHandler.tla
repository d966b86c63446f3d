----------------------------- MODULE UnitHandler -----------------------------
(***************************************************************************)
(* The units of the simulation (rts/Sim/Units/UnitHandler.cpp): creation   *)
(* under an id of the pool, death, deletion one Update later or at once    *)
(* when a script asks for the id back, and the staggered slow updates.     *)
(*                                                                         *)
(* Update is cut where other code runs: its loops call unit code and Lua   *)
(* events, which may create and kill units at any point of it.  A unit is  *)
(* the cell of unitMemPool it lives in, so that a cell that is used again  *)
(* by a later unit can be told from its id.  Left out: teams and their     *)
(* limits, unitsByDefs, and all that a unit does.                          *)
(***************************************************************************)
EXTENDS SimObjectIDPool, Sequences

CONSTANTS
  Objects,       \* the cells of unitMemPool
  NoUnit,        \* nullptr
  MaxUnits,      \* units.size(): the sum of the unit limits of the teams
  SlowRate,      \* UNIT_SLOWUPDATE_RATE
  RecycleQueued  \* whether scripts ask for the id of a unit that waits for deletion

NoId == NumIds  \* -1 in the code: the id of no unit, and the wish for any id

ASSUME ObjectsAssumption == NoUnit \notin Objects
ASSUME MaxUnitsAssumption == MaxUnits \in Nat /\ RecycleQueued \in BOOLEAN
ASSUME SlowRateAssumption == SlowRate \in Nat \ {0}

VARIABLES
  units,                 \* by id
  activeUnits,
  unitsToBeRemoved,
  id,                    \* by cell; NoId while the cell is free
  isDead,                \* the units that were killed
  deathScriptFinished,   \* the units whose death script is through
  activeUpdateUnit,      \* units the loop of QueueDeleteUnits is through with
  activeSlowUpdateUnit,  \* units slow-updated in this round
  batch,                 \* units left to slow-update in this frame
  frame,                 \* gs->frameNum % SlowRate
  phase,                 \* the loop Update or GarbageCollectUnit is in, or idle
  collected,             \* the id GarbageCollectUnit is called for
  slowed                 \* history: the units slow-updated in this round

deletion == <<activeUnits, unitsToBeRemoved, id, units, isDead, deathScriptFinished, poolVars>>
rounds   == <<activeSlowUpdateUnit, batch, frame, slowed>>
vars     == <<deletion, activeUpdateUnit, rounds, phase, collected>>

Phases == {"idle", "collecting", "deleting", "queueing", "queued", "slow"}
Active == {activeUnits[i] : i \in 1..Len(activeUnits)}
Queued == {unitsToBeRemoved[i] : i \in 1..Len(unitsToBeRemoved)}

Init ==
  /\ Expand
  /\ units = [uid \in Ids |-> NoUnit] /\ id = [o \in Objects |-> NoId]
  /\ activeUnits = <<>> /\ unitsToBeRemoved = <<>>
  /\ isDead = {} /\ deathScriptFinished = {} /\ slowed = {}
  /\ activeUpdateUnit = 0 /\ activeSlowUpdateUnit = 0 /\ batch = 0 /\ frame = 0
  /\ phase = "idle" /\ collected = NoId

-----------------------------------------------------------------------------
(* What may happen to units at any point of the frame *)

\* fault: the table of the units is not asked
CanAddUnitByIndex(wish) == IF wish = NoId THEN ~IsEmpty ELSE wish < MaxUnits

CanAddUnit(wish) ==
  IF wish = NoId THEN ~IsEmpty
  ELSE wish < MaxUnits /\ units[wish] = NoUnit /\ HasID(wish)

\* LoadUnit, AddUnit: a new unit o, under the id that is wished for
LoadUnit(o, wish) ==
  /\ id[o] = NoId /\ CanAddUnit(wish)
  /\ \E uid \in (IF wish = NoId THEN freeIDs ELSE {wish}) :
       /\ Take(uid)
       /\ id' = [id EXCEPT ![o] = uid]
       /\ units' = [units EXCEPT ![uid] = o]
  /\ activeUnits' = Append(activeUnits, o)
  /\ UNCHANGED <<unitsToBeRemoved, isDead, deathScriptFinished, activeUpdateUnit,
                 rounds, phase, collected>>

\* fault: a unit that is killed again starts its death anew
KillAgain(o, finished) ==
  /\ isDead' = isDead \cup {o}
  /\ deathScriptFinished' =
       IF finished THEN deathScriptFinished \cup {o} ELSE deathScriptFinished \ {o}

\* ForcedKillUnit: no death sequence is shown, or its script is over at once,
\* when finished
Kill(o, finished) ==
  IF o \in isDead THEN UNCHANGED <<isDead, deathScriptFinished>>
  ELSE /\ isDead' = isDead \cup {o}
       /\ deathScriptFinished' =
            IF finished THEN deathScriptFinished \cup {o} ELSE deathScriptFinished \ {o}

ForcedKillUnit(o, finished) ==
  /\ o \in Active /\ Kill(o, finished)
  /\ UNCHANGED <<activeUnits, unitsToBeRemoved, id, units, poolVars, activeUpdateUnit,
                 rounds, phase, collected>>

\* KilledScriptFinished, which may be called for a unit that lives
KilledScriptFinished(o) ==
  /\ o \in Active \ deathScriptFinished
  /\ deathScriptFinished' = deathScriptFinished \cup {o}
  /\ UNCHANGED <<activeUnits, unitsToBeRemoved, id, units, isDead, poolVars,
                 activeUpdateUnit, rounds, phase, collected>>

-----------------------------------------------------------------------------
(* Deletion *)

\* s without its element p
Erase(s, p) == [i \in 1..(Len(s) - 1) |-> IF i < p THEN s[i] ELSE s[i + 1]]

Position(o) == CHOOSE p \in 1..Len(activeUnits) : activeUnits[p] = o

\* fault: the round starts anew
StepBackToStart(p) == IF activeSlowUpdateUnit >= p THEN 0 ELSE activeSlowUpdateUnit

\* the iterator of the slow updates, when the unit at p is erased
StepBack(p) == IF activeSlowUpdateUnit >= p THEN activeSlowUpdateUnit - 1
               ELSE activeSlowUpdateUnit

\* DeleteUnit: a unit that is not found is left alone
DeleteUnit(o) ==
  IF o \in Active
  THEN /\ activeSlowUpdateUnit' = StepBack(Position(o))
       /\ activeUnits' = Erase(activeUnits, Position(o))
       /\ FreeID(id[o])
       /\ units' = [units EXCEPT ![id[o]] = NoUnit]
       /\ id' = [id EXCEPT ![o] = NoId]
       /\ isDead' = isDead \ {o}
       /\ deathScriptFinished' = deathScriptFinished \ {o}
       /\ slowed' = slowed \ {o}
  ELSE UNCHANGED <<activeSlowUpdateUnit, activeUnits, poolVars, units, id, isDead,
                   deathScriptFinished, slowed>>

\* the loop of DeleteUnits, called by Update and GarbageCollectUnit
DeleteNext ==
  /\ phase \in {"deleting", "collecting"} /\ unitsToBeRemoved # <<>>
  /\ DeleteUnit(unitsToBeRemoved[Len(unitsToBeRemoved)])
  /\ unitsToBeRemoved' = SubSeq(unitsToBeRemoved, 1, Len(unitsToBeRemoved) - 1)
  /\ UNCHANGED <<activeUpdateUnit, batch, frame, phase, collected>>

\* fault: a unit is queued without having been killed
QueueDeleteUnitAsIs(o) ==
  /\ unitsToBeRemoved' = Append(unitsToBeRemoved, o)
  /\ UNCHANGED <<isDead, deathScriptFinished>>

\* QueueDeleteUnit: "make sure we always call Killed"
QueueDeleteUnit(o) ==
  /\ unitsToBeRemoved' = Append(unitsToBeRemoved, o)
  /\ Kill(o, TRUE)

\* DestroyUnit with recycleID, outside of Update: the unit is killed and, when
\* its death is over already, deleted at once, with whatever else waits.  Nothing
\* in the code keeps a script from asking for a unit that waits itself, which is
\* RecycleQueued.  DestroyUnit is not called from within DestroyUnit.
GarbageCollectUnit(o, finished) ==
  /\ phase = "idle" /\ o \in Active
  /\ IF o \in isDead THEN o \in deathScriptFinished ELSE finished
  /\ RecycleQueued \/ o \notin Queued
  /\ QueueDeleteUnit(o)
  /\ phase' = "collecting" /\ collected' = id[o]
  /\ UNCHANGED <<activeUnits, id, units, poolVars, activeUpdateUnit, rounds>>

EndCollect ==
  /\ phase = "collecting" /\ unitsToBeRemoved = <<>>
  /\ RecycleID(collected)
  /\ phase' = "idle" /\ collected' = NoId
  /\ UNCHANGED <<activeUnits, unitsToBeRemoved, id, units, isDead, deathScriptFinished,
                 activeUpdateUnit, rounds>>

-----------------------------------------------------------------------------
(* Update *)

BeginUpdate ==
  /\ phase = "idle" /\ phase' = "deleting"
  /\ UNCHANGED <<deletion, activeUpdateUnit, rounds, collected>>

\* nothing is deleted any more; UpdateUnitMoveTypes, then QueueDeleteUnits
BeginQueue ==
  /\ phase = "deleting" /\ unitsToBeRemoved = <<>>
  /\ phase' = "queueing"
  /\ UNCHANGED <<deletion, activeUpdateUnit, rounds, collected>>

\* the loop of QueueDeleteUnits
QueueNext ==
  /\ phase = "queueing" /\ activeUpdateUnit < Len(activeUnits)
  /\ activeUpdateUnit' = activeUpdateUnit + 1
  /\ LET o == activeUnits[activeUpdateUnit + 1]
     IN  IF o \in deathScriptFinished THEN QueueDeleteUnit(o)
         ELSE UNCHANGED <<unitsToBeRemoved, isDead, deathScriptFinished>>
  /\ UNCHANGED <<activeUnits, id, units, poolVars, rounds, phase, collected>>

EndQueue ==
  /\ phase = "queueing" /\ activeUpdateUnit = Len(activeUnits)
  /\ phase' = "queued" /\ activeUpdateUnit' = 0
  /\ UNCHANGED <<deletion, rounds, collected>>

\* fault: rounded down to none when there are few units
BatchRoundedDown == Len(activeUnits) \div SlowRate

BatchSize == Len(activeUnits) \div SlowRate + 1

\* after UpdateUnitLosStates; a round starts every SlowRate frames
BeginSlowUpdate ==
  /\ phase = "queued" /\ phase' = "slow"
  /\ batch' = BatchSize
  /\ activeSlowUpdateUnit' = IF frame = 0 THEN 0 ELSE activeSlowUpdateUnit
  /\ slowed' = IF frame = 0 THEN {} ELSE slowed
  /\ UNCHANGED <<deletion, activeUpdateUnit, frame, collected>>

\* the loop of SlowUpdateUnits
SlowUpdateNext ==
  /\ phase = "slow" /\ batch # 0 /\ activeSlowUpdateUnit < Len(activeUnits)
  /\ activeSlowUpdateUnit' = activeSlowUpdateUnit + 1
  /\ batch' = batch - 1
  /\ slowed' = slowed \cup {activeUnits[activeSlowUpdateUnit + 1]}
  /\ UNCHANGED <<deletion, activeUpdateUnit, frame, phase, collected>>

\* UpdateUnits, UpdateUnitWeapons and the rest of the frame
EndUpdate ==
  /\ phase = "slow" /\ (batch = 0 \/ activeSlowUpdateUnit = Len(activeUnits))
  /\ phase' = "idle" /\ batch' = 0
  /\ frame' = (frame + 1) % SlowRate
  /\ UNCHANGED <<deletion, activeUpdateUnit, activeSlowUpdateUnit, slowed, collected>>

Update ==
  \/ BeginUpdate \/ DeleteNext \/ EndCollect \/ BeginQueue \/ QueueNext \/ EndQueue
  \/ BeginSlowUpdate \/ SlowUpdateNext \/ EndUpdate

Next ==
  \/ \E o \in Objects, wish \in Ids \cup {NoId} : LoadUnit(o, wish)
  \/ \E o \in Objects, finished \in BOOLEAN :
       ForcedKillUnit(o, finished) \/ GarbageCollectUnit(o, finished)
  \/ \E o \in Objects : KilledScriptFinished(o)
  \/ Update

Spec == Init /\ [][Next]_vars

\* every loop goes on, and scripts that run between two frames let the next
\* begin
FairSpec == Spec /\ WF_vars(Update) /\ SF_vars(BeginUpdate)

-----------------------------------------------------------------------------
(* Properties *)

TypeOK ==
  /\ freeIDs \subseteq Ids /\ tempIDs \subseteq Ids
  /\ units \in [Ids -> Objects \cup {NoUnit}] /\ id \in [Objects -> Ids \cup {NoId}]
  /\ activeUnits \in Seq(Objects) /\ unitsToBeRemoved \in Seq(Objects)
  /\ isDead \subseteq Objects /\ deathScriptFinished \subseteq Objects
  /\ slowed \subseteq Objects
  /\ activeUpdateUnit \in Nat /\ activeSlowUpdateUnit \in Nat /\ batch \in Nat
  /\ frame \in 0..(SlowRate - 1)
  /\ phase \in Phases /\ collected \in Ids \cup {NoId}

\* No id is lost or given twice: each is free, or waits to be, or is that of
\* one active unit, which is found under it in the table (the asserts of
\* InsertActiveUnit, UnitHandler.cpp:168, and FreeID, SimObjectIDPool.cpp:100).
IdsAccounted ==
  /\ freeIDs \cap tempIDs = {}
  /\ \A uid \in Ids : IF uid \in freeIDs \cup tempIDs
                      THEN units[uid] = NoUnit /\ \A o \in Objects : id[o] # uid
                      ELSE units[uid] \in Active /\ id[units[uid]] = uid
  /\ \A o \in Active : id[o] \in Ids /\ units[id[o]] = o

\* what waits for deletion is active and dead, and waits once
QueueSound ==
  /\ Queued \subseteq Active \cap isDead
  /\ \A i, j \in 1..Len(unitsToBeRemoved) :
       unitsToBeRemoved[i] = unitsToBeRemoved[j] => i = j

\* Every unit that waits for deletion is active, has died, and waits once: it is
\* deleted once, and not a unit that lives in its cell by then (the asserts of
\* DeleteUnit, UnitHandler.cpp:266 and 273).  Update keeps to this whatever
\* scripts do.  GarbageCollectUnit does not when scripts ask for the id of a unit
\* that waits already: it queues the unit again and deletes it twice (the assert
\* of UnitHandler.cpp:222 is not in release builds, and LuaSyncedCtrl.cpp:1353
\* does not test it).  The damage does not outlive the call.
DeletedOnce == (RecycleQueued /\ phase = "collecting") \/ QueueSound

\* Whatever is created and deleted between the frames of a round, the units in
\* front of the iterator are those that had their slow update in this round: no
\* unit has two, and none is skipped (UnitHandler.cpp:282 and 344).
RoundInOrder == slowed = {activeUnits[i] : i \in 1..activeSlowUpdateUnit}

Life == [o \in Objects |->
  IF id[o] = NoId THEN "none" ELSE IF o \in isDead THEN "dead" ELSE "alive"]
Lives == INSTANCE UnitLives WITH life <- Life, name <- id

\* The handler implements the lives of units: no id is given to a unit while
\* another has it, and no unit is deleted that was not killed, also when its
\* script ends without that (QueueDeleteUnit, UnitHandler.cpp:247-250).
ImplementsLives == Lives!Spec

\* A unit whose death is over is deleted by one of the next frames (Update).
DeathsComplete == \A o \in Objects : (o \in isDead \cap deathScriptFinished) ~> (o \notin isDead)

\* However many units come and go, every unit gets its next slow update, or is
\* deleted first (SlowUpdateUnits, UnitHandler.cpp:334-355).
EveryUnitSlowUpdated == \A o \in Objects : (id[o] # NoId) ~> (o \in slowed \/ id[o] = NoId)

\* "put an ID back into the pool either immediately or after all remaining free
\* ID's run out" (SimObjectIDPool.cpp:96-99): when none is left to assign, none
\* waits.
FreedIdsReturn == freeIDs = {} /\ phase # "collecting" => tempIDs = {}

-----------------------------------------------------------------------------
(* The inductive invariant *)

ActiveOnce == \A i, j \in 1..Len(activeUnits) : activeUnits[i] = activeUnits[j] => i = j

\* Ids, cells and the three lists of units agree: while QueueDeleteUnits passes
\* through the active units, what waits for deletion is behind its iterator.
HandlerInv ==
  /\ TypeOK /\ IdsAccounted /\ DeletedOnce /\ RoundInOrder /\ ActiveOnce
  /\ \A o \in Objects : o \in Active <=> id[o] # NoId
  /\ isDead \subseteq Active /\ deathScriptFinished \subseteq Active
  /\ activeSlowUpdateUnit <= Len(activeUnits)
  /\ activeUpdateUnit <= (IF phase = "queueing" THEN Len(activeUnits) ELSE 0)
  /\ phase = "queueing" =>
       Queued \subseteq {activeUnits[i] : i \in 1..activeUpdateUnit}

=============================================================================
