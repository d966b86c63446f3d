------------------------------ MODULE UnitLives ------------------------------
(***************************************************************************)
(* What the rest of the simulation relies on when it holds a unit by its   *)
(* id: a unit is created under an id no other unit has, lives, dies, and   *)
(* is gone only after it died.  A cell holds one unit after the other.     *)
(***************************************************************************)
CONSTANTS Objects, Ids, NoId

VARIABLES
  life,  \* by cell of the memory pool
  name   \* the id of the unit in it

Init == life = [o \in Objects |-> "none"] /\ name = [o \in Objects |-> NoId]

Create(o, uid) ==
  /\ life[o] = "none" /\ \A p \in Objects : name[p] # uid
  /\ life' = [life EXCEPT ![o] = "alive"]
  /\ name' = [name EXCEPT ![o] = uid]

Die(o) ==
  /\ life[o] = "alive"
  /\ life' = [life EXCEPT ![o] = "dead"]
  /\ UNCHANGED name

Remove(o) ==
  /\ life[o] = "dead"
  /\ life' = [life EXCEPT ![o] = "none"]
  /\ name' = [name EXCEPT ![o] = NoId]

Next == \E o \in Objects : (\E uid \in Ids : Create(o, uid)) \/ Die(o) \/ Remove(o)

Spec == Init /\ [][Next]_<<life, name>>
=============================================================================
