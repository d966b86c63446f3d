-------------------------- MODULE ObjectDependence --------------------------
(***************************************************************************)
(* Death dependences (rts/System/Object.cpp): an object that holds a       *)
(* pointer to another one listens for its death, and ~CObject tells all    *)
(* who listen before the memory is gone.  Units, weapons, features,        *)
(* projectiles, command queues and waits rely on it.                       *)
(*                                                                         *)
(* ~CObject walks over the lists of listeners and calls DependentDied,     *)
(* which is code of the listener: it forgets its pointers and may run      *)
(* scripts, so other objects may be linked, unlinked, created and          *)
(* destroyed, in destructors of their own, before the walk goes on.        *)
(*                                                                         *)
(* The lists are sorted by sync_id; here they are sets, walked in any      *)
(* order.  Destruction starts at ~CObject: the derived parts of the object *)
(* and their pointers are gone by then.  No object listens to itself.      *)
(***************************************************************************)
EXTENDS Sequences

CONSTANTS
  Objects,
  Types,        \* the dependence types
  NoObject,
  NoType

ASSUME NoneAssumption == NoObject \notin Objects /\ NoType \notin Types

VARIABLES
  life,         \* "unborn", "alive", "dying" (detached) or "gone"
  listening,    \* listening[o][t]: those whose death o wants to hear of
  listeners,    \* listeners[o][t]: those who want to hear of the death of o
  pointer,      \* pointer[o][t]: what o points to, and listens to by t
  walk,         \* walk[o]: where ~CObject of o is in its lists of listeners
  running       \* the objects whose destructors run, the innermost first

lists == <<listening, listeners>>
vars == <<life, lists, pointer, walk, running>>

\* dep is the list being walked, next the lists to come, told who has been
\* called, and call whose DependentDied runs
Walks == [dep: Types \cup {NoType}, next: SUBSET Types, told: SUBSET Objects,
          call: Objects \cup {NoObject}]

NotWalking == [dep |-> NoType, next |-> {}, told |-> {}, call |-> NoObject]

Nobody == [t \in Types |-> {}]
NoPointers == [t \in Types |-> NoObject]

Exists(o) == life[o] \in {"alive", "dying"}
Detached(o) == life[o] = "dying"

Init ==
  /\ life = [o \in Objects |-> "unborn"]
  /\ listening = [o \in Objects |-> Nobody]
  /\ listeners = [o \in Objects |-> Nobody]
  /\ pointer = [o \in Objects |-> NoPointers]
  /\ walk = [o \in Objects |-> NotWalking]
  /\ running = <<>>

-----------------------------------------------------------------------------
(* AddDeathDependence and DeleteDeathDependence *)

Added(L, o, t, p) == [L EXCEPT ![o][t] = @ \cup {p}]
Erased(L, o, t, p) == [L EXCEPT ![o][t] = @ \ {p}]

\* fault: nobody looks whether the object is being destroyed
AddUnchecked(o, p, t) ==
  /\ listening' = Added(listening, o, t, p)
  /\ listeners' = Added(listeners, p, t, o)

AddDeathDependence(o, p, t) ==
  IF Detached(o) \/ Detached(p)
  THEN UNCHANGED lists
  ELSE /\ listening' = Added(listening, o, t, p)
       /\ listeners' = Added(listeners, p, t, o)

\* fault: only one of the two lists is changed
DeleteHalf(o, p, t) ==
  /\ listening' = Erased(listening, o, t, p)
  /\ UNCHANGED listeners

DeleteDeathDependence(o, p, t) ==
  IF Detached(o) \/ Detached(p)
  THEN UNCHANGED lists
  ELSE /\ listening' = Erased(listening, o, t, p)
       /\ listeners' = Erased(listeners, p, t, o)

-----------------------------------------------------------------------------
(* The users.  They run when no destructor does, and inside DependentDied.  *)

UsersRun == running # <<>> => walk[Head(running)].call # NoObject

Create(o) ==
  /\ UsersRun /\ life[o] = "unborn"
  /\ life' = [life EXCEPT ![o] = "alive"]
  /\ UNCHANGED <<lists, pointer, walk, running>>

\* o asks to be told of the death of p, and keeps no pointer by it
Listen(o, p, t) ==
  /\ UsersRun /\ o # p
  /\ life[o] = "alive" /\ Exists(p) /\ pointer[o][t] # p
  /\ AddDeathDependence(o, p, t)
  /\ UNCHANGED <<life, pointer, walk, running>>

\* ... and takes that back
Unlisten(o, p, t) ==
  /\ UsersRun
  /\ life[o] = "alive" /\ p \in listening[o][t] /\ pointer[o][t] # p
  /\ DeleteDeathDependence(o, p, t)
  /\ UNCHANGED <<life, pointer, walk, running>>

\* SetLastAttacker, SetOrderTarget: the new object takes the place of the old
\* one.  "assert(!detached && !obj->detached)" is the callers' duty.
Point(o, p, t) ==
  LET q == pointer[o][t]
      unlinked == q # NoObject /\ ~Detached(q)
      L == IF unlinked THEN Erased(listening, o, t, q) ELSE listening
      M == IF unlinked THEN Erased(listeners, q, t, o) ELSE listeners
  IN  /\ UsersRun /\ o # p
      /\ life[o] = "alive" /\ life[p] = "alive"
      /\ listening' = Added(L, o, t, p)
      /\ listeners' = Added(M, p, t, o)
      /\ pointer' = [pointer EXCEPT ![o][t] = p]
      /\ UNCHANGED <<life, walk, running>>

\* fault: the dependence goes and the pointer stays
Kept(o, t) == pointer

Cleared(o, t) == [pointer EXCEPT ![o][t] = NoObject]

\* StopAttackingAllyTeam and the like
Unpoint(o, t) ==
  /\ UsersRun
  /\ life[o] = "alive" /\ pointer[o][t] # NoObject
  /\ DeleteDeathDependence(o, pointer[o][t], t)
  /\ pointer' = Cleared(o, t)
  /\ UNCHANGED <<life, walk, running>>

-----------------------------------------------------------------------------
(* ~CObject *)

\* Whoever is destroyed while others are must not stand in a list that is just
\* being walked: "derived implementations should *NOT* modify [...]"
MayDie(r) ==
  \A i \in DOMAIN running :
    walk[running[i]].dep # NoType => running[i] \notin listening[r][walk[running[i]].dep]

Destroy(r) ==
  /\ UsersRun
  /\ life[r] = "alive" /\ MayDie(r)
  /\ life' = [life EXCEPT ![r] = "dying"]
  /\ walk' = [walk EXCEPT ![r] = [NotWalking EXCEPT !.next = Types]]
  /\ running' = <<r>> \o running
  /\ pointer' = [pointer EXCEPT ![r] = NoPointers]
  /\ UNCHANGED lists

\* those of the list being walked who have not been called
Untold(o) ==
  IF walk[o].dep = NoType THEN {} ELSE listeners[o][walk[o].dep] \ walk[o].told

NextList(o, t) ==
  /\ walk[o].call = NoObject /\ Untold(o) = {} /\ t \in walk[o].next
  /\ walk' = [walk EXCEPT ![o].dep = t, ![o].next = @ \ {t}, ![o].told = {}]
  /\ UNCHANGED <<life, lists, pointer, running>>

\* what CUnit::DependentDied and the others do first
Forgets(l, o) ==
  [pointer EXCEPT ![l] = [t \in Types |-> IF @[t] = o THEN NoObject ELSE @[t]]]

\* obj->DependentDied(this)
Tell(o, l) ==
  /\ walk[o].call = NoObject /\ l \in Untold(o) /\ life[l] = "alive"
  /\ walk' = [walk EXCEPT ![o].told = @ \cup {l}, ![o].call = l]
  /\ pointer' = Forgets(l, o)
  /\ UNCHANGED <<life, lists, running>>

\* ... and what follows it in the loop
Return(o) ==
  /\ walk[o].call # NoObject
  /\ listening' = Erased(listening, walk[o].call, walk[o].dep, o)
  /\ walk' = [walk EXCEPT ![o].call = NoObject]
  /\ UNCHANGED <<life, listeners, pointer, running>>

\* a listener in its own destructor is a CObject by now, whose DependentDied
\* does nothing
TellDying(o, l) ==
  /\ walk[o].call = NoObject /\ l \in Untold(o) /\ life[l] = "dying"
  /\ walk' = [walk EXCEPT ![o].told = @ \cup {l}]
  /\ listening' = Erased(listening, l, walk[o].dep, o)
  /\ UNCHANGED <<life, listeners, pointer, running>>

\* fault: the second loop of ~CObject is left out
ForgottenByNone(o) == listeners

\* the second loop: whoever o listened to forgets it
ForgottenByAll(o) ==
  [p \in Objects |-> [t \in Types |->
     IF p \in listening[o][t] THEN listeners[p][t] \ {o} ELSE listeners[p][t]]]

End(o) ==
  /\ walk[o].call = NoObject /\ Untold(o) = {} /\ walk[o].next = {}
  /\ life' = [life EXCEPT ![o] = "gone"]
  /\ listeners' = [ForgottenByAll(o) EXCEPT ![o] = Nobody]
  /\ listening' = [listening EXCEPT ![o] = Nobody]
  /\ walk' = [walk EXCEPT ![o] = NotWalking]
  /\ running' = Tail(running)
  /\ UNCHANGED pointer

Destructor(o) ==
  \/ \E t \in Types : NextList(o, t)
  \/ \E l \in Objects : Tell(o, l) \/ TellDying(o, l)
  \/ Return(o)
  \/ End(o)

Users ==
  \E o \in Objects :
    \/ Create(o) \/ Destroy(o)
    \/ \E t \in Types :
         \/ Unpoint(o, t)
         \/ \E p \in Objects : Listen(o, p, t) \/ Unlisten(o, p, t) \/ Point(o, p, t)

Next ==
  \/ Users
  \/ running # <<>> /\ Destructor(Head(running))

Spec == Init /\ [][Next]_vars

-----------------------------------------------------------------------------
(* Properties *)

TypeOK ==
  /\ life \in [Objects -> {"unborn", "alive", "dying", "gone"}]
  /\ listening \in [Objects -> [Types -> SUBSET Objects]]
  /\ listeners \in [Objects -> [Types -> SUBSET Objects]]
  /\ pointer \in [Objects -> [Types -> Objects \cup {NoObject}]]
  /\ walk \in [Objects -> Walks]
  /\ running \in Seq(Objects)

\* The lists ~CObject and its callees follow lead to objects that exist: what
\* an object listens to, who listens to a living one, and those a destructor
\* has not called yet, whatever was destroyed in between (61-69, 80-87).
ListsLeadToObjects ==
  \A o \in Objects, t \in Types :
    /\ \A p \in listening[o][t] : Exists(p)
    /\ life[o] = "alive" => \A l \in listeners[o][t] : Exists(l)
    /\ Detached(o) => /\ \A l \in Untold(o) : Exists(l)
                      /\ t \in walk[o].next => \A l \in listeners[o][t] : Exists(l)

\* A pointer protected by a death dependence never outlives what it points to,
\* and is gone when its DependentDied returns ("in order not to risk a crash",
\* ObjectDependenceTypes.h:10).
PointersAreValid ==
  \A o, p \in Objects, t \in Types :
    pointer[o][t] = p =>
      /\ Exists(p)
      /\ Detached(p) => o \notin walk[p].told

\* Two living objects agree on whether one listens to the other: the two lists
\* are changed at several places, and by destructors of third objects.
ListsAgree ==
  \A o, p \in Objects, t \in Types :
    life[o] = "alive" /\ life[p] = "alive" =>
      (p \in listening[o][t] <=> o \in listeners[p][t])

\* While ~CObject walks over a list, nobody changes it: "we iterate over both
\* within our dtor when calling this" (Object.h:26-28).
WalkedListsStay ==
  [][\A o \in Objects, t \in Types :
       Detached(o) /\ walk[o].dep = t /\ walk'[o].dep = t =>
         listeners'[o][t] = listeners[o][t]]_vars
=============================================================================
