---------------------- MODULE ObjectDependence_proofs ----------------------
(***************************************************************************)
(* The properties of ObjectDependence, for any number of objects and       *)
(* dependence types, and destructors within destructors to any depth.      *)
(***************************************************************************)
EXTENDS ObjectDependence, Naturals, TLAPS

-----------------------------------------------------------------------------
(* The inductive invariant *)

\* o is in the list of p by t, and p's destructor has not finished with it
Pending(p, t, o) ==
  \/ t \in walk[p].next
  \/ t = walk[p].dep /\ (o \notin walk[p].told \/ o = walk[p].call)

\* who listens is known to the object he listens to, until he has been told
LinkInv ==
  \A o, p \in Objects, t \in Types :
    p \in listening[o][t] =>
      /\ Exists(o) /\ Exists(p)
      /\ o \in listeners[p][t]
      /\ Detached(p) => Pending(p, t, o)

\* and whoever is known, and has not been told, listens
BackInv ==
  \A o, p \in Objects, t \in Types :
    o \in listeners[p][t] /\ (life[p] = "alive" \/ (Detached(p) /\ Pending(p, t, o)))
      => p \in listening[o][t]

EmptyInv ==
  \A p \in Objects : life[p] \in {"unborn", "gone"} => listeners[p] = Nobody

PointerInv ==
  \A o, p \in Objects, t \in Types :
    pointer[o][t] = p =>
      /\ life[o] = "alive" /\ p \in listening[o][t]
      /\ Detached(p) => o \notin walk[p].told

WalkInv ==
  \A o \in Objects :
    /\ Detached(o) \/ walk[o] = NotWalking
    /\ walk[o].dep \notin walk[o].next
    /\ walk[o].call # NoObject => walk[o].dep \in Types /\ walk[o].call \in walk[o].told

\* inner destructors are those of objects that no outer one is walking over
RunningInv ==
  /\ \A o \in Objects : Detached(o) <=> \E i \in DOMAIN running : running[i] = o
  /\ \A i, j \in DOMAIN running :
       i < j =>
         /\ running[i] # running[j]
         /\ walk[running[j]].dep # NoType =>
              running[j] \notin listening[running[i]][walk[running[j]].dep]

IInv ==
  /\ TypeOK
  /\ LinkInv
  /\ BackInv
  /\ EmptyInv
  /\ PointerInv
  /\ WalkInv
  /\ RunningInv

-----------------------------------------------------------------------------
(* Linking and unlinking two living objects keeps the parts about lists *)

ListInv == LinkInv /\ BackInv /\ EmptyInv /\ RunningInv

Lists == [Objects -> [Types -> SUBSET Objects]]

LEMMA RunningDies ==
  ASSUME TypeOK, RunningInv, NEW i \in DOMAIN running
  PROVE  running[i] \in Objects /\ life[running[i]] = "dying"
<1>1. running[i] \in Objects
  BY DEF TypeOK
<1> QED BY <1>1 DEF RunningInv, Detached

LEMMA LivingAgree ==
  ASSUME LinkInv, BackInv
  PROVE  \A x, y \in Objects, u \in Types :
           life[y] = "alive" => (y \in listening[x][u] <=> x \in listeners[y][u])
BY DEF LinkInv, BackInv

LEMMA LinkingKeepsLists ==
  ASSUME TypeOK, ListInv, UNCHANGED <<life, walk, running>>,
         listening' \in Lists, listeners' \in Lists,
         \A x, y \in Objects, u \in Types :
           life[x] = "alive" /\ life[y] = "alive" =>
             (y \in listening'[x][u] <=> x \in listeners'[y][u]),
         \A x, y \in Objects, u \in Types :
           ~(life[x] = "alive" /\ life[y] = "alive") =>
             /\ y \in listening'[x][u] <=> y \in listening[x][u]
             /\ x \in listeners'[y][u] <=> x \in listeners[y][u]
  PROVE  ListInv'
<1>1. LinkInv'
  <2> SUFFICES ASSUME NEW x \in Objects, NEW y \in Objects, NEW u \in Types,
                      y \in listening'[x][u]
               PROVE  /\ Exists(x)' /\ Exists(y)'
                      /\ x \in listeners'[y][u]
                      /\ Detached(y)' => Pending(y, u, x)'
    BY DEF LinkInv
  <2>1. CASE life[x] = "alive" /\ life[y] = "alive"
    BY <2>1 DEF Exists, Detached
  <2>2. CASE ~(life[x] = "alive" /\ life[y] = "alive")
    <3>1. /\ Exists(x) /\ Exists(y)
          /\ x \in listeners[y][u]
          /\ Detached(y) => Pending(y, u, x)
      BY <2>2 DEF ListInv, LinkInv
    <3>2. Exists(x)' /\ Exists(y)' /\ (Detached(y)' => Pending(y, u, x)')
      BY <3>1 DEF Exists, Detached, Pending
    <3> QED BY <2>2, <3>1, <3>2
  <2> QED BY <2>1, <2>2
<1>2. BackInv'
  <2> SUFFICES ASSUME NEW x \in Objects, NEW y \in Objects, NEW u \in Types,
                      x \in listeners'[y][u],
                      life'[y] = "alive" \/ (Detached(y)' /\ Pending(y, u, x)')
               PROVE  y \in listening'[x][u]
    BY DEF BackInv
  <2>1. CASE life[x] = "alive" /\ life[y] = "alive"
    BY <2>1
  <2>2. CASE ~(life[x] = "alive" /\ life[y] = "alive")
    <3>1. life[y] = "alive" \/ (Detached(y) /\ Pending(y, u, x))
      BY DEF Detached, Pending
    <3>2. y \in listening[x][u]
      BY <2>2, <3>1 DEF ListInv, BackInv
    <3> QED BY <2>2, <3>2
  <2> QED BY <2>1, <2>2
<1>3. EmptyInv'
  <2> SUFFICES ASSUME NEW y \in Objects, life[y] \in {"unborn", "gone"}
               PROVE  listeners'[y] = Nobody
    BY DEF EmptyInv
  <2>1. \A u \in Types : listeners'[y][u] = {}
    <3> SUFFICES ASSUME NEW u \in Types, NEW x \in listeners'[y][u]
                 PROVE  FALSE
      OBVIOUS
    <3>1. x \in Objects
      BY DEF Lists
    <3>2. x \in listeners[y][u]
      BY <3>1
    <3> QED BY <3>2 DEF ListInv, EmptyInv, Nobody
  <2> QED BY <2>1 DEF Lists, Nobody
<1>4. RunningInv'
  <2>1. ASSUME NEW i \in DOMAIN running, NEW j \in DOMAIN running, i < j,
               walk[running[j]].dep # NoType
        PROVE  running[j] \notin listening'[running[i]][walk[running[j]].dep]
    <3>1. /\ running[i] \in Objects /\ running[j] \in Objects
          /\ life[running[j]] = "dying"
      BY RunningDies DEF ListInv
    <3>2. walk[running[j]].dep \in Types
      BY <2>1, <3>1 DEF TypeOK, Walks
    <3>3. running[j] \notin listening[running[i]][walk[running[j]].dep]
      BY <2>1 DEF ListInv, RunningInv
    <3> QED BY <3>1, <3>2, <3>3
  <2> QED BY <2>1 DEF ListInv, RunningInv, Detached
<1> QED BY <1>1, <1>2, <1>3, <1>4 DEF ListInv

LEMMA AddKeepsLists ==
  ASSUME TypeOK, ListInv, UNCHANGED <<life, walk, running>>,
         NEW o \in Objects, NEW p \in Objects, NEW t \in Types,
         Exists(o), Exists(p),
         AddDeathDependence(o, p, t)
  PROVE  /\ ListInv'
         /\ listening' \in Lists /\ listeners' \in Lists
         /\ \A x, y \in Objects, u \in Types :
              y \in listening[x][u] => y \in listening'[x][u]
         /\ \A y \in Objects, u \in Types :
              life[y] # "alive" => listeners'[y][u] = listeners[y][u]
<1>1. CASE UNCHANGED lists
  BY <1>1 DEF lists, TypeOK, ListInv, LinkInv, BackInv, EmptyInv, RunningInv, Exists, Detached,
              Pending, Lists
<1>2. CASE /\ life[o] = "alive" /\ life[p] = "alive"
           /\ listening' = Added(listening, o, t, p)
           /\ listeners' = Added(listeners, p, t, o)
  <2>1. /\ listening \in Lists
        /\ listeners \in Lists
    BY DEF TypeOK, Lists
  <2>2. /\ listening' \in Lists
        /\ \A x, y \in Objects, u \in Types :
             y \in listening'[x][u] <=> y \in listening[x][u] \/ (x = o /\ y = p /\ u = t)
    BY <1>2, <2>1 DEF Added, Lists
  <2>3. /\ listeners' \in Lists
        /\ \A x, y \in Objects, u \in Types :
             x \in listeners'[y][u] <=> x \in listeners[y][u] \/ (x = o /\ y = p /\ u = t)
        /\ \A y \in Objects, u \in Types :
             y # p => listeners'[y][u] = listeners[y][u]
    BY <1>2, <2>1 DEF Added, Lists
  <2>4. \A x, y \in Objects, u \in Types :
          life[x] = "alive" /\ life[y] = "alive" =>
            (y \in listening'[x][u] <=> x \in listeners'[y][u])
    BY <2>2, <2>3, LivingAgree DEF ListInv
  <2>5. \A x, y \in Objects, u \in Types :
          ~(life[x] = "alive" /\ life[y] = "alive") =>
            /\ y \in listening'[x][u] <=> y \in listening[x][u]
            /\ x \in listeners'[y][u] <=> x \in listeners[y][u]
    BY <1>2, <2>2, <2>3
  <2>6. ListInv'
    BY <2>2, <2>3, <2>4, <2>5, LinkingKeepsLists
  <2> QED BY <1>2, <2>2, <2>3, <2>6
<1> QED BY <1>1, <1>2 DEF AddDeathDependence, Exists, Detached

LEMMA DeleteKeepsLists ==
  ASSUME TypeOK, ListInv, UNCHANGED <<life, walk, running>>,
         NEW o \in Objects, NEW p \in Objects, NEW t \in Types,
         Exists(o), Exists(p),
         DeleteDeathDependence(o, p, t)
  PROVE  /\ ListInv'
         /\ listening' \in Lists /\ listeners' \in Lists
         /\ \A x, y \in Objects, u \in Types :
              y \in listening[x][u] /\ ~(x = o /\ y = p /\ u = t) => y \in listening'[x][u]
         /\ \A y \in Objects, u \in Types :
              life[y] # "alive" => listeners'[y][u] = listeners[y][u]
<1>1. CASE UNCHANGED lists
  BY <1>1 DEF lists, TypeOK, ListInv, LinkInv, BackInv, EmptyInv, RunningInv, Exists, Detached,
              Pending, Lists
<1>2. CASE /\ life[o] = "alive" /\ life[p] = "alive"
           /\ listening' = Erased(listening, o, t, p)
           /\ listeners' = Erased(listeners, p, t, o)
  <2>1. /\ listening \in Lists
        /\ listeners \in Lists
    BY DEF TypeOK, Lists
  <2>2. /\ listening' \in Lists
        /\ \A x, y \in Objects, u \in Types :
             y \in listening'[x][u] <=> y \in listening[x][u] /\ ~(x = o /\ y = p /\ u = t)
    BY <1>2, <2>1 DEF Erased, Lists
  <2>3. /\ listeners' \in Lists
        /\ \A x, y \in Objects, u \in Types :
             x \in listeners'[y][u] <=> x \in listeners[y][u] /\ ~(x = o /\ y = p /\ u = t)
        /\ \A y \in Objects, u \in Types :
             y # p => listeners'[y][u] = listeners[y][u]
    BY <1>2, <2>1 DEF Erased, Lists
  <2>4. \A x, y \in Objects, u \in Types :
          life[x] = "alive" /\ life[y] = "alive" =>
            (y \in listening'[x][u] <=> x \in listeners'[y][u])
    BY <2>2, <2>3, LivingAgree DEF ListInv
  <2>5. \A x, y \in Objects, u \in Types :
          ~(life[x] = "alive" /\ life[y] = "alive") =>
            /\ y \in listening'[x][u] <=> y \in listening[x][u]
            /\ x \in listeners'[y][u] <=> x \in listeners[y][u]
    BY <1>2, <2>2, <2>3
  <2>6. ListInv'
    BY <2>2, <2>3, <2>4, <2>5, LinkingKeepsLists
  <2> QED BY <1>2, <2>2, <2>3, <2>6
<1> QED BY <1>1, <1>2 DEF DeleteDeathDependence, Exists, Detached

LEMMA PointKeepsLists ==
  ASSUME TypeOK, ListInv, PointerInv,
         NEW o \in Objects, NEW p \in Objects, NEW t \in Types,
         Point(o, p, t)
  PROVE  /\ ListInv'
         /\ listening' \in Lists /\ listeners' \in Lists
         /\ p \in listening'[o][t]
         /\ \A x, y \in Objects, u \in Types :
              y \in listening[x][u] /\ ~(x = o /\ u = t) => y \in listening'[x][u]
         /\ \A y \in Objects, u \in Types :
              life[y] # "alive" => listeners'[y][u] = listeners[y][u]
<1> DEFINE q == pointer[o][t]
           unlinked == q # NoObject /\ ~Detached(q)
           L == IF unlinked THEN Erased(listening, o, t, q) ELSE listening
           M == IF unlinked THEN Erased(listeners, q, t, o) ELSE listeners
<1>1. /\ life[o] = "alive" /\ life[p] = "alive"
      /\ listening' = Added(L, o, t, p)
      /\ listeners' = Added(M, p, t, o)
      /\ UNCHANGED <<life, walk, running>>
  BY DEF Point
<1>2. /\ listening \in Lists
      /\ listeners \in Lists
  BY DEF TypeOK, Lists
<1>3. q \in Objects \cup {NoObject}
  BY DEF TypeOK
<1>4. /\ L \in Lists
      /\ \A x, y \in Objects, u \in Types :
           y \in L[x][u] <=>
             y \in listening[x][u] /\ ~(unlinked /\ x = o /\ u = t /\ y = q)
  BY <1>2 DEF Erased, Lists
<1>5. /\ M \in Lists
      /\ \A x, y \in Objects, u \in Types :
           x \in M[y][u] <=>
             x \in listeners[y][u] /\ ~(unlinked /\ x = o /\ u = t /\ y = q)
      /\ \A y \in Objects, u \in Types :
           ~unlinked \/ y # q => M[y][u] = listeners[y][u]
  BY <1>2, <1>3 DEF Erased, Lists
<1> HIDE DEF L, M
<1>6. /\ listening' \in Lists
      /\ \A x, y \in Objects, u \in Types :
           y \in listening'[x][u] <=> y \in L[x][u] \/ (x = o /\ u = t /\ y = p)
  BY <1>1, <1>4 DEF Added, Lists
<1>7. /\ listeners' \in Lists
      /\ \A x, y \in Objects, u \in Types :
           x \in listeners'[y][u] <=> x \in M[y][u] \/ (x = o /\ u = t /\ y = p)
      /\ \A y \in Objects, u \in Types :
           y # p => listeners'[y][u] = M[y][u]
  BY <1>1, <1>5 DEF Added, Lists
<1>8. unlinked => life[q] = "alive"
  BY <1>3 DEF ListInv, LinkInv, PointerInv, Exists, Detached
<1> HIDE DEF unlinked, q
<1>9. \A x, y \in Objects, u \in Types :
        life[x] = "alive" /\ life[y] = "alive" =>
          (y \in listening'[x][u] <=> x \in listeners'[y][u])
  <2>1. \A x, y \in Objects, u \in Types :
          life[y] = "alive" => (y \in listening[x][u] <=> x \in listeners[y][u])
    BY LivingAgree DEF ListInv
  <2> QED BY <2>1, <1>4, <1>5, <1>6, <1>7
<1>10. \A x, y \in Objects, u \in Types :
         ~(life[x] = "alive" /\ life[y] = "alive") =>
           /\ y \in listening'[x][u] <=> y \in listening[x][u]
           /\ x \in listeners'[y][u] <=> x \in listeners[y][u]
  BY <1>1, <1>4, <1>5, <1>6, <1>7, <1>8
<1>11. ListInv'
  BY <1>1, <1>6, <1>7, <1>9, <1>10, LinkingKeepsLists
<1>12. \A y \in Objects, u \in Types :
         life[y] # "alive" => listeners'[y][u] = listeners[y][u]
  BY <1>1, <1>5, <1>7, <1>8
<1> QED BY <1>4, <1>6, <1>7, <1>11, <1>12
-----------------------------------------------------------------------------
(* Each step keeps the invariant *)

LEMMA InitInv == Init => IInv
<1> SUFFICES ASSUME Init PROVE IInv
  OBVIOUS
<1>1. TypeOK
  BY DEF Init, TypeOK, Nobody, NoPointers, NotWalking, Walks
<1>2. LinkInv /\ BackInv /\ EmptyInv
  BY DEF Init, LinkInv, BackInv, EmptyInv, Nobody, Detached
<1>3. PointerInv /\ WalkInv /\ RunningInv
  BY NoneAssumption
  DEF Init, PointerInv, WalkInv, RunningInv, NoPointers, NotWalking, Detached
<1> QED BY <1>1, <1>2, <1>3 DEF IInv

LEMMA CreateKeepsInv ==
  ASSUME IInv, NEW o \in Objects, Create(o)
  PROVE  IInv'
<1>1. /\ life[o] = "unborn"
      /\ life' = [life EXCEPT ![o] = "alive"]
      /\ UNCHANGED <<listening, listeners, pointer, walk, running>>
  BY DEF Create, lists
<1>2. TypeOK'
  BY <1>1 DEF IInv, TypeOK
<1>3. \A x \in Objects : /\ Detached(x)' <=> Detached(x)
                         /\ Exists(x) => Exists(x)'
                         /\ x # o => life'[x] = life[x]
  BY <1>1 DEF IInv, TypeOK, Detached, Exists
<1>4. LinkInv'
  BY <1>1, <1>3 DEF IInv, LinkInv, Pending
<1>5. BackInv'
  <2>1. \A t \in Types : listeners[o][t] = {}
    BY <1>1 DEF IInv, EmptyInv, Nobody
  <2> QED BY <1>1, <1>3, <2>1 DEF IInv, BackInv, Pending
<1>6. EmptyInv'
  BY <1>1 DEF IInv, EmptyInv, TypeOK
<1>7. PointerInv' /\ WalkInv' /\ RunningInv'
  BY <1>1, <1>3 DEF IInv, PointerInv, WalkInv, RunningInv
<1> QED BY <1>2, <1>4, <1>5, <1>6, <1>7 DEF IInv

LEMMA ListenKeepsInv ==
  ASSUME IInv, NEW o \in Objects, NEW p \in Objects, NEW t \in Types, Listen(o, p, t)
  PROVE  IInv'
<1>1. /\ Exists(o) /\ Exists(p)
      /\ AddDeathDependence(o, p, t)
      /\ UNCHANGED <<life, pointer, walk, running>>
  BY DEF Listen, Exists
<1>2. /\ ListInv'
      /\ listening' \in Lists /\ listeners' \in Lists
      /\ \A x, y \in Objects, u \in Types :
           y \in listening[x][u] => y \in listening'[x][u]
  BY <1>1, AddKeepsLists DEF IInv, ListInv
<1>3. TypeOK' /\ WalkInv'
  BY <1>1, <1>2 DEF IInv, TypeOK, WalkInv, Detached, Lists
<1>4. PointerInv'
  BY <1>1, <1>2 DEF IInv, PointerInv, Detached
<1> QED BY <1>2, <1>3, <1>4 DEF IInv, ListInv

LEMMA UnlistenKeepsInv ==
  ASSUME IInv, NEW o \in Objects, NEW p \in Objects, NEW t \in Types, Unlisten(o, p, t)
  PROVE  IInv'
<1>1. /\ Exists(o) /\ Exists(p)
      /\ DeleteDeathDependence(o, p, t)
      /\ pointer[o][t] # p
      /\ UNCHANGED <<life, pointer, walk, running>>
  BY DEF Unlisten, Exists, IInv, LinkInv
<1>2. /\ ListInv'
      /\ listening' \in Lists /\ listeners' \in Lists
      /\ \A x, y \in Objects, u \in Types :
           y \in listening[x][u] /\ ~(x = o /\ y = p /\ u = t) => y \in listening'[x][u]
  BY <1>1, DeleteKeepsLists DEF IInv, ListInv
<1>3. TypeOK' /\ WalkInv'
  BY <1>1, <1>2 DEF IInv, TypeOK, WalkInv, Detached, Lists
<1>4. PointerInv'
  BY <1>1, <1>2 DEF IInv, PointerInv, Detached
<1> QED BY <1>2, <1>3, <1>4 DEF IInv, ListInv

LEMMA PointKeepsInv ==
  ASSUME IInv, NEW o \in Objects, NEW p \in Objects, NEW t \in Types, Point(o, p, t)
  PROVE  IInv'
<1>1. /\ life[o] = "alive" /\ life[p] = "alive"
      /\ pointer' = [pointer EXCEPT ![o][t] = p]
      /\ UNCHANGED <<life, walk, running>>
  BY DEF Point
<1>2. /\ ListInv'
      /\ listening' \in Lists /\ listeners' \in Lists
      /\ p \in listening'[o][t]
      /\ \A x, y \in Objects, u \in Types :
           y \in listening[x][u] /\ ~(x = o /\ u = t) => y \in listening'[x][u]
  BY PointKeepsLists DEF IInv, ListInv
<1>3. TypeOK' /\ WalkInv'
  BY <1>1, <1>2 DEF IInv, TypeOK, WalkInv, Detached, Lists
<1>4. \A x \in Objects, u \in Types :
        pointer'[x][u] = IF x = o /\ u = t THEN p ELSE pointer[x][u]
  BY <1>1 DEF IInv, TypeOK
<1>5. PointerInv'
  BY <1>1, <1>2, <1>4 DEF IInv, PointerInv, Detached
<1> QED BY <1>2, <1>3, <1>5 DEF IInv, ListInv

LEMMA UnpointKeepsInv ==
  ASSUME IInv, NEW o \in Objects, NEW t \in Types, Unpoint(o, t)
  PROVE  IInv'
<1> DEFINE p == pointer[o][t]
<1>1. /\ life[o] = "alive" /\ p # NoObject
      /\ DeleteDeathDependence(o, p, t)
      /\ pointer' = [pointer EXCEPT ![o][t] = NoObject]
      /\ UNCHANGED <<life, walk, running>>
  BY DEF Unpoint, Cleared
<1>2. p \in Objects /\ Exists(o) /\ Exists(p)
  BY <1>1 DEF IInv, TypeOK, PointerInv, LinkInv
<1>3. /\ ListInv'
      /\ listening' \in Lists /\ listeners' \in Lists
      /\ \A x, y \in Objects, u \in Types :
           y \in listening[x][u] /\ ~(x = o /\ y = p /\ u = t) => y \in listening'[x][u]
  BY <1>1, <1>2, DeleteKeepsLists DEF IInv, ListInv
<1>4. TypeOK' /\ WalkInv'
  BY <1>1, <1>3 DEF IInv, TypeOK, WalkInv, Detached, Lists
<1>5. \A x \in Objects, u \in Types :
        pointer'[x][u] = IF x = o /\ u = t THEN NoObject ELSE pointer[x][u]
  BY <1>1 DEF IInv, TypeOK
<1>6. PointerInv'
  BY <1>1, <1>3, <1>5, NoneAssumption DEF IInv, PointerInv, Detached
<1> QED BY <1>3, <1>4, <1>6 DEF IInv, ListInv

LEMMA DestroyKeepsInv ==
  ASSUME IInv, NEW r \in Objects, Destroy(r)
  PROVE  IInv'
<1>1. /\ life[r] = "alive" /\ MayDie(r)
      /\ life' = [life EXCEPT ![r] = "dying"]
      /\ walk' = [walk EXCEPT ![r] = [NotWalking EXCEPT !.next = Types]]
      /\ running' = <<r>> \o running
      /\ pointer' = [pointer EXCEPT ![r] = NoPointers]
      /\ UNCHANGED <<listening, listeners>>
  BY DEF Destroy, lists
<1>2. /\ life' \in [Objects -> {"unborn", "alive", "dying", "gone"}]
      /\ pointer' \in [Objects -> [Types -> Objects \cup {NoObject}]]
      /\ walk' \in [Objects -> Walks]
  BY <1>1 DEF IInv, TypeOK, NoPointers, NotWalking, Walks
<1>3. running' \in Seq(Objects)
  BY <1>1 DEF IInv, TypeOK
<1>4. /\ walk'[r].next = Types /\ walk'[r].told = {} /\ walk'[r].dep = NoType
      /\ walk'[r].call = NoObject
      /\ \A x \in Objects : x # r => walk'[x] = walk[x] /\ life'[x] = life[x]
      /\ life'[r] = "dying"
  BY <1>1 DEF IInv, TypeOK, NotWalking
<1>5. \A x \in Objects, u \in Types :
        pointer'[x][u] = IF x = r THEN NoObject ELSE pointer[x][u]
  BY <1>1 DEF IInv, TypeOK, NoPointers
<1>6. TypeOK'
  BY <1>1, <1>2, <1>3 DEF IInv, TypeOK
<1>7. LinkInv'
  BY <1>1, <1>4 DEF IInv, LinkInv, Exists, Detached, Pending
<1>8. BackInv'
  BY <1>1, <1>4 DEF IInv, BackInv, Detached, Pending
<1>9. EmptyInv'
  BY <1>1, <1>4 DEF IInv, EmptyInv
<1>10. PointerInv'
  BY <1>1, <1>4, <1>5, NoneAssumption DEF IInv, PointerInv, Detached
<1>11. WalkInv'
  BY <1>1, <1>4, NoneAssumption DEF IInv, WalkInv, Detached
<1>12. /\ Len(running') = Len(running) + 1
       /\ running'[1] = r
       /\ \A i \in DOMAIN running : running'[i + 1] = running[i]
       /\ \A i \in DOMAIN running' : i # 1 => i - 1 \in DOMAIN running
       /\ \A i \in DOMAIN running : i + 1 \in DOMAIN running'
       /\ 1 \in DOMAIN running'
       /\ DOMAIN running' \subseteq Nat /\ DOMAIN running \subseteq Nat
       /\ \A i \in DOMAIN running' : i >= 1
  BY <1>1 DEF IInv, TypeOK
<1>13. \A i \in DOMAIN running : running[i] \in Objects /\ running[i] # r
  BY <1>1, RunningDies DEF IInv
<1>14. RunningInv'
  <2>1. ASSUME NEW x \in Objects
        PROVE  Detached(x)' <=> \E i \in DOMAIN running' : running'[i] = x
    <3>1. CASE x = r
      BY <1>4, <1>12, <3>1 DEF Detached
    <3>2. CASE x # r
      <4>1. Detached(x)' <=> \E i \in DOMAIN running : running[i] = x
        BY <1>4, <3>2 DEF IInv, RunningInv, Detached
      <4>2. ASSUME NEW i \in DOMAIN running, running[i] = x
            PROVE  \E j \in DOMAIN running' : running'[j] = x
        BY <4>2, <1>12
      <4>3. ASSUME NEW j \in DOMAIN running', running'[j] = x
            PROVE  \E i \in DOMAIN running : running[i] = x
        <5>1. j # 1 /\ j - 1 \in DOMAIN running /\ (j - 1) + 1 = j
          BY <4>3, <3>2, <1>12
        <5>2. running'[(j - 1) + 1] = running[j - 1]
          BY <5>1, <1>12
        <5> QED BY <4>3, <5>1, <5>2
      <4> QED BY <4>1, <4>2, <4>3
    <3> QED BY <3>1, <3>2
  <2>2. ASSUME NEW i \in DOMAIN running', NEW j \in DOMAIN running', i < j
        PROVE  /\ running'[i] # running'[j]
               /\ walk'[running'[j]].dep # NoType =>
                    running'[j] \notin listening'[running'[i]][walk'[running'[j]].dep]
    <3>1. j # 1 /\ j - 1 \in DOMAIN running /\ (j - 1) + 1 = j
      BY <2>2, <1>12
    <3>2. running'[j] = running[j - 1] /\ running'[j] \in Objects /\ running'[j] # r
      <4>1. running'[(j - 1) + 1] = running[j - 1]
        BY <3>1, <1>12
      <4> QED BY <3>1, <4>1, <1>13
    <3>3. walk'[running'[j]] = walk[running[j - 1]]
      BY <3>2, <1>4
    <3>4. CASE i = 1
      <4>1. walk[running[j - 1]].dep # NoType =>
              running[j - 1] \notin listening[r][walk[running[j - 1]].dep]
        BY <1>1, <3>1 DEF MayDie
      <4> QED BY <1>1, <1>12, <3>2, <3>3, <3>4, <4>1
    <3>5. CASE i # 1
      <4>1. i - 1 \in DOMAIN running /\ (i - 1) + 1 = i /\ i - 1 < j - 1
        BY <2>2, <3>5, <1>12
      <4>2. running'[i] = running[i - 1]
        <5>1. running'[(i - 1) + 1] = running[i - 1]
          BY <4>1, <1>12
        <5> QED BY <4>1, <5>1
      <4>3. /\ running[i - 1] # running[j - 1]
            /\ walk[running[j - 1]].dep # NoType =>
                 running[j - 1] \notin listening[running[i - 1]][walk[running[j - 1]].dep]
        BY <3>1, <4>1 DEF IInv, RunningInv
      <4> QED BY <1>1, <3>2, <3>3, <4>2, <4>3
    <3> QED BY <3>4, <3>5
  <2> QED BY <2>1, <2>2 DEF RunningInv
<1> QED BY <1>6, <1>7, <1>8, <1>9, <1>10, <1>11, <1>14 DEF IInv

(* ~CObject.  What holds of the innermost destructor. *)

LEMMA Innermost ==
  ASSUME IInv, running # <<>>
  PROVE  /\ 1 \in DOMAIN running /\ Head(running) = running[1]
         /\ Head(running) \in Objects /\ Detached(Head(running))
         /\ \A j \in DOMAIN running : j # 1 => 1 < j /\ running[j] # Head(running)
<1>1. running \in Seq(Objects) /\ running # <<>>
  BY DEF IInv, TypeOK
<1>2. /\ 1 \in DOMAIN running /\ Head(running) = running[1]
      /\ Head(running) \in Objects
      /\ \A j \in DOMAIN running : j # 1 => 1 < j
  BY <1>1
<1>3. Detached(Head(running))
  BY <1>2 DEF IInv, RunningInv
<1>4. \A j \in DOMAIN running : j # 1 => running[j] # Head(running)
  BY <1>2 DEF IInv, RunningInv
<1> QED BY <1>2, <1>3, <1>4

LEMMA WalkingKeepsLists ==
  ASSUME IInv, running # <<>>, NEW o \in Objects, o = Head(running),
         UNCHANGED <<life, listeners, running>>,
         \A x \in Objects : x # o => walk'[x] = walk[x],
         \A x, y \in Objects, u \in Types :
           /\ y \in listening'[x][u] => y \in listening[x][u]
           /\ y # o /\ y \in listening[x][u] => y \in listening'[x][u],
         \A x \in Objects, u \in Types :
           x \in listeners[o][u] => (o \in listening'[x][u] <=> Pending(o, u, x)')
  PROVE  ListInv'
<1>1. LinkInv'
  <2> SUFFICES ASSUME NEW x \in Objects, NEW y \in Objects, NEW u \in Types,
                      y \in listening'[x][u]
               PROVE  /\ Exists(x)' /\ Exists(y)'
                      /\ x \in listeners'[y][u]
                      /\ Detached(y)' => Pending(y, u, x)'
    BY DEF LinkInv
  <2>1. /\ Exists(x) /\ Exists(y)
        /\ x \in listeners[y][u]
        /\ Detached(y) => Pending(y, u, x)
    BY DEF IInv, LinkInv
  <2>2. Exists(x)' /\ Exists(y)' /\ x \in listeners'[y][u]
    BY <2>1 DEF Exists
  <2>3. Detached(y)' => Pending(y, u, x)'
    <3>1. CASE y = o
      BY <2>1, <3>1
    <3>2. CASE y # o
      BY <2>1, <3>2 DEF Detached, Pending
    <3> QED BY <3>1, <3>2
  <2> QED BY <2>2, <2>3
<1>2. BackInv'
  <2> SUFFICES ASSUME NEW x \in Objects, NEW y \in Objects, NEW u \in Types,
                      x \in listeners'[y][u],
                      life'[y] = "alive" \/ (Detached(y)' /\ Pending(y, u, x)')
               PROVE  y \in listening'[x][u]
    BY DEF BackInv
  <2>1. CASE y = o
    <3>1. life[o] # "alive"
      BY Innermost DEF Detached
    <3> QED BY <2>1, <3>1
  <2>2. CASE y # o
    <3>1. life[y] = "alive" \/ (Detached(y) /\ Pending(y, u, x))
      BY <2>2 DEF Detached, Pending
    <3>2. y \in listening[x][u]
      BY <3>1 DEF IInv, BackInv
    <3> QED BY <2>2, <3>2
  <2> QED BY <2>1, <2>2
<1>3. EmptyInv'
  BY DEF IInv, EmptyInv
<1>4. RunningInv'
  <2>1. ASSUME NEW i \in DOMAIN running, NEW j \in DOMAIN running, i < j,
               walk'[running[j]].dep # NoType
        PROVE  running[j] \notin listening'[running[i]][walk'[running[j]].dep]
    <3>1. j # 1
      BY <2>1 DEF IInv, TypeOK
    <3>2. running[i] \in Objects /\ running[j] \in Objects /\ running[j] # o
      BY <3>1, RunningDies, Innermost DEF IInv
    <3>3. walk'[running[j]] = walk[running[j]]
      BY <3>2
    <3>4. walk[running[j]].dep \in Types
      BY <2>1, <3>2, <3>3 DEF IInv, TypeOK, Walks
    <3>5. running[j] \notin listening[running[i]][walk[running[j]].dep]
      BY <2>1, <3>3 DEF IInv, RunningInv
    <3> QED BY <3>2, <3>3, <3>4, <3>5
  <2> QED BY <2>1 DEF IInv, RunningInv, Detached
<1> QED BY <1>1, <1>2, <1>3, <1>4 DEF ListInv

LEMMA NextListKeepsInv ==
  ASSUME IInv, running # <<>>, NEW o \in Objects, o = Head(running),
         NEW t \in Types, NextList(o, t)
  PROVE  IInv'
<1>1. /\ walk[o].call = NoObject /\ Untold(o) = {} /\ t \in walk[o].next
      /\ walk' = [walk EXCEPT ![o].dep = t, ![o].next = @ \ {t}, ![o].told = {}]
      /\ UNCHANGED <<life, listening, listeners, pointer, running>>
  BY DEF NextList, lists
<1>2. walk \in [Objects -> Walks] /\ walk[o] \in Walks
  BY DEF IInv, TypeOK
<1>3. /\ walk'[o] = [dep |-> t, next |-> walk[o].next \ {t}, told |-> {}, call |-> NoObject]
      /\ \A x \in Objects : x # o => walk'[x] = walk[x]
      /\ walk' = [walk EXCEPT ![o] = walk'[o]]
  BY <1>1, <1>2 DEF Walks
<1>4. walk'[o] \in Walks
  BY <1>2, <1>3 DEF Walks
<1>5. TypeOK'
  <2>1. walk' \in [Objects -> Walks]
    BY <1>2, <1>3, <1>4
  <2> QED BY <1>1, <2>1 DEF IInv, TypeOK
<1>6. ListInv'
  <2>1. ASSUME NEW x \in Objects, NEW u \in Types, x \in listeners[o][u]
        PROVE  o \in listening[x][u] <=> Pending(o, u, x)'
    <3>1. Pending(o, u, x)' <=> u \in walk[o].next
      BY <1>1, <1>3 DEF Pending
    <3>2. Pending(o, u, x) <=> u \in walk[o].next
      BY <1>1, <2>1, NoneAssumption DEF Pending, Untold
    <3>3. o \in listening[x][u] <=> Pending(o, u, x)
      BY <2>1, Innermost DEF IInv, LinkInv, BackInv
    <3> QED BY <3>1, <3>2, <3>3
  <2> QED BY <1>1, <1>3, <2>1, WalkingKeepsLists
<1>7. PointerInv'
  <2>1. \A y \in Objects : walk'[y].told \subseteq walk[y].told
    BY <1>3
  <2> SUFFICES ASSUME NEW x \in Objects, NEW y \in Objects, NEW u \in Types,
                      pointer'[x][u] = y
               PROVE  /\ life'[x] = "alive" /\ y \in listening'[x][u]
                      /\ Detached(y)' => x \notin walk'[y].told
    BY DEF PointerInv
  <2>3. pointer[x][u] = y
    BY <1>1
  <2>4. /\ life[x] = "alive" /\ y \in listening[x][u]
        /\ Detached(y) => x \notin walk[y].told
    BY <2>3 DEF IInv, PointerInv
  <2> QED BY <1>1, <2>1, <2>4 DEF Detached
<1>8. WalkInv'
  <2> SUFFICES ASSUME NEW x \in Objects
               PROVE  /\ Detached(x)' \/ walk'[x] = NotWalking
                      /\ walk'[x].dep \notin walk'[x].next
                      /\ walk'[x].call # NoObject =>
                           walk'[x].dep \in Types /\ walk'[x].call \in walk'[x].told
    BY DEF WalkInv
  <2>1. CASE x = o
    BY <1>1, <1>3, <2>1, Innermost DEF IInv, WalkInv, Detached
  <2>2. CASE x # o
    BY <1>1, <1>3, <2>2 DEF IInv, WalkInv, Detached
  <2> QED BY <2>1, <2>2
<1> QED BY <1>5, <1>6, <1>7, <1>8 DEF IInv, ListInv

LEMMA TellKeepsInv ==
  ASSUME IInv, running # <<>>, NEW o \in Objects, o = Head(running),
         NEW l \in Objects, Tell(o, l)
  PROVE  IInv'
<1>1. /\ walk[o].call = NoObject /\ l \in Untold(o)
      /\ walk' = [walk EXCEPT ![o].told = @ \cup {l}, ![o].call = l]
      /\ pointer' = Forgets(l, o)
      /\ UNCHANGED <<life, listening, listeners, running>>
  BY DEF Tell, lists
<1>2. walk \in [Objects -> Walks] /\ walk[o] \in Walks
  BY DEF IInv, TypeOK
<1>3. /\ walk'[o] = [dep |-> walk[o].dep, next |-> walk[o].next,
                     told |-> walk[o].told \cup {l}, call |-> l]
      /\ \A x \in Objects : x # o => walk'[x] = walk[x]
      /\ walk' = [walk EXCEPT ![o] = walk'[o]]
  BY <1>1, <1>2 DEF Walks
<1>4. walk'[o] \in Walks
  BY <1>2, <1>3 DEF Walks
<1>5. /\ pointer' \in [Objects -> [Types -> Objects \cup {NoObject}]]
      /\ \A x \in Objects, u \in Types :
           pointer'[x][u] = IF x = l /\ pointer[x][u] = o THEN NoObject ELSE pointer[x][u]
  BY <1>1 DEF IInv, TypeOK, Forgets
<1>6. TypeOK'
  BY <1>1, <1>2, <1>3, <1>4, <1>5 DEF IInv, TypeOK
<1>7. /\ walk[o].dep \in Types
      /\ l \notin walk[o].told
  BY <1>1, <1>2 DEF Untold, Walks
<1>8. ListInv'
  <2>1. ASSUME NEW x \in Objects, NEW u \in Types, x \in listeners[o][u]
        PROVE  o \in listening[x][u] <=> Pending(o, u, x)'
    <3>1. Pending(o, u, x)' <=> Pending(o, u, x)
      BY <1>1, <1>3, <1>7, NoneAssumption DEF Pending
    <3>2. o \in listening[x][u] <=> Pending(o, u, x)
      BY <2>1, Innermost DEF IInv, LinkInv, BackInv
    <3> QED BY <3>1, <3>2
  <2> QED BY <1>1, <1>3, <2>1, WalkingKeepsLists
<1>9. PointerInv'
  <2>1. \A x, y \in Objects : x \in walk'[y].told => x \in walk[y].told \/ (x = l /\ y = o)
    BY <1>3
  <2>2. \A x, y \in Objects, u \in Types :
          pointer'[x][u] = y => pointer[x][u] = y /\ ~(x = l /\ y = o)
    BY <1>5, NoneAssumption
  <2> SUFFICES ASSUME NEW x \in Objects, NEW y \in Objects, NEW u \in Types,
                      pointer'[x][u] = y
               PROVE  /\ life'[x] = "alive" /\ y \in listening'[x][u]
                      /\ Detached(y)' => x \notin walk'[y].told
    BY DEF PointerInv
  <2>3. pointer[x][u] = y
    BY <2>2
  <2>4. /\ life[x] = "alive" /\ y \in listening[x][u]
        /\ Detached(y) => x \notin walk[y].told
    BY <2>3 DEF IInv, PointerInv
  <2> QED BY <1>1, <2>1, <2>2, <2>4 DEF Detached
<1>10. WalkInv'
  <2> SUFFICES ASSUME NEW x \in Objects
               PROVE  /\ Detached(x)' \/ walk'[x] = NotWalking
                      /\ walk'[x].dep \notin walk'[x].next
                      /\ walk'[x].call # NoObject =>
                           walk'[x].dep \in Types /\ walk'[x].call \in walk'[x].told
    BY DEF WalkInv
  <2>1. CASE x = o
    BY <1>1, <1>3, <1>7, <2>1, Innermost DEF IInv, WalkInv, Detached
  <2>2. CASE x # o
    BY <1>1, <1>3, <2>2 DEF IInv, WalkInv, Detached
  <2> QED BY <2>1, <2>2
<1> QED BY <1>6, <1>8, <1>9, <1>10 DEF IInv, ListInv

LEMMA TellDyingKeepsInv ==
  ASSUME IInv, running # <<>>, NEW o \in Objects, o = Head(running),
         NEW l \in Objects, TellDying(o, l)
  PROVE  IInv'
<1>1. /\ walk[o].call = NoObject /\ l \in Untold(o) /\ life[l] = "dying"
      /\ walk' = [walk EXCEPT ![o].told = @ \cup {l}]
      /\ listening' = Erased(listening, l, walk[o].dep, o)
      /\ UNCHANGED <<life, listeners, pointer, running>>
  BY DEF TellDying
<1>2. walk \in [Objects -> Walks] /\ walk[o] \in Walks
  BY DEF IInv, TypeOK
<1>3. /\ walk'[o] = [dep |-> walk[o].dep, next |-> walk[o].next,
                     told |-> walk[o].told \cup {l}, call |-> walk[o].call]
      /\ \A x \in Objects : x # o => walk'[x] = walk[x]
      /\ walk' = [walk EXCEPT ![o] = walk'[o]]
  BY <1>1, <1>2 DEF Walks
<1>4. walk'[o] \in Walks
  BY <1>2, <1>3 DEF Walks
<1>5. /\ walk[o].dep \in Types /\ walk[o].dep \notin walk[o].next
      /\ l \notin walk[o].told
  BY <1>1, <1>2 DEF Untold, Walks, IInv, WalkInv
<1>6. /\ listening' \in Lists
      /\ \A x, y \in Objects, u \in Types :
           y \in listening'[x][u] <=>
             y \in listening[x][u] /\ ~(x = l /\ u = walk[o].dep /\ y = o)
  BY <1>1, <1>5 DEF IInv, TypeOK, Erased, Lists
<1>7. TypeOK'
  BY <1>1, <1>2, <1>3, <1>4, <1>6 DEF IInv, TypeOK, Lists
<1>8. ListInv'
  <2>1. ASSUME NEW x \in Objects, NEW u \in Types, x \in listeners[o][u]
        PROVE  o \in listening'[x][u] <=> Pending(o, u, x)'
    <3>1. Pending(o, u, x)' <=> Pending(o, u, x) /\ ~(x = l /\ u = walk[o].dep)
      BY <1>1, <1>3, <1>5, NoneAssumption DEF Pending
    <3>2. o \in listening[x][u] <=> Pending(o, u, x)
      BY <2>1, Innermost DEF IInv, LinkInv, BackInv
    <3> QED BY <1>6, <3>1, <3>2
  <2> QED BY <1>1, <1>3, <1>6, <2>1, WalkingKeepsLists
<1>9. PointerInv'
  BY <1>1, <1>3, <1>6 DEF IInv, PointerInv, Detached
<1>10. WalkInv'
  BY <1>1, <1>3, Innermost DEF IInv, WalkInv, Detached
<1> QED BY <1>7, <1>8, <1>9, <1>10 DEF IInv, ListInv

LEMMA ReturnKeepsInv ==
  ASSUME IInv, running # <<>>, NEW o \in Objects, o = Head(running), Return(o)
  PROVE  IInv'
<1> DEFINE l == walk[o].call
<1>1. /\ l # NoObject
      /\ walk' = [walk EXCEPT ![o].call = NoObject]
      /\ listening' = Erased(listening, l, walk[o].dep, o)
      /\ UNCHANGED <<life, listeners, pointer, running>>
  BY DEF Return
<1>2. walk \in [Objects -> Walks] /\ walk[o] \in Walks
  BY DEF IInv, TypeOK
<1>3. /\ walk'[o] = [dep |-> walk[o].dep, next |-> walk[o].next,
                     told |-> walk[o].told, call |-> NoObject]
      /\ \A x \in Objects : x # o => walk'[x] = walk[x]
      /\ walk' = [walk EXCEPT ![o] = walk'[o]]
  BY <1>1, <1>2 DEF Walks
<1>4. walk'[o] \in Walks
  BY <1>2, <1>3 DEF Walks
<1>5. /\ walk[o].dep \in Types /\ walk[o].dep \notin walk[o].next
      /\ l \in walk[o].told /\ l \in Objects
  BY <1>1, <1>2 DEF Walks, IInv, WalkInv
<1>6. /\ listening' \in Lists
      /\ \A x, y \in Objects, u \in Types :
           y \in listening'[x][u] <=>
             y \in listening[x][u] /\ ~(x = l /\ u = walk[o].dep /\ y = o)
  <2> HIDE DEF l
  <2>1. PICK t : t = walk[o].dep /\ t \in Types
    BY <1>5
  <2>2. listening \in Lists /\ l \in Objects /\ listening' = Erased(listening, l, t, o)
    BY <1>1, <1>5, <2>1 DEF IInv, TypeOK, Lists
  <2>3. QED
    BY <2>1, <2>2 DEF Erased, Lists
<1>7. TypeOK'
  BY <1>1, <1>2, <1>3, <1>4, <1>6 DEF IInv, TypeOK, Lists
<1>8. ListInv'
  <2>1. ASSUME NEW x \in Objects, NEW u \in Types, x \in listeners[o][u]
        PROVE  o \in listening'[x][u] <=> Pending(o, u, x)'
    <3>1. Pending(o, u, x)' <=> Pending(o, u, x) /\ ~(x = l /\ u = walk[o].dep)
      BY <1>1, <1>3, <1>5, NoneAssumption DEF Pending
    <3>2. o \in listening[x][u] <=> Pending(o, u, x)
      BY <2>1, Innermost DEF IInv, LinkInv, BackInv
    <3> QED BY <1>6, <3>1, <3>2
  <2> QED BY <1>1, <1>3, <1>6, <2>1, WalkingKeepsLists
<1>9. PointerInv'
  BY <1>1, <1>3, <1>5, <1>6, Innermost DEF IInv, PointerInv, Detached
<1>10. WalkInv'
  BY <1>1, <1>3, Innermost DEF IInv, WalkInv, Detached
<1> QED BY <1>7, <1>8, <1>9, <1>10 DEF IInv, ListInv

LEMMA EndKeepsInv ==
  ASSUME IInv, running # <<>>, NEW o \in Objects, o = Head(running), End(o)
  PROVE  IInv'
<1>1. /\ walk[o].call = NoObject /\ Untold(o) = {} /\ walk[o].next = {}
      /\ life' = [life EXCEPT ![o] = "gone"]
      /\ listeners' = [ForgottenByAll(o) EXCEPT ![o] = Nobody]
      /\ listening' = [listening EXCEPT ![o] = Nobody]
      /\ walk' = [walk EXCEPT ![o] = NotWalking]
      /\ running' = Tail(running)
      /\ UNCHANGED pointer
  BY DEF End
<1>2. /\ life[o] = "dying" /\ life'[o] = "gone"
      /\ \A x \in Objects : x # o => life'[x] = life[x]
      /\ walk'[o] = NotWalking
      /\ \A x \in Objects : x # o => walk'[x] = walk[x]
  BY <1>1, Innermost DEF IInv, TypeOK, Detached
<1>3. /\ listening' \in Lists
      /\ \A x, y \in Objects, u \in Types :
           y \in listening'[x][u] <=> y \in listening[x][u] /\ x # o
  BY <1>1 DEF IInv, TypeOK, Lists, Nobody
<1>4. /\ listeners' \in Lists
      /\ \A x, y \in Objects, u \in Types :
           x \in listeners'[y][u] <=>
             x \in listeners[y][u] /\ y # o /\ ~(x = o /\ y \in listening[o][u])
  <2>1. ForgottenByAll(o) \in Lists
    BY DEF IInv, TypeOK, Lists, ForgottenByAll
  <2>2. \A x, y \in Objects, u \in Types :
          x \in ForgottenByAll(o)[y][u] <=>
            x \in listeners[y][u] /\ ~(x = o /\ y \in listening[o][u])
    BY DEF IInv, TypeOK, ForgottenByAll
  <2> QED BY <1>1, <2>1, <2>2 DEF Lists, Nobody
<1>5. running' \in Seq(Objects)
  BY <1>1 DEF IInv, TypeOK
<1>6. TypeOK'
  <2>1. NotWalking \in Walks
    BY DEF NotWalking, Walks
  <2>2. walk' \in [Objects -> Walks]
    BY <1>1, <2>1 DEF IInv, TypeOK
  <2>3. life' \in [Objects -> {"unborn", "alive", "dying", "gone"}]
    BY <1>1 DEF IInv, TypeOK
  <2> QED BY <1>1, <1>3, <1>4, <1>5, <2>2, <2>3 DEF IInv, TypeOK, Lists
<1>7. \A x \in Objects, u \in Types : o \notin listening[x][u]
  <2> SUFFICES ASSUME NEW x \in Objects, NEW u \in Types, o \in listening[x][u]
               PROVE  FALSE
    OBVIOUS
  <2>1. x \in listeners[o][u] /\ Pending(o, u, x)
    BY <1>2 DEF IInv, LinkInv, Detached
  <2>2. u = walk[o].dep /\ x \notin walk[o].told
    BY <1>1, <2>1, NoneAssumption DEF Pending
  <2>3. x \in Untold(o)
    BY <2>1, <2>2, NoneAssumption DEF Untold
  <2> QED BY <1>1, <2>3
<1>8. LinkInv'
  <2> SUFFICES ASSUME NEW x \in Objects, NEW y \in Objects, NEW u \in Types,
                      y \in listening'[x][u]
               PROVE  /\ Exists(x)' /\ Exists(y)'
                      /\ x \in listeners'[y][u]
                      /\ Detached(y)' => Pending(y, u, x)'
    BY DEF LinkInv
  <2>1. x # o /\ y # o /\ y \in listening[x][u]
    BY <1>3, <1>7
  <2>2. /\ Exists(x) /\ Exists(y)
        /\ x \in listeners[y][u]
        /\ Detached(y) => Pending(y, u, x)
    BY <2>1 DEF IInv, LinkInv
  <2> QED BY <1>2, <1>4, <2>1, <2>2 DEF Exists, Detached, Pending
<1>9. BackInv'
  <2> SUFFICES ASSUME NEW x \in Objects, NEW y \in Objects, NEW u \in Types,
                      x \in listeners'[y][u],
                      life'[y] = "alive" \/ (Detached(y)' /\ Pending(y, u, x)')
               PROVE  y \in listening'[x][u]
    BY DEF BackInv
  <2>1. y # o /\ x \in listeners[y][u] /\ ~(x = o /\ y \in listening[o][u])
    BY <1>4
  <2>2. life[y] = "alive" \/ (Detached(y) /\ Pending(y, u, x))
    BY <1>2, <2>1 DEF Detached, Pending
  <2>3. y \in listening[x][u]
    BY <2>1, <2>2 DEF IInv, BackInv
  <2> QED BY <1>3, <2>1, <2>3
<1>10. EmptyInv'
  <2> SUFFICES ASSUME NEW y \in Objects, life'[y] \in {"unborn", "gone"}
               PROVE  listeners'[y] = Nobody
    BY DEF EmptyInv
  <2>1. \A u \in Types : listeners'[y][u] = {}
    <3> SUFFICES ASSUME NEW u \in Types, NEW x \in listeners'[y][u]
                 PROVE  FALSE
      OBVIOUS
    <3>1. x \in Objects
      BY <1>4 DEF Lists
    <3>2. y # o /\ x \in listeners[y][u]
      BY <1>4, <3>1
    <3>3. listeners[y] = Nobody
      BY <1>2, <3>2 DEF IInv, EmptyInv
    <3> QED BY <3>2, <3>3 DEF Nobody
  <2> QED BY <1>4, <2>1 DEF Lists, Nobody
<1>11. PointerInv'
  <2> SUFFICES ASSUME NEW x \in Objects, NEW y \in Objects, NEW u \in Types,
                      pointer'[x][u] = y
               PROVE  /\ life'[x] = "alive" /\ y \in listening'[x][u]
                      /\ Detached(y)' => x \notin walk'[y].told
    BY DEF PointerInv
  <2>1. /\ life[x] = "alive" /\ y \in listening[x][u]
        /\ Detached(y) => x \notin walk[y].told
    BY <1>1 DEF IInv, PointerInv
  <2>2. x # o /\ y # o
    BY <1>2, <1>7, <2>1
  <2> QED BY <1>2, <1>3, <2>1, <2>2 DEF Detached
<1>12. WalkInv'
  <2> SUFFICES ASSUME NEW x \in Objects
               PROVE  /\ Detached(x)' \/ walk'[x] = NotWalking
                      /\ walk'[x].dep \notin walk'[x].next
                      /\ walk'[x].call # NoObject =>
                           walk'[x].dep \in Types /\ walk'[x].call \in walk'[x].told
    BY DEF WalkInv
  <2>1. CASE x = o
    BY <1>2, <2>1 DEF NotWalking
  <2>2. CASE x # o
    BY <1>2, <2>2 DEF IInv, WalkInv, Detached
  <2> QED BY <2>1, <2>2
<1>13. /\ \A i \in DOMAIN running' : /\ i + 1 \in DOMAIN running
                                     /\ running'[i] = running[i + 1]
                                     /\ i + 1 # 1
       /\ \A i \in DOMAIN running : i # 1 => /\ i - 1 \in DOMAIN running'
                                             /\ running'[i - 1] = running[i]
       /\ DOMAIN running' \subseteq Nat
  BY <1>1 DEF IInv, TypeOK
<1>14. RunningInv'
  <2>1. ASSUME NEW x \in Objects
        PROVE  Detached(x)' <=> \E i \in DOMAIN running' : running'[i] = x
    <3>1. CASE x = o
      <4>1. ~Detached(x)'
        BY <1>2, <3>1 DEF Detached
      <4>2. ASSUME NEW i \in DOMAIN running', running'[i] = x
            PROVE  FALSE
        BY <4>2, <3>1, <1>13, Innermost
      <4> QED BY <4>1, <4>2
    <3>2. CASE x # o
      <4>1. Detached(x)' <=> \E i \in DOMAIN running : running[i] = x
        BY <1>2, <3>2 DEF IInv, RunningInv, Detached
      <4>2. ASSUME NEW i \in DOMAIN running, running[i] = x
            PROVE  \E j \in DOMAIN running' : running'[j] = x
        <5>1. i # 1
          BY <4>2, <3>2, Innermost
        <5> QED BY <4>2, <5>1, <1>13
      <4>3. ASSUME NEW j \in DOMAIN running', running'[j] = x
            PROVE  \E i \in DOMAIN running : running[i] = x
        BY <4>3, <1>13
      <4> QED BY <4>1, <4>2, <4>3
    <3> QED BY <3>1, <3>2
  <2>2. ASSUME NEW i \in DOMAIN running', NEW j \in DOMAIN running', i < j
        PROVE  /\ running'[i] # running'[j]
               /\ walk'[running'[j]].dep # NoType =>
                    running'[j] \notin listening'[running'[i]][walk'[running'[j]].dep]
    <3>1. /\ i + 1 \in DOMAIN running /\ j + 1 \in DOMAIN running /\ i + 1 < j + 1
          /\ running'[i] = running[i + 1] /\ running'[j] = running[j + 1]
          /\ j + 1 # 1
      BY <2>2, <1>13
    <3>2. /\ running[i + 1] # running[j + 1]
          /\ walk[running[j + 1]].dep # NoType =>
               running[j + 1] \notin listening[running[i + 1]][walk[running[j + 1]].dep]
      BY <3>1 DEF IInv, RunningInv
    <3>3. /\ running[i + 1] \in Objects /\ running[j + 1] \in Objects
          /\ running[j + 1] # o
      BY <3>1, RunningDies, Innermost DEF IInv
    <3>4. walk'[running'[j]] = walk[running[j + 1]]
      BY <1>2, <3>1, <3>3
    <3>5. walk[running[j + 1]].dep \in Types \cup {NoType}
      BY <3>3 DEF IInv, TypeOK, Walks
    <3> QED BY <1>3, <3>1, <3>2, <3>3, <3>4, <3>5
  <2> QED BY <2>1, <2>2 DEF RunningInv
<1> QED BY <1>6, <1>8, <1>9, <1>10, <1>11, <1>12, <1>14 DEF IInv

LEMMA NextKeepsInv == IInv /\ [Next]_vars => IInv'
<1> SUFFICES ASSUME IInv, [Next]_vars PROVE IInv'
  OBVIOUS
<1>1. CASE Users
  BY <1>1, CreateKeepsInv, DestroyKeepsInv, ListenKeepsInv, UnlistenKeepsInv, PointKeepsInv,
     UnpointKeepsInv
  DEF Users
<1>2. CASE running # <<>> /\ Destructor(Head(running))
  <2> DEFINE o == Head(running)
  <2>1. o \in Objects
    BY <1>2, Innermost
  <2> QED BY <1>2, <2>1, NextListKeepsInv, TellKeepsInv, TellDyingKeepsInv, ReturnKeepsInv,
             EndKeepsInv
          DEF Destructor
<1>3. CASE UNCHANGED vars
  BY <1>3 DEF vars, lists, IInv, TypeOK, LinkInv, BackInv, EmptyInv, PointerInv, WalkInv,
              RunningInv, Exists, Detached, Pending
<1> QED BY <1>1, <1>2, <1>3 DEF Next

\* The strengthened invariant holds of every state.
THEOREM Invariance == Spec => []IInv
BY InitInv, NextKeepsInv, PTL DEF Spec

-----------------------------------------------------------------------------
(* The properties *)

\* Every variable keeps its type, and the stack of destructors holds objects.
THEOREM TypeCorrect == Spec => []TypeOK
<1>1. IInv => TypeOK
  BY DEF IInv
<1> QED BY <1>1, Invariance, PTL

\* Whatever the lists of ~CObject and its callees lead to exists, destructors
\* within destructors included.
THEOREM ListsSafe == Spec => []ListsLeadToObjects
<1>1. IInv => ListsLeadToObjects
  <2> SUFFICES ASSUME IInv, NEW o \in Objects, NEW t \in Types
               PROVE  /\ \A p \in listening[o][t] : Exists(p)
                      /\ life[o] = "alive" => \A l \in listeners[o][t] : Exists(l)
                      /\ Detached(o) =>
                           /\ \A l \in Untold(o) : Exists(l)
                           /\ t \in walk[o].next => \A l \in listeners[o][t] : Exists(l)
    BY DEF ListsLeadToObjects
  <2>1. \A u \in Types : listening[o][u] \subseteq Objects /\ listeners[o][u] \subseteq Objects
    BY DEF IInv, TypeOK
  <2>2. \A x, y \in Objects, u \in Types : y \in listening[x][u] => Exists(x) /\ Exists(y)
    BY DEF IInv, LinkInv
  <2>3. \A p \in listening[o][t] : Exists(p)
    BY <2>1, <2>2
  <2>4. ASSUME NEW l \in listeners[o][t], life[o] = "alive"
        PROVE  Exists(l)
    BY <2>1, <2>2, <2>4 DEF IInv, BackInv
  <2>5. ASSUME Detached(o), NEW l \in Untold(o)
        PROVE  Exists(l)
    <3>1. walk[o].dep \in Types /\ l \in listeners[o][walk[o].dep] /\ l \notin walk[o].told
      BY <2>5 DEF IInv, TypeOK, Walks, Untold
    <3>2. l \in Objects /\ Pending(o, walk[o].dep, l)
      BY <2>1, <3>1 DEF Pending
    <3> QED BY <2>2, <2>5, <3>1, <3>2 DEF IInv, BackInv
  <2>6. ASSUME Detached(o), t \in walk[o].next, NEW l \in listeners[o][t]
        PROVE  Exists(l)
    <3>1. l \in Objects /\ Pending(o, t, l)
      BY <2>1, <2>6 DEF Pending
    <3> QED BY <2>2, <2>6, <3>1 DEF IInv, BackInv
  <2> QED BY <2>3, <2>4, <2>5, <2>6
<1> QED BY <1>1, Invariance, PTL

\* A pointer kept with a death dependence is never left dangling.
THEOREM PointersSafe == Spec => []PointersAreValid
<1>1. IInv => PointersAreValid
  BY DEF IInv, PointerInv, LinkInv, PointersAreValid
<1> QED BY <1>1, Invariance, PTL

\* The two lists of two living objects say the same.
THEOREM ListsMatch == Spec => []ListsAgree
<1>1. IInv => ListsAgree
  BY LivingAgree DEF IInv, ListsAgree
<1> QED BY <1>1, Invariance, PTL

\* No list changes under the loop of ~CObject that walks over it.
THEOREM ListsStay == Spec => WalkedListsStay
<1> DEFINE Stay == \A o \in Objects, t \in Types :
                     Detached(o) /\ walk[o].dep = t /\ walk'[o].dep = t =>
                       listeners'[o][t] = listeners[o][t]
<1>1. ASSUME IInv, [Next]_vars
      PROVE  [Stay]_vars
  <2> SUFFICES ASSUME Next, NEW o \in Objects, NEW t \in Types, Detached(o),
                      walk[o].dep = t, walk'[o].dep = t
               PROVE  listeners'[o][t] = listeners[o][t]
    BY <1>1 DEF vars
  <2> USE <1>1
  <2>1. CASE Users
    <3>1. ASSUME NEW x \in Objects, NEW y \in Objects, NEW u \in Types, Listen(x, y, u)
          PROVE  listeners'[o][t] = listeners[o][t]
      BY <3>1, AddKeepsLists DEF Listen, IInv, ListInv, Exists, Detached
    <3>2. ASSUME NEW x \in Objects, NEW y \in Objects, NEW u \in Types, Unlisten(x, y, u)
          PROVE  listeners'[o][t] = listeners[o][t]
      BY <3>2, DeleteKeepsLists DEF Unlisten, IInv, ListInv, LinkInv, Exists, Detached
    <3>3. ASSUME NEW x \in Objects, NEW y \in Objects, NEW u \in Types, Point(x, y, u)
          PROVE  listeners'[o][t] = listeners[o][t]
      BY <3>3, PointKeepsLists DEF IInv, ListInv, Detached
    <3>4. ASSUME NEW x \in Objects, NEW u \in Types, Unpoint(x, u)
          PROVE  listeners'[o][t] = listeners[o][t]
      <4>1. pointer[x][u] \in Objects /\ Exists(x) /\ Exists(pointer[x][u])
        BY <3>4 DEF Unpoint, IInv, TypeOK, PointerInv, LinkInv
      <4> QED BY <3>4, <4>1, DeleteKeepsLists DEF Unpoint, IInv, ListInv, Detached
    <3>5. ASSUME NEW x \in Objects, Create(x) \/ Destroy(x)
          PROVE  listeners'[o][t] = listeners[o][t]
      BY <3>5 DEF Create, Destroy, lists
    <3> QED BY <2>1, <3>1, <3>2, <3>3, <3>4, <3>5 DEF Users
  <2>2. CASE running # <<>> /\ Destructor(Head(running))
    <3> DEFINE e == Head(running)
    <3>1. CASE End(e)
      <4>1. /\ e \in Objects
            /\ walk'[e].dep = NoType
            /\ listeners' = [ForgottenByAll(e) EXCEPT ![e] = Nobody]
        BY <2>2, <3>1, Innermost DEF End, IInv, TypeOK, NotWalking
      <4>2. o # e
        BY <4>1, NoneAssumption
      <4>3. PICK j \in DOMAIN running : running[j] = o
        BY DEF IInv, RunningInv
      <4>4. o \notin listening[e][t]
        <5>1. 1 \in DOMAIN running /\ running[1] = e /\ 1 < j
          BY <2>2, <4>2, <4>3, Innermost
        <5> QED BY <4>3, <5>1, NoneAssumption DEF IInv, RunningInv
      <4> QED BY <4>1, <4>2, <4>4 DEF IInv, TypeOK, ForgottenByAll
    <3>2. CASE ~End(e)
      BY <2>2, <3>2 DEF Destructor, NextList, Tell, TellDying, Return, lists
    <3> QED BY <3>1, <3>2
  <2> QED BY <2>1, <2>2 DEF Next
<1>2. Spec => [][Stay]_vars
  BY <1>1, Invariance, PTL DEF Spec
<1> QED BY <1>2 DEF WalkedListsStay
=============================================================================
