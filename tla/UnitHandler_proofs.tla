------------------------- MODULE UnitHandler_proofs -------------------------
(***************************************************************************)
(* Proofs about UnitHandler, for any number of ids and cells and any rate  *)
(* of slow updates, whatever ids scripts ask for.  Only the refinement of  *)
(* the lives of units is for scripts that ask for no unit that waits for   *)
(* deletion.                                                               *)
(***************************************************************************)
EXTENDS UnitHandler, SequenceTheorems, TLAPS

-----------------------------------------------------------------------------
(* Lists of distinct units *)

Firsts(s, k) == {s[i] : i \in 1..k}
Elems(s) == {s[i] : i \in 1..Len(s)}
Distinct(s) == \A i, j \in 1..Len(s) : s[i] = s[j] => i = j

LEMMA SeqLength ==
  ASSUME NEW S, NEW n \in Nat, NEW t \in [1..n -> S]
  PROVE  t \in Seq(S) /\ Len(t) = n
<1>1. t \in Seq(S)
  OBVIOUS
<1>2. DOMAIN t = 1..n /\ DOMAIN t = 1..Len(t) /\ Len(t) \in Nat
  BY <1>1, LenProperties
<1> QED
  BY <1>1, <1>2

LEMMA AppendFacts ==
  ASSUME NEW S, NEW s \in Seq(S), NEW x \in S
  PROVE  /\ Append(s, x) \in Seq(S) /\ Len(Append(s, x)) = Len(s) + 1
         /\ \A i \in 1..Len(s) : Append(s, x)[i] = s[i]
         /\ Append(s, x)[Len(s) + 1] = x
         /\ Elems(Append(s, x)) = Elems(s) \cup {x}
         /\ x \notin Elems(s) /\ Distinct(s) => Distinct(Append(s, x))
<1> DEFINE t == Append(s, x)
<1>1. /\ t \in Seq(S) /\ Len(t) = Len(s) + 1 /\ Len(s) \in Nat
      /\ \A i \in 1..Len(s) : t[i] = s[i]
      /\ t[Len(s) + 1] = x
  BY AppendProperties, LenProperties
<1> HIDE DEF t
<1>2. 1..Len(t) = (1..Len(s)) \cup {Len(s) + 1}
  BY <1>1
<1>3. Elems(t) = Elems(s) \cup {x}
  BY <1>1, <1>2 DEF Elems
<1>4. ASSUME x \notin Elems(s), Distinct(s) PROVE Distinct(t)
  <2>1. \A i \in 1..Len(s) : t[i] # x
    BY <1>1, <1>4 DEF Elems
  <2> QED
    BY <1>1, <1>2, <1>4, <2>1 DEF Distinct
<1> QED
  BY <1>1, <1>3, <1>4 DEF t

LEMMA PrefixFacts ==
  ASSUME NEW S, NEW s \in Seq(S), NEW n \in 0..Len(s)
  PROVE  /\ SubSeq(s, 1, n) \in Seq(S)
         /\ Len(SubSeq(s, 1, n)) = n
         /\ \A i \in 1..n : SubSeq(s, 1, n)[i] = s[i]
<1>1. \A i \in 1..n : s[i] \in S
  BY ElementOfSeq
<1> QED
  BY <1>1, SubSeqProperties

LEMMA FrontFacts ==
  ASSUME NEW S, NEW s \in Seq(S), s # <<>>
  PROVE  LET t == SubSeq(s, 1, Len(s) - 1)
         IN  /\ t \in Seq(S) /\ s[Len(s)] \in Elems(s)
             /\ Distinct(s) => Distinct(t) /\ Elems(t) = Elems(s) \ {s[Len(s)]}
<1> DEFINE n == Len(s) - 1
           t == SubSeq(s, 1, n)
<1>1. Len(s) \in Nat /\ Len(s) # 0 /\ n \in 0..Len(s)
  BY LenProperties, EmptySeq
<1>3. t \in Seq(S) /\ Len(t) = n /\ \A i \in 1..n : t[i] = s[i]
  BY <1>1, PrefixFacts
<1> HIDE DEF t
<1>4. 1..Len(s) = (1..n) \cup {Len(s)} /\ Len(s) \notin 1..n
  BY <1>1
<1>5. s[Len(s)] \in Elems(s)
  BY <1>4 DEF Elems
<1>6. ASSUME Distinct(s) PROVE Distinct(t) /\ Elems(t) = Elems(s) \ {s[Len(s)]}
  <2>1. Distinct(t)
    BY <1>1, <1>3, <1>4, <1>6 DEF Distinct
  <2>2. \A i \in 1..n : s[i] # s[Len(s)]
    BY <1>1, <1>4, <1>6 DEF Distinct
  <2> QED
    BY <1>3, <1>4, <2>1, <2>2 DEF Elems
<1> QED
  BY <1>3, <1>5, <1>6 DEF t

LEMMA EraseFacts ==
  ASSUME NEW S, NEW s \in Seq(S), Distinct(s), NEW p \in 1..Len(s),
         NEW k \in 0..Len(s)
  PROVE  LET t == Erase(s, p)
             m == IF k >= p THEN k - 1 ELSE k
         IN  /\ t \in Seq(S) /\ Len(t) = Len(s) - 1 /\ Distinct(t)
             /\ Elems(t) = Elems(s) \ {s[p]}
             /\ m \in 0..Len(t)
             /\ Firsts(t, m) = Firsts(s, k) \ {s[p]}
<1> DEFINE n == Len(s) - 1
           t == Erase(s, p)
           m == IF k >= p THEN k - 1 ELSE k
<1>1. Len(s) \in Nat /\ n \in Nat /\ p \in Nat /\ p >= 1 /\ p <= n + 1 /\ Len(s) = n + 1
  BY LenProperties
<1>2. \A i \in 1..(n + 1) : s[i] \in S
  BY <1>1, ElementOfSeq
<1>3. t \in [1..n -> S] /\ \A i \in 1..n : t[i] = IF i < p THEN s[i] ELSE s[i + 1]
  BY <1>1, <1>2 DEF Erase
<1>4. t \in Seq(S)
  BY <1>1, <1>3
<1> HIDE DEF t
<1>5. Len(t) = n
  BY <1>1, <1>3, <1>4, SeqLength
<1>6. Distinct(t)
  <2> SUFFICES ASSUME NEW i \in 1..n, NEW j \in 1..n, t[i] = t[j] PROVE i = j
    BY <1>5 DEF Distinct
  <2> DEFINE at(h) == IF h < p THEN h ELSE h + 1
  <2>1. at(i) \in 1..Len(s) /\ at(j) \in 1..Len(s) /\ s[at(i)] = s[at(j)]
    BY <1>1, <1>3
  <2>2. at(i) = at(j)
    BY <2>1 DEF Distinct
  <2> QED
    BY <1>1, <2>2
<1>7. m \in 0..n
  BY <1>1
<1>8. ASSUME NEW l \in 0..(n + 1)
      PROVE  {t[i] : i \in 1..(IF l >= p THEN l - 1 ELSE l)} = {s[i] : i \in 1..l} \ {s[p]}
  <2> DEFINE h == IF l >= p THEN l - 1 ELSE l
  <2>0. h \in 0..n /\ l \in Nat
    BY <1>1
  <2>1. ASSUME NEW i \in 1..h PROVE t[i] \in {s[j] : j \in 1..l} \ {s[p]}
    <3>1. CASE i < p
      <4>1. i \in 1..l /\ i \in 1..Len(s) /\ i # p /\ t[i] = s[i]
        BY <1>1, <1>3, <2>0, <3>1
      <4> QED
        BY <4>1 DEF Distinct
    <3>2. CASE ~(i < p)
      <4>1. i + 1 \in 1..l /\ i + 1 \in 1..Len(s) /\ i + 1 # p /\ t[i] = s[i + 1]
        BY <1>1, <1>3, <2>0, <3>2
      <4> QED
        BY <4>1 DEF Distinct
    <3> QED
      BY <3>1, <3>2
  <2>2. ASSUME NEW j \in 1..l, s[j] # s[p] PROVE s[j] \in {t[i] : i \in 1..h}
    <3>1. CASE j < p
      <4>1. j \in 1..h /\ t[j] = s[j]
        BY <1>1, <1>3, <2>0, <3>1
      <4> QED
        BY <4>1
    <3>2. CASE j > p
      <4>1. j - 1 \in 1..h /\ t[j - 1] = s[j]
        BY <1>1, <1>3, <2>0, <3>2
      <4> QED
        BY <4>1
    <3> QED
      BY <1>1, <2>2, <3>1, <3>2
  <2> QED
    BY <2>1, <2>2
<1>9. Elems(t) = Elems(s) \ {s[p]}
  <2>1. n + 1 \in 0..(n + 1) /\ n + 1 >= p /\ n + 1 - 1 = n
    BY <1>1
  <2> QED
    BY <1>1, <1>5, <1>8, <2>1 DEF Elems
<1>10. Firsts(t, m) = Firsts(s, k) \ {s[p]}
  BY <1>1, <1>8 DEF Firsts
<1> QED
  BY <1>4, <1>5, <1>6, <1>7, <1>9, <1>10 DEF t

-----------------------------------------------------------------------------
(* What the operations do to the pool and the lists *)

LEMMA TakeFacts ==
  ASSUME freeIDs \cap tempIDs = {}, NEW uid \in freeIDs, Take(uid)
  PROVE  /\ freeIDs' \cup tempIDs' = (freeIDs \cup tempIDs) \ {uid}
         /\ freeIDs' \cap tempIDs' = {}
BY DEF Take

LEMMA ListNames ==
  /\ Active = Elems(activeUnits) /\ Queued = Elems(unitsToBeRemoved)
  /\ ActiveOnce <=> Distinct(activeUnits)
  /\ QueueSound <=> Queued \subseteq Active \cap isDead /\ Distinct(unitsToBeRemoved)
BY DEF Active, Queued, ActiveOnce, QueueSound, Elems, Distinct

LEMMA NoIdFacts == NumIds \in Nat \ {0} /\ NoId \notin Ids /\ Ids \subseteq Nat
BY NumIdsAssumption DEF NoId, Ids

\* the lists and tables after the creation of o
LEMMA LoadLists ==
  ASSUME HandlerInv, NEW o \in Objects, NEW wish \in Ids \cup {NoId}, LoadUnit(o, wish)
  PROVE  /\ activeUnits' \in Seq(Objects) /\ Len(activeUnits') = Len(activeUnits) + 1
         /\ \A i \in 1..Len(activeUnits) : activeUnits'[i] = activeUnits[i]
         /\ Active' = Active \cup {o} /\ o \notin Active /\ ActiveOnce'
<1>1. o \notin Elems(activeUnits) /\ activeUnits \in Seq(Objects) /\ Distinct(activeUnits)
  BY ListNames DEF HandlerInv, TypeOK, LoadUnit
<1>2. activeUnits' = Append(activeUnits, o)
  BY DEF LoadUnit
<1>3. Active' = Elems(activeUnits') /\ (ActiveOnce' <=> Distinct(activeUnits'))
  BY DEF Active, ActiveOnce, Elems, Distinct
<1> QED
  BY <1>1, <1>2, <1>3, AppendFacts, ListNames

\* the lists and tables after the deletion of o
LEMMA DeleteLists ==
  ASSUME HandlerInv, NEW o \in Active, DeleteUnit(o)
  PROVE  /\ activeUnits' \in Seq(Objects) /\ Len(activeUnits') = Len(activeUnits) - 1
         /\ Active' = Active \ {o} /\ ActiveOnce' /\ RoundInOrder'
         /\ activeSlowUpdateUnit' \in 0..Len(activeUnits')
<1> DEFINE p == Position(o)
           k == activeSlowUpdateUnit
<1>1. activeUnits \in Seq(Objects) /\ Distinct(activeUnits) /\ Len(activeUnits) \in Nat
      /\ k \in 0..Len(activeUnits)
  BY ListNames, LenProperties DEF HandlerInv, TypeOK
<1>2. p \in 1..Len(activeUnits) /\ activeUnits[p] = o
  <2>1. \E q \in 1..Len(activeUnits) : activeUnits[q] = o
    BY DEF Active
  <2> QED
    BY <2>1 DEF Position
<1>3. /\ activeUnits' = Erase(activeUnits, p)
      /\ activeSlowUpdateUnit' = IF k >= p THEN k - 1 ELSE k
      /\ slowed' = slowed \ {o}
  BY DEF DeleteUnit, StepBack
<1> HIDE DEF p
<1>4. Active' = Elems(activeUnits') /\ (ActiveOnce' <=> Distinct(activeUnits'))
  BY DEF Active, ActiveOnce, Elems, Distinct
<1>a. ASSUME NEW t, NEW m, t = Erase(activeUnits, p), m = IF k >= p THEN k - 1 ELSE k
      PROVE  /\ t \in Seq(Objects) /\ Len(t) = Len(activeUnits) - 1
             /\ Distinct(t) /\ Elems(t) = Elems(activeUnits) \ {o}
             /\ m \in 0..Len(t)
             /\ Firsts(t, m) = Firsts(activeUnits, k) \ {o}
  BY ZenonT(60), <1>1, <1>2, <1>a, EraseFacts
<1>5. /\ activeUnits' \in Seq(Objects) /\ Len(activeUnits') = Len(activeUnits) - 1
      /\ Distinct(activeUnits') /\ Elems(activeUnits') = Elems(activeUnits) \ {o}
      /\ activeSlowUpdateUnit' \in 0..Len(activeUnits')
      /\ Firsts(activeUnits', activeSlowUpdateUnit') = Firsts(activeUnits, k) \ {o}
  BY <1>3, <1>a
<1>6. RoundInOrder'
  BY <1>3, <1>5 DEF HandlerInv, RoundInOrder, Firsts
<1> QED
  BY <1>4, <1>5, <1>6, ListNames

-----------------------------------------------------------------------------
(* The invariant *)

LEMMA Initially == Init => HandlerInv
<1> SUFFICES ASSUME Init PROVE HandlerInv
  OBVIOUS
<1>1. Len(activeUnits) = 0 /\ Len(unitsToBeRemoved) = 0 /\ 1..0 = {}
  BY EmptySeq DEF Init
<1>2. Active = {} /\ Queued = {}
  BY <1>1 DEF Active, Queued
<1>3. activeUnits \in Seq(Objects) /\ unitsToBeRemoved \in Seq(Objects)
  BY EmptySeq DEF Init
<1>4. TypeOK
  BY <1>3, NoIdFacts, SlowRateAssumption DEF Init, TypeOK, Expand, Phases
<1>5. IdsAccounted
  BY <1>2, NoIdFacts DEF Init, IdsAccounted, Expand
<1>6. DeletedOnce /\ RoundInOrder /\ ActiveOnce
  BY <1>1, <1>2 DEF Init, DeletedOnce, QueueSound, RoundInOrder, ActiveOnce
<1> QED
  BY <1>1, <1>2, <1>4, <1>5, <1>6 DEF Init, HandlerInv

LEMMA LoadStep ==
  ASSUME HandlerInv, NEW o \in Objects, NEW wish \in Ids \cup {NoId}, LoadUnit(o, wish)
  PROVE  HandlerInv'
<1>1. PICK uid \in (IF wish = NoId THEN freeIDs ELSE {wish}) :
        /\ Take(uid)
        /\ id' = [id EXCEPT ![o] = uid]
        /\ units' = [units EXCEPT ![uid] = o]
  BY DEF LoadUnit
<1>2. uid \in freeIDs /\ uid \in Ids
  BY <1>1 DEF LoadUnit, CanAddUnit, HasID, HandlerInv, TypeOK
<1>3. /\ freeIDs' \cup tempIDs' = (freeIDs \cup tempIDs) \ {uid}
      /\ freeIDs' \cap tempIDs' = {}
  BY <1>1, <1>2, TakeFacts DEF HandlerInv, IdsAccounted
<1>4. /\ activeUnits' \in Seq(Objects) /\ Len(activeUnits') = Len(activeUnits) + 1
      /\ \A i \in 1..Len(activeUnits) : activeUnits'[i] = activeUnits[i]
      /\ Active' = Active \cup {o} /\ o \notin Active /\ ActiveOnce'
      /\ Len(activeUnits) \in Nat
  BY LoadLists, LenProperties DEF HandlerInv, TypeOK
<1>5. UNCHANGED <<unitsToBeRemoved, isDead, deathScriptFinished, activeUpdateUnit,
                  rounds, phase, collected>>
  BY DEF LoadUnit
<1>6. TypeOK'
  BY <1>1, <1>2, <1>3, <1>4, <1>5 DEF HandlerInv, TypeOK, rounds
<1>7. IdsAccounted'
  <2>1. \A u \in Ids : units'[u] = (IF u = uid THEN o ELSE units[u])
    BY <1>1, <1>2 DEF HandlerInv, TypeOK
  <2>2. \A q \in Objects : id'[q] = (IF q = o THEN uid ELSE id[q])
    BY <1>1 DEF HandlerInv, TypeOK
  <2>3. Active \subseteq Objects /\ id[o] = NoId /\ NoId \notin Ids
    BY NoIdFacts, ElementOfSeq DEF HandlerInv, TypeOK, Active, LoadUnit
  <2>4. \A q \in Active : id[q] # uid /\ q # o
    BY <1>2, <1>4, <2>3 DEF HandlerInv, IdsAccounted
  <2>5. \A u \in Ids : IF u \in freeIDs' \cup tempIDs'
                       THEN units'[u] = NoUnit /\ \A q \in Objects : id'[q] # u
                       ELSE units'[u] \in Active' /\ id'[units'[u]] = u
    <3> SUFFICES ASSUME NEW u \in Ids
                 PROVE  IF u \in freeIDs' \cup tempIDs'
                        THEN units'[u] = NoUnit /\ \A q \in Objects : id'[q] # u
                        ELSE units'[u] \in Active' /\ id'[units'[u]] = u
      OBVIOUS
    <3>1. CASE u = uid
      BY <1>3, <1>4, <2>1, <2>2, <3>1
    <3>2. CASE u # uid /\ u \in freeIDs \cup tempIDs
      BY <1>3, <2>1, <2>2, <3>2 DEF HandlerInv, IdsAccounted
    <3>3. CASE u # uid /\ u \notin freeIDs \cup tempIDs
      <4>1. units[u] \in Active /\ id[units[u]] = u
        BY <3>3 DEF HandlerInv, IdsAccounted
      <4> QED
        BY <1>3, <1>4, <2>1, <2>2, <2>3, <2>4, <3>3, <4>1
    <3> QED
      BY <3>1, <3>2, <3>3
  <2>6. \A q \in Active' : id'[q] \in Ids /\ units'[id'[q]] = q
    BY <1>2, <1>4, <2>1, <2>2, <2>3, <2>4 DEF HandlerInv, IdsAccounted
  <2> QED
    BY <1>3, <2>5, <2>6 DEF IdsAccounted
<1>8. DeletedOnce'
  BY <1>4, <1>5 DEF HandlerInv, DeletedOnce, QueueSound, Queued
<1>9. RoundInOrder'
  <2>1. activeSlowUpdateUnit \in 0..Len(activeUnits)
    BY <1>4 DEF HandlerInv, TypeOK
  <2>2. \A i \in 1..activeSlowUpdateUnit : activeUnits'[i] = activeUnits[i]
    BY <1>4, <2>1
  <2> QED
    BY <1>5, <2>2 DEF HandlerInv, RoundInOrder, rounds
<1>10. \A q \in Objects : q \in Active' <=> id'[q] # NoId
  BY <1>1, <1>2, <1>4, NoIdFacts DEF HandlerInv, TypeOK
<1>11. phase' = "queueing" =>
         Queued' \subseteq {activeUnits'[i] : i \in 1..activeUpdateUnit'}
  <2>1. phase = "queueing" => \A i \in 1..activeUpdateUnit : activeUnits'[i] = activeUnits[i]
    BY <1>4 DEF HandlerInv, TypeOK
  <2> QED
    BY <1>5, <2>1 DEF HandlerInv, Queued
<1>12. /\ isDead' \subseteq Active' /\ deathScriptFinished' \subseteq Active'
       /\ activeSlowUpdateUnit' <= Len(activeUnits')
       /\ activeUpdateUnit' <= (IF phase' = "queueing" THEN Len(activeUnits') ELSE 0)
  BY <1>4, <1>5 DEF HandlerInv, TypeOK, rounds
<1> QED
  BY <1>4, <1>6, <1>7, <1>8, <1>9, <1>10, <1>11, <1>12 DEF HandlerInv

\* a step that changes neither the pool nor the active units nor what waits
LEMMA MarkStep ==
  ASSUME HandlerInv,
         isDead \subseteq isDead', isDead' \subseteq Active, deathScriptFinished' \subseteq Active,
         UNCHANGED <<activeUnits, unitsToBeRemoved, id, units, poolVars, activeUpdateUnit,
                     rounds, phase, collected>>
  PROVE  HandlerInv'
<1>1. Active' = Active /\ Queued' = Queued
  BY DEF Active, Queued
<1>2. Active \subseteq Objects
  BY ElementOfSeq DEF HandlerInv, TypeOK, Active
<1>3. TypeOK' /\ IdsAccounted'
  BY <1>1, <1>2 DEF HandlerInv, TypeOK, IdsAccounted, rounds, poolVars
<1>4. DeletedOnce' /\ RoundInOrder' /\ ActiveOnce'
  BY <1>1 DEF HandlerInv, DeletedOnce, QueueSound, RoundInOrder, ActiveOnce, rounds
<1> QED
  BY <1>1, <1>3, <1>4 DEF HandlerInv, rounds

LEMMA KillStep ==
  ASSUME HandlerInv, NEW o \in Objects, NEW finished \in BOOLEAN, ForcedKillUnit(o, finished)
  PROVE  HandlerInv'
<1>1. /\ isDead \subseteq isDead' /\ isDead' \subseteq Active
      /\ deathScriptFinished' \subseteq Active
  BY DEF HandlerInv, ForcedKillUnit, Kill
<1> QED
  BY <1>1, MarkStep DEF ForcedKillUnit

LEMMA ScriptStep ==
  ASSUME HandlerInv, NEW o \in Objects, KilledScriptFinished(o)
  PROVE  HandlerInv'
<1>1. /\ isDead' = isDead /\ isDead \subseteq Active /\ deathScriptFinished' \subseteq Active
  BY DEF HandlerInv, KilledScriptFinished
<1> QED
  BY <1>1, MarkStep DEF KilledScriptFinished

\* the queue is sound wherever scripts cannot have queued a unit again
LEMMA SoundOutside ==
  ASSUME HandlerInv, ~RecycleQueued \/ phase # "collecting"
  PROVE  QueueSound
BY DEF HandlerInv, DeletedOnce

LEMMA EmptyIsSound ==
  ASSUME unitsToBeRemoved = <<>>
  PROVE  QueueSound
<1>1. 1..Len(unitsToBeRemoved) = {}
  BY EmptySeq
<1> QED
  BY <1>1 DEF QueueSound, Queued

\* o is queued, and the queue stays sound if o was not in it
LEMMA QueueFacts ==
  ASSUME HandlerInv, NEW o \in Active, QueueDeleteUnit(o),
         UNCHANGED <<activeUnits, id, units, poolVars>>
  PROVE  /\ unitsToBeRemoved' \in Seq(Objects) /\ Queued' = Queued \cup {o}
         /\ QueueSound /\ o \notin Queued => QueueSound'
         /\ isDead' \subseteq Active' /\ deathScriptFinished' \subseteq Active'
         /\ Active' = Active /\ Active \subseteq Objects /\ IdsAccounted'
<1>1. Active' = Active /\ Active \subseteq Objects
  BY ElementOfSeq DEF HandlerInv, TypeOK, Active
<1>2. /\ isDead' = isDead \cup {o} /\ deathScriptFinished' \subseteq deathScriptFinished \cup {o}
      /\ unitsToBeRemoved' = Append(unitsToBeRemoved, o)
  BY DEF QueueDeleteUnit, Kill
<1>3. unitsToBeRemoved \in Seq(Objects) /\ o \in Objects
  BY <1>1 DEF HandlerInv, TypeOK
<1>4. /\ unitsToBeRemoved' \in Seq(Objects)
      /\ Elems(unitsToBeRemoved') = Elems(unitsToBeRemoved) \cup {o}
      /\ o \notin Elems(unitsToBeRemoved) /\ Distinct(unitsToBeRemoved)
           => Distinct(unitsToBeRemoved')
  BY <1>2, <1>3, AppendFacts
<1>5. Queued' = Elems(unitsToBeRemoved')
  BY DEF Queued, Elems
<1>6. Queued' = Queued \cup {o}
  BY <1>4, <1>5, ListNames
<1>7. QueueSound /\ o \notin Queued => QueueSound'
  <2>1. QueueSound' <=> Queued' \subseteq Active' \cap isDead' /\ Distinct(unitsToBeRemoved')
    BY DEF QueueSound, Distinct
  <2> QED
    BY <1>1, <1>2, <1>4, <1>6, <2>1, ListNames
<1>8. IdsAccounted'
  BY <1>1 DEF HandlerInv, IdsAccounted, poolVars
<1> QED
  BY <1>1, <1>2, <1>4, <1>6, <1>7, <1>8 DEF HandlerInv

LEMMA CollectStep ==
  ASSUME HandlerInv, NEW o \in Objects, NEW finished \in BOOLEAN,
         GarbageCollectUnit(o, finished)
  PROVE  HandlerInv'
<1>1. /\ o \in Active /\ (RecycleQueued \/ o \notin Queued) /\ QueueDeleteUnit(o)
      /\ phase' = "collecting" /\ collected' = id[o]
      /\ UNCHANGED <<activeUnits, id, units, poolVars, activeUpdateUnit, rounds>>
      /\ phase = "idle"
  BY DEF GarbageCollectUnit
<1>2. QueueSound
  BY <1>1, SoundOutside
<1>3. /\ unitsToBeRemoved' \in Seq(Objects) /\ (o \notin Queued => QueueSound')
      /\ isDead' \subseteq Active' /\ deathScriptFinished' \subseteq Active'
      /\ Active' = Active /\ Active \subseteq Objects /\ IdsAccounted'
  BY <1>1, <1>2, QueueFacts
<1>4. TypeOK'
  BY <1>1, <1>3 DEF HandlerInv, TypeOK, rounds, poolVars, Phases
<1>5. RoundInOrder' /\ ActiveOnce'
  BY <1>1 DEF HandlerInv, RoundInOrder, ActiveOnce, rounds
<1>6. DeletedOnce'
  BY <1>1, <1>3 DEF DeletedOnce
<1> QED
  BY <1>1, <1>3, <1>4, <1>5, <1>6 DEF HandlerInv, rounds

LEMMA QueueStep ==
  ASSUME HandlerInv, QueueNext
  PROVE  HandlerInv'
<1> DEFINE n == activeUpdateUnit
           o == activeUnits[n + 1]
<1>1. /\ phase = "queueing" /\ n < Len(activeUnits) /\ activeUpdateUnit' = n + 1
      /\ UNCHANGED <<activeUnits, id, units, poolVars, rounds, phase, collected>>
      /\ n \in Nat /\ Len(activeUnits) \in Nat
  BY LenProperties DEF HandlerInv, TypeOK, QueueNext
<1>2. n + 1 \in 1..Len(activeUnits) /\ o \in Active
  BY <1>1 DEF Active
<1>3. Queued \subseteq {activeUnits[i] : i \in 1..n}
  BY <1>1 DEF HandlerInv
<1>4. o \notin Queued
  <2>1. \A i \in 1..n : i \in 1..Len(activeUnits) /\ i # n + 1
    BY <1>1
  <2>2. \A i \in 1..n : activeUnits[i] # o
    BY <1>2, <2>1 DEF HandlerInv, ActiveOnce
  <2> QED
    BY <1>3, <2>2
<1>5. {activeUnits[i] : i \in 1..(n + 1)} = {activeUnits[i] : i \in 1..n} \cup {o}
  <2>1. 1..(n + 1) = (1..n) \cup {n + 1}
    BY <1>1
  <2> QED
    BY <2>1
<1>6. RoundInOrder' /\ ActiveOnce'
  BY <1>1 DEF HandlerInv, RoundInOrder, ActiveOnce, rounds
<1>7. CASE o \in deathScriptFinished
  <2>1. QueueDeleteUnit(o)
    BY <1>7 DEF QueueNext
  <2>2. /\ unitsToBeRemoved' \in Seq(Objects) /\ DeletedOnce' /\ Queued' = Queued \cup {o}
        /\ isDead' \subseteq Active' /\ deathScriptFinished' \subseteq Active'
        /\ Active' = Active /\ Active \subseteq Objects /\ IdsAccounted'
    <3>1. QueueSound
      BY <1>1, SoundOutside
    <3> QED
      BY <1>1, <1>2, <1>4, <2>1, <3>1, QueueFacts DEF DeletedOnce
  <2>3. TypeOK'
    BY <1>1, <2>2 DEF HandlerInv, TypeOK, rounds, poolVars
  <2>4. Queued' \subseteq {activeUnits'[i] : i \in 1..activeUpdateUnit'}
    BY <1>1, <1>3, <1>5, <2>2
  <2> QED
    BY <1>1, <1>6, <2>2, <2>3, <2>4 DEF HandlerInv, rounds
<1>8. CASE o \notin deathScriptFinished
  <2>1. UNCHANGED <<unitsToBeRemoved, isDead, deathScriptFinished>>
    BY <1>8 DEF QueueNext
  <2>2. Active' = Active /\ Queued' = Queued
    BY <1>1, <2>1 DEF Active, Queued
  <2>3. TypeOK' /\ IdsAccounted' /\ DeletedOnce'
    BY <1>1, <2>1, <2>2
    DEF HandlerInv, TypeOK, IdsAccounted, DeletedOnce, QueueSound, rounds, poolVars
  <2>4. Queued' \subseteq {activeUnits'[i] : i \in 1..activeUpdateUnit'}
    BY <1>1, <1>3, <1>5, <2>2
  <2> QED
    BY <1>1, <1>6, <2>1, <2>2, <2>3, <2>4 DEF HandlerInv, rounds
<1> QED
  BY <1>7, <1>8

\* the deletion of a unit that was deleted before, and does not live
LEMMA DeleteAgainStep ==
  ASSUME HandlerInv, DeleteNext, unitsToBeRemoved[Len(unitsToBeRemoved)] \notin Active
  PROVE  HandlerInv'
<1> DEFINE o == unitsToBeRemoved[Len(unitsToBeRemoved)]
<1>1. /\ phase \in {"deleting", "collecting"} /\ unitsToBeRemoved # <<>> /\ DeleteUnit(o)
      /\ unitsToBeRemoved' = SubSeq(unitsToBeRemoved, 1, Len(unitsToBeRemoved) - 1)
      /\ UNCHANGED <<activeUpdateUnit, batch, frame, phase, collected>>
  BY DEF DeleteNext
<1>2. unitsToBeRemoved' \in Seq(Objects) /\ o \in Queued
  BY <1>1, FrontFacts, ListNames DEF HandlerInv, TypeOK
<1>3. UNCHANGED <<activeSlowUpdateUnit, activeUnits, poolVars, units, id, isDead,
                  deathScriptFinished, slowed>>
  BY <1>1 DEF DeleteUnit
<1>4. RecycleQueued /\ phase = "collecting"
  BY <1>1, <1>2, SoundOutside DEF QueueSound
<1>5. Active' = Active
  BY <1>3 DEF Active
<1>6. TypeOK' /\ IdsAccounted'
  BY <1>1, <1>2, <1>3, <1>5 DEF HandlerInv, TypeOK, IdsAccounted, poolVars
<1>7. DeletedOnce' /\ RoundInOrder' /\ ActiveOnce'
  BY <1>1, <1>3, <1>4 DEF HandlerInv, DeletedOnce, RoundInOrder, ActiveOnce
<1> QED
  BY <1>1, <1>3, <1>4, <1>5, <1>6, <1>7 DEF HandlerInv

LEMMA DeleteStep ==
  ASSUME HandlerInv, DeleteNext, unitsToBeRemoved[Len(unitsToBeRemoved)] \in Active
  PROVE  HandlerInv'
<1> DEFINE o == unitsToBeRemoved[Len(unitsToBeRemoved)]
<1>1. /\ phase \in {"deleting", "collecting"} /\ unitsToBeRemoved # <<>> /\ DeleteUnit(o)
      /\ unitsToBeRemoved' = SubSeq(unitsToBeRemoved, 1, Len(unitsToBeRemoved) - 1)
      /\ UNCHANGED <<activeUpdateUnit, batch, frame, phase, collected>>
      /\ o \in Active
  BY DEF DeleteNext
<1>2. /\ unitsToBeRemoved' \in Seq(Objects)
      /\ Distinct(unitsToBeRemoved)
           => /\ Distinct(unitsToBeRemoved')
              /\ Elems(unitsToBeRemoved') = Elems(unitsToBeRemoved) \ {o}
  BY <1>1, FrontFacts DEF HandlerInv, TypeOK
<1> HIDE DEF o
<1>3. o \in Active /\ Active \subseteq Objects
  BY <1>1, ElementOfSeq DEF HandlerInv, TypeOK, Active
<1>4. /\ activeUnits' \in Seq(Objects) /\ Len(activeUnits') = Len(activeUnits) - 1
      /\ Active' = Active \ {o} /\ ActiveOnce' /\ RoundInOrder'
      /\ activeSlowUpdateUnit' \in 0..Len(activeUnits') /\ Len(activeUnits') \in Nat
  BY <1>1, <1>3, DeleteLists, LenProperties
<1>5. /\ FreeID(id[o])
      /\ units' = [units EXCEPT ![id[o]] = NoUnit] /\ id' = [id EXCEPT ![o] = NoId]
      /\ isDead' = isDead \ {o} /\ deathScriptFinished' = deathScriptFinished \ {o}
      /\ slowed' = slowed \ {o}
  BY <1>1, <1>3 DEF DeleteUnit
<1>6. id[o] \in Ids /\ units[id[o]] = o /\ NoId \notin Ids
  BY <1>3, NoIdFacts DEF HandlerInv, IdsAccounted
<1>7. TypeOK'
  <2>1. freeIDs' \subseteq Ids /\ tempIDs' \subseteq Ids
    BY <1>5, <1>6 DEF HandlerInv, TypeOK, FreeID
  <2>2. /\ units' \in [Ids -> Objects \cup {NoUnit}]
        /\ id' \in [Objects -> Ids \cup {NoId}]
    BY <1>5 DEF HandlerInv, TypeOK
  <2>3. /\ isDead' \subseteq Objects /\ deathScriptFinished' \subseteq Objects
        /\ slowed' \subseteq Objects /\ activeSlowUpdateUnit' \in Nat
    BY <1>4, <1>5 DEF HandlerInv, TypeOK
  <2> QED
    BY <1>1, <1>2, <1>4, <2>1, <2>2, <2>3 DEF HandlerInv, TypeOK
<1>9. DeletedOnce'
  <2>1. CASE RecycleQueued /\ phase = "collecting"
    BY <1>1, <2>1 DEF DeletedOnce
  <2>2. CASE QueueSound
    <3>1. Queued' = Queued \ {o} /\ Distinct(unitsToBeRemoved')
      BY <1>2, <2>2, ListNames DEF Queued, Elems
    <3>2. QueueSound' <=> Queued' \subseteq Active' \cap isDead' /\ Distinct(unitsToBeRemoved')
      BY DEF QueueSound, Distinct
    <3> QED
      BY <1>4, <1>5, <2>2, <3>1, <3>2, ListNames DEF DeletedOnce
  <2> QED
    BY <2>1, <2>2 DEF HandlerInv, DeletedOnce
<1>10. IdsAccounted'
  <2>1. /\ \A u \in Ids : units'[u] = (IF u = id[o] THEN NoUnit ELSE units[u])
        /\ \A q \in Objects : id'[q] = (IF q = o THEN NoId ELSE id[q])
    BY <1>5 DEF HandlerInv, TypeOK
  <2>2. freeIDs' = freeIDs /\ tempIDs' = tempIDs \cup {id[o]}
    BY <1>5 DEF FreeID
  <2>3. id[o] \notin freeIDs \cup tempIDs
    BY <1>3, <1>6 DEF HandlerInv, IdsAccounted
  <2>4. \A q \in Objects : id[q] = id[o] => q = o
    BY <1>3, <1>6 DEF HandlerInv, IdsAccounted
  <2>5. ASSUME NEW u \in Ids
        PROVE  IF u \in freeIDs' \cup tempIDs'
               THEN units'[u] = NoUnit /\ \A q \in Objects : id'[q] # u
               ELSE units'[u] \in Active' /\ id'[units'[u]] = u
    <3>1. CASE u = id[o]
      BY <1>6, <2>1, <2>2, <2>4, <3>1
    <3>2. CASE u # id[o] /\ u \in freeIDs \cup tempIDs
      BY <1>6, <2>1, <2>2, <3>2 DEF HandlerInv, IdsAccounted
    <3>3. CASE u # id[o] /\ u \notin freeIDs \cup tempIDs
      <4>1. units[u] \in Active /\ id[units[u]] = u
        BY <3>3 DEF HandlerInv, IdsAccounted
      <4>2. units[u] # o
        BY <3>3, <4>1
      <4> QED
        BY <1>3, <1>4, <2>1, <2>2, <3>3, <4>1, <4>2
    <3> QED
      BY <3>1, <3>2, <3>3
  <2>6. \A q \in Active' : id'[q] \in Ids /\ units'[id'[q]] = q
    BY <1>3, <1>4, <2>1, <2>4 DEF HandlerInv, IdsAccounted
  <2> QED
    BY <2>2, <2>3, <2>5, <2>6 DEF HandlerInv, IdsAccounted
<1>11. \A q \in Objects : q \in Active' <=> id'[q] # NoId
  BY <1>3, <1>4, <1>5 DEF HandlerInv, TypeOK
<1>12. /\ isDead' \subseteq Active' /\ deathScriptFinished' \subseteq Active'
       /\ activeSlowUpdateUnit' <= Len(activeUnits')
       /\ phase' # "queueing" /\ activeUpdateUnit' <= 0
  BY <1>1, <1>4, <1>5 DEF HandlerInv
<1> QED
  BY <1>4, <1>7, <1>9, <1>10, <1>11, <1>12 DEF HandlerInv

LEMMA EndCollectStep ==
  ASSUME HandlerInv, EndCollect
  PROVE  HandlerInv'
<1>1. Active' = Active /\ Queued' = Queued
  BY DEF EndCollect, Active, Queued
<1>2. /\ freeIDs' \cup tempIDs' = freeIDs \cup tempIDs /\ freeIDs' \cap tempIDs' = {}
  BY DEF EndCollect, RecycleID, HandlerInv, IdsAccounted
<1>3. TypeOK'
  BY <1>2 DEF HandlerInv, TypeOK, EndCollect, rounds, Phases
<1>4. IdsAccounted'
  BY <1>1, <1>2 DEF HandlerInv, IdsAccounted, EndCollect
<1>5. QueueSound /\ isDead' = isDead
  BY EmptyIsSound DEF EndCollect
<1>6. DeletedOnce' /\ RoundInOrder' /\ ActiveOnce'
  BY <1>1, <1>5
  DEF HandlerInv, DeletedOnce, QueueSound, RoundInOrder, ActiveOnce, EndCollect, rounds
<1> QED
  BY <1>1, <1>3, <1>4, <1>6 DEF HandlerInv, EndCollect, rounds

\* the steps of Update that touch neither units nor ids
LEMMA FrameStep ==
  ASSUME HandlerInv, UNCHANGED <<deletion, collected>>,
         BeginUpdate \/ BeginQueue \/ EndQueue \/ BeginSlowUpdate \/ SlowUpdateNext \/ EndUpdate
  PROVE  HandlerInv'
<1>1. /\ Active' = Active /\ Queued' = Queued /\ Active \subseteq Objects
      /\ Len(activeUnits) \in Nat /\ ActiveOnce'
      /\ UNCHANGED <<activeUnits, unitsToBeRemoved, id, units, isDead, deathScriptFinished,
                     freeIDs, tempIDs, collected>>
  BY SMTT(40), ElementOfSeq, LenProperties
  DEF deletion, poolVars, Active, Queued, HandlerInv, TypeOK, ActiveOnce
<1>2. IdsAccounted' /\ DeletedOnce'
  <2>1. phase # "collecting"
    BY DEF BeginUpdate, BeginQueue, EndQueue, BeginSlowUpdate, SlowUpdateNext, EndUpdate
  <2>2. QueueSound
    BY <2>1, SoundOutside
  <2> QED
    BY <1>1, <2>2 DEF HandlerInv, IdsAccounted, DeletedOnce, QueueSound
<1>3. ASSUME UNCHANGED rounds, phase' \in Phases,
             activeUpdateUnit' \in Nat,
             activeUpdateUnit' <= (IF phase' = "queueing" THEN Len(activeUnits) ELSE 0),
             phase' = "queueing" => unitsToBeRemoved = <<>>
      PROVE  HandlerInv'
  <2>1. TypeOK' /\ RoundInOrder'
    BY <1>1, <1>3 DEF HandlerInv, TypeOK, RoundInOrder, rounds
  <2>2. phase' = "queueing" => Queued' = {}
    BY <1>1, <1>3, EmptySeq DEF Queued
  <2> QED
    BY <1>1, <1>2, <1>3, <2>1, <2>2 DEF HandlerInv, rounds
<1>4. CASE BeginUpdate
  BY <1>3, <1>4 DEF BeginUpdate, Phases, HandlerInv, TypeOK
<1>5. CASE BeginQueue
  BY <1>1, <1>3, <1>5 DEF BeginQueue, Phases, HandlerInv, TypeOK
<1>6. CASE EndQueue
  BY <1>3, <1>6 DEF EndQueue, Phases
<1>7. ASSUME phase' \in Phases, phase' # "queueing", phase # "queueing",
             UNCHANGED activeUpdateUnit,
             batch' \in Nat, frame' \in 0..(SlowRate - 1),
             activeSlowUpdateUnit' \in 0..Len(activeUnits), RoundInOrder'
      PROVE  HandlerInv'
  <2>1. slowed' \subseteq Objects
    <3>1. \A i \in 1..activeSlowUpdateUnit' : activeUnits'[i] \in Active
      BY <1>1, <1>7 DEF Active
    <3> QED
      BY <1>1, <1>7, <3>1 DEF RoundInOrder
  <2>2. TypeOK'
    BY <1>1, <1>7, <2>1 DEF HandlerInv, TypeOK
  <2> QED
    BY <1>1, <1>2, <1>7, <2>2 DEF HandlerInv
<1>8. CASE BeginSlowUpdate
  <2>1. BatchSize \in Nat
    BY <1>1, SlowRateAssumption DEF BatchSize
  <2>2. RoundInOrder'
    <3>1. 1..0 = {}
      OBVIOUS
    <3> QED
      BY <1>1, <1>8, <3>1 DEF BeginSlowUpdate, HandlerInv, RoundInOrder
  <2> QED
    BY <1>1, <1>7, <1>8, <2>1, <2>2 DEF BeginSlowUpdate, HandlerInv, TypeOK, Phases
<1>9. CASE SlowUpdateNext
  <2> DEFINE k == activeSlowUpdateUnit
  <2>1. /\ k \in Nat /\ k < Len(activeUnits) /\ activeSlowUpdateUnit' = k + 1
        /\ batch \in Nat /\ batch # 0 /\ batch' = batch - 1
        /\ slowed' = slowed \cup {activeUnits[k + 1]}
    BY <1>9 DEF SlowUpdateNext, HandlerInv, TypeOK
  <2>2. 1..(k + 1) = (1..k) \cup {k + 1}
    BY <2>1
  <2>3. RoundInOrder'
    BY <1>1, <2>1, <2>2 DEF HandlerInv, RoundInOrder
  <2> QED
    BY <1>1, <1>7, <1>9, <2>1, <2>3 DEF SlowUpdateNext, HandlerInv, TypeOK, Phases
<1>10. CASE EndUpdate
  <2>1. (frame + 1) % SlowRate \in 0..(SlowRate - 1)
    BY SlowRateAssumption DEF HandlerInv, TypeOK
  <2>2. RoundInOrder'
    BY <1>1, <1>10 DEF EndUpdate, HandlerInv, RoundInOrder
  <2> QED
    BY <1>1, <1>7, <1>10, <2>1, <2>2 DEF EndUpdate, HandlerInv, TypeOK, Phases
<1> QED
  BY <1>4, <1>5, <1>6, <1>8, <1>9, <1>10

LEMMA Step ==
  ASSUME HandlerInv, [Next]_vars
  PROVE  HandlerInv'
<1>1. CASE \E o \in Objects, wish \in Ids \cup {NoId} : LoadUnit(o, wish)
  BY <1>1, LoadStep
<1>2. CASE \E o \in Objects, finished \in BOOLEAN : ForcedKillUnit(o, finished)
  BY <1>2, KillStep
<1>3. CASE \E o \in Objects, finished \in BOOLEAN : GarbageCollectUnit(o, finished)
  BY <1>3, CollectStep
<1>4. CASE \E o \in Objects : KilledScriptFinished(o)
  BY <1>4, ScriptStep
<1>5. CASE DeleteNext
  BY <1>5, DeleteStep, DeleteAgainStep
<1>6. CASE EndCollect
  BY <1>6, EndCollectStep
<1>7. CASE QueueNext
  BY <1>7, QueueStep
<1>8. CASE BeginUpdate \/ BeginQueue \/ EndQueue \/ BeginSlowUpdate \/ SlowUpdateNext
           \/ EndUpdate
  <2>1. UNCHANGED <<deletion, collected>>
    BY <1>8 DEF BeginUpdate, BeginQueue, EndQueue, BeginSlowUpdate, SlowUpdateNext, EndUpdate
  <2> QED
    BY <1>8, <2>1, FrameStep
<1>9. CASE UNCHANGED vars
  <2>1. /\ isDead \subseteq isDead' /\ isDead' \subseteq Active
        /\ deathScriptFinished' \subseteq Active
    BY <1>9 DEF vars, deletion, HandlerInv
  <2>2. UNCHANGED <<activeUnits, unitsToBeRemoved, id, units, poolVars, activeUpdateUnit,
                    rounds, phase, collected>>
    BY <1>9 DEF vars, deletion
  <2> QED
    BY <2>1, <2>2, MarkStep
<1> QED
  BY <1>1, <1>2, <1>3, <1>4, <1>5, <1>6, <1>7, <1>8, <1>9 DEF Next, Update

-----------------------------------------------------------------------------
(* The lives of units *)

LEMMA LivesInitially == Init => Lives!Init
<1> SUFFICES ASSUME Init PROVE Lives!Init
  OBVIOUS
<1>1. \A o \in Objects : id[o] = NoId
  BY DEF Init
<1>2. Life = [o \in Objects |-> "none"]
  BY <1>1 DEF Life
<1> QED
  BY <1>2 DEF Init, Lives!Init

LEMMA SameLives ==
  ASSUME UNCHANGED <<id, isDead>>
  PROVE  UNCHANGED <<Life, id>>
BY DEF Life

LEMMA KillLives ==
  ASSUME HandlerInv, NEW o \in Active, NEW finished \in BOOLEAN, Kill(o, finished), UNCHANGED id
  PROVE  Lives!Die(o) \/ UNCHANGED <<Life, id>>
<1>1. o \in Objects /\ id[o] # NoId
  BY ElementOfSeq DEF HandlerInv, TypeOK, Active
<1>2. CASE o \in isDead
  <2>1. UNCHANGED <<id, isDead>>
    BY <1>2 DEF Kill
  <2> QED
    BY <2>1, SameLives
<1>3. CASE o \notin isDead
  <2>1. isDead' = isDead \cup {o}
    BY <1>3 DEF Kill
  <2>2. Life[o] = "alive"
    BY <1>1, <1>3 DEF Life
  <2>3. Life' = [Life EXCEPT ![o] = "dead"]
    BY <1>1, <2>1 DEF Life
  <2> QED
    BY <2>2, <2>3 DEF Lives!Die
<1> QED
  BY <1>2, <1>3

LEMMA LoadLives ==
  ASSUME HandlerInv, NEW o \in Objects, NEW wish \in Ids \cup {NoId}, LoadUnit(o, wish)
  PROVE  \E uid \in Ids : Lives!Create(o, uid)
<1>1. PICK uid \in (IF wish = NoId THEN freeIDs ELSE {wish}) :
        id' = [id EXCEPT ![o] = uid]
  BY DEF LoadUnit
<1>2. uid \in freeIDs /\ uid \in Ids /\ uid # NoId
  BY <1>1, NoIdFacts DEF LoadUnit, CanAddUnit, HasID, HandlerInv, TypeOK
<1>3. id[o] = NoId /\ o \notin isDead /\ isDead' = isDead /\ id \in [Objects -> Ids \cup {NoId}]
  BY DEF LoadUnit, HandlerInv, TypeOK
<1>4. \A q \in Objects : id[q] # uid
  BY <1>2 DEF HandlerInv, IdsAccounted
<1>5. Life[o] = "none"
  BY <1>3 DEF Life
<1>6. Life' = [Life EXCEPT ![o] = "alive"]
  BY <1>1, <1>2, <1>3 DEF Life
<1>7. Lives!Create(o, uid)
  BY <1>1, <1>4, <1>5, <1>6 DEF Lives!Create
<1> QED
  BY <1>2, <1>7

LEMMA DeleteLives ==
  ASSUME ~RecycleQueued, HandlerInv, DeleteNext
  PROVE  \E o \in Objects : Lives!Remove(o)
<1> DEFINE o == unitsToBeRemoved[Len(unitsToBeRemoved)]
<1>1. o \in Elems(unitsToBeRemoved) /\ DeleteUnit(o)
  BY FrontFacts, ListNames DEF HandlerInv, TypeOK, DeleteNext
<1> HIDE DEF o
<1>2. o \in Active /\ o \in isDead
  BY <1>1, ListNames, SoundOutside
<1>3. o \in Objects /\ id[o] # NoId /\ id \in [Objects -> Ids \cup {NoId}]
  BY <1>2, ElementOfSeq DEF HandlerInv, TypeOK, Active
<1>4. id' = [id EXCEPT ![o] = NoId] /\ isDead' = isDead \ {o}
  BY <1>1, <1>2 DEF DeleteUnit
<1>5. Life[o] = "dead"
  BY <1>2, <1>3 DEF Life
<1>6. Life' = [Life EXCEPT ![o] = "none"]
  BY <1>3, <1>4 DEF Life
<1> QED
  BY <1>3, <1>4, <1>5, <1>6 DEF Lives!Remove

LEMMA LivesStep ==
  ASSUME ~RecycleQueued, HandlerInv, [Next]_vars
  PROVE  [Lives!Next]_<<Life, id>>
<1>0. Active \subseteq Objects
  BY ElementOfSeq DEF HandlerInv, TypeOK, Active
<1>1. CASE \E o \in Objects, wish \in Ids \cup {NoId} : LoadUnit(o, wish)
  BY <1>1, LoadLives DEF Lives!Next
<1>2. CASE \E o \in Objects, finished \in BOOLEAN : ForcedKillUnit(o, finished)
  BY <1>2, KillLives DEF ForcedKillUnit, Lives!Next
<1>3. CASE \E o \in Objects, finished \in BOOLEAN : GarbageCollectUnit(o, finished)
  BY <1>3, KillLives DEF GarbageCollectUnit, QueueDeleteUnit, Lives!Next
<1>4. CASE DeleteNext
  BY <1>4, DeleteLives DEF Lives!Next
<1>5. CASE QueueNext
  <2> DEFINE o == activeUnits[activeUpdateUnit + 1]
  <2>1. o \in Active
    BY <1>5, LenProperties DEF QueueNext, HandlerInv, TypeOK, Active
  <2>2. CASE o \in deathScriptFinished
    <3>1. Kill(o, TRUE) /\ UNCHANGED id
      BY <1>5, <2>2 DEF QueueNext, QueueDeleteUnit
    <3> QED
      BY <1>0, <2>1, <3>1, KillLives DEF Lives!Next
  <2>3. CASE o \notin deathScriptFinished
    <3>1. UNCHANGED <<id, isDead>>
      BY <1>5, <2>3 DEF QueueNext
    <3> QED
      BY <3>1, SameLives
  <2> QED
    BY <2>2, <2>3
<1>6. ASSUME UNCHANGED <<id, isDead>>
      PROVE  UNCHANGED <<Life, id>>
  BY <1>6, SameLives
<1>7. CASE (\E o \in Objects : KilledScriptFinished(o)) \/ EndCollect \/ UNCHANGED vars
  BY <1>6, <1>7 DEF KilledScriptFinished, EndCollect, vars, deletion
<1>8. CASE BeginUpdate \/ BeginQueue \/ EndQueue \/ BeginSlowUpdate \/ SlowUpdateNext
           \/ EndUpdate
  BY <1>6, <1>8
  DEF BeginUpdate, BeginQueue, EndQueue, BeginSlowUpdate, SlowUpdateNext, EndUpdate, deletion
<1> QED
  BY <1>1, <1>2, <1>3, <1>4, <1>5, <1>7, <1>8 DEF Next, Update

-----------------------------------------------------------------------------
(* Theorems *)

\* The lists, tables and the pool agree in every state of CUnitHandler, whatever
\* ids scripts ask for.
THEOREM HandlerInvariance == Spec => []HandlerInv
<1>1. HandlerInv /\ [Next]_vars => HandlerInv'
  BY Step
<1> QED
  BY <1>1, Initially, PTL DEF Spec

\* The variables have their types.
THEOREM TypeCorrect == Spec => []TypeOK
<1>1. HandlerInv => TypeOK
  BY DEF HandlerInv
<1> QED
  BY <1>1, HandlerInvariance, PTL

\* No id of SimObjectIDPool is lost or given twice, for any number of ids, not
\* even where a unit is deleted twice.
THEOREM NoIdIsLost == Spec => []IdsAccounted
<1>1. HandlerInv => IdsAccounted
  BY DEF HandlerInv
<1> QED
  BY <1>1, HandlerInvariance, PTL

\* DeleteUnits deletes units that are active and dead, each once, except within a
\* GarbageCollectUnit for a unit that waited already: the assert of
\* UnitHandler.cpp:222, that none waits, asks for more than is needed.
THEOREM NothingIsDeletedTwice == Spec => []DeletedOnce
<1>1. HandlerInv => DeletedOnce
  BY DEF HandlerInv
<1> QED
  BY <1>1, HandlerInvariance, PTL

\* SlowUpdateUnits takes the units in order, none twice, none left out, for any
\* rate and whatever is created and deleted between its frames.
THEOREM RoundsKeepOrder == Spec => []RoundInOrder
<1>1. HandlerInv => RoundInOrder
  BY DEF HandlerInv
<1> QED
  BY <1>1, HandlerInvariance, PTL

\* CUnitHandler implements the lives of units, for scripts that ask for the id of
\* no unit that waits for deletion: ids are unique among the units that exist,
\* and only the dead are deleted.
THEOREM UnitsLiveAndDie == ASSUME ~RecycleQueued PROVE Spec => ImplementsLives
<1>1. HandlerInv /\ [Next]_vars => [Lives!Next]_<<Life, id>>
  BY LivesStep
<1> QED
  BY <1>1, LivesInitially, HandlerInvariance, PTL DEF Spec, ImplementsLives, Lives!Spec
=============================================================================
