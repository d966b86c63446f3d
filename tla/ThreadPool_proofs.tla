-------------------------- MODULE ThreadPool_proofs --------------------------
(***************************************************************************)
(* Proofs about ThreadPool, for any number of threads, size of the pools   *)
(* and program of the main thread.                                         *)
(***************************************************************************)
EXTENDS ThreadPool, SequenceTheorems, FiniteSetTheorems, TLAPS

-----------------------------------------------------------------------------
(* Frames by their place: the thread, and the height from the bottom of its *)
(* stack, which does not change when frames are put on top.                 *)

Places == UNION {{t} \X (1..Len(stack[t])) : t \in Threads}
frames == [p \in Places |-> stack[p[1]][Len(stack[p[1]]) + 1 - p[2]]]
TopPlace(t) == <<t, Len(stack[t])>>
Above(t) == <<t, Len(stack[t]) + 1>>

AnyCall == {<<k>> : k \in 1..Len(Program)} \cup {<<k, i>> : k \in 1..Len(Program), i \in Nat}

Roles == {"owner", "helper", "parent", "pusher"}
Pcs == {"count", "zero", "func", "push", "step", "run", "inner", "done", "end", "self",
        "check", "drain", "children", "spin", "pushed"}
FrameType == [role : Roles, pc : Pcs, group : Groups, call : AnyCall, work : AnyCall \X Nat]
Stacks == stack \in [Threads -> Seq(FrameType)]

\* A place is a thread and a height within its stack.
LEMMA PlacesAre ==
  ASSUME NEW p
  PROVE  p \in Places <=> \E t \in Threads : \E h \in 1..Len(stack[t]) : p = <<t, h>>
BY DEF Places

\* A sequence with an element put in front.
LEMMA ConsProperties ==
  ASSUME NEW S, NEW x \in S, NEW s \in Seq(S)
  PROVE  /\ <<x>> \o s \in Seq(S) /\ Len(<<x>> \o s) = Len(s) + 1 /\ Len(s) \in Nat
         /\ (<<x>> \o s)[1] = x
         /\ \A i \in 1..Len(s) : (<<x>> \o s)[i + 1] = s[i]
<1>1. <<x>> \in Seq(S) /\ Len(<<x>>) = 1 /\ <<x>>[1] = x /\ Len(s) \in Nat
  BY LenProperties
<1>2. /\ <<x>> \o s \in Seq(S) /\ Len(<<x>> \o s) = 1 + Len(s)
      /\ \A i \in 1..(1 + Len(s)) : (<<x>> \o s)[i] = IF i <= 1 THEN <<x>>[i] ELSE s[i - 1]
  BY <1>1, ConcatProperties
<1>3. \A i \in 1..Len(s) : i + 1 \in 1..(1 + Len(s)) /\ ~(i + 1 <= 1) /\ (i + 1) - 1 = i
  BY <1>1
<1>4. QED
  BY <1>1, <1>2, <1>3

\* The stack of one thread changes; what the places hold then.
LEMMA PlacesOf ==
  ASSUME Stacks, NEW t \in Threads, NEW s \in Seq(FrameType), stack' = [stack EXCEPT ![t] = s]
  PROVE  /\ Stacks'
         /\ \A u \in Threads, h \in Nat : u # t =>
              /\ <<u, h>> \in Places' <=> <<u, h>> \in Places
              /\ <<u, h>> \in Places => frames'[<<u, h>>] = frames[<<u, h>>]
         /\ \A h \in Nat : <<t, h>> \in Places' <=> h \in 1..Len(s)
         /\ \A h \in 1..Len(s) : frames'[<<t, h>>] = s[Len(s) + 1 - h]
<1>1. Stacks' /\ stack'[t] = s /\ \A u \in Threads : u # t => stack'[u] = stack[u]
  BY DEF Stacks
<1>2. \A u, h : <<u, h>> \in Places' <=> u \in Threads /\ h \in 1..Len(stack'[u])
  BY DEF Places
<1>3. \A u, h : <<u, h>> \in Places <=> u \in Threads /\ h \in 1..Len(stack[u])
  BY DEF Places
<1>4. \A u, h : <<u, h>> \in Places' => frames'[<<u, h>>] = stack'[u][Len(stack'[u]) + 1 - h]
  BY DEF frames
<1>5. \A u, h : <<u, h>> \in Places => frames[<<u, h>>] = stack[u][Len(stack[u]) + 1 - h]
  BY DEF frames
<1>6. QED
  BY <1>1, <1>2, <1>3, <1>4, <1>5

\* What the thread's first frame is, by its place.
LEMMA TopFrame ==
  ASSUME Stacks, NEW t \in Threads, stack[t] # <<>>
  PROVE  /\ TopPlace(t) \in Places /\ frames[TopPlace(t)] = Top(t) /\ Top(t) \in FrameType
         /\ Len(stack[t]) \in Nat \ {0} /\ Tail(stack[t]) \in Seq(FrameType)
         /\ Len(Tail(stack[t])) = Len(stack[t]) - 1
         /\ \A i \in 1..(Len(stack[t]) - 1) : Tail(stack[t])[i] = stack[t][i + 1]
<1>1. stack[t] \in Seq(FrameType)
  BY DEF Stacks
<1>2. /\ Len(stack[t]) \in Nat \ {0} /\ Top(t) = stack[t][1] /\ Top(t) \in FrameType
      /\ Tail(stack[t]) \in Seq(FrameType) /\ Len(Tail(stack[t])) = Len(stack[t]) - 1
      /\ \A i \in 1..(Len(stack[t]) - 1) : Tail(stack[t])[i] = stack[t][i + 1]
  BY <1>1, EmptySeq, HeadTailProperties, LenProperties DEF Top
<1>3. TopPlace(t) \in Places
  BY <1>2 DEF TopPlace, Places
<1>4. frames[TopPlace(t)] = stack[t][1]
  BY <1>2, <1>3 DEF frames, TopPlace
<1>5. QED
  BY <1>2, <1>3, <1>4

\* What the places hold are frames.
LEMMA FramesTyped ==
  Stacks => \A p \in Places : frames[p] \in FrameType
<1>1. SUFFICES ASSUME Stacks, NEW t \in Threads, NEW h \in 1..Len(stack[t]), <<t, h>> \in Places
               PROVE  frames[<<t, h>>] \in FrameType
  BY DEF Places
<1>2. stack[t] \in Seq(FrameType)
  BY <1>1 DEF Stacks
<1>3. Len(stack[t]) + 1 - h \in 1..Len(stack[t])
  BY <1>2, LenProperties
<1>4. QED
  BY <1>1, <1>2, <1>3, ElementOfSeq DEF frames

\* The frame on top is replaced: its place stays.
LEMMA SetFrames ==
  ASSUME Stacks, NEW t \in Threads, stack[t] # <<>>, NEW f \in FrameType, Set(t, f)
  PROVE  Stacks' /\ Places' = Places /\ frames' = [frames EXCEPT ![TopPlace(t)] = f]
<1> DEFINE s == <<f>> \o Tail(stack[t])
<1>1. stack' = [stack EXCEPT ![t] = s]
  BY DEF Set, Stacks
<1>2. /\ s \in Seq(FrameType) /\ Len(s) = Len(stack[t]) /\ s[1] = f
      /\ \A i \in 1..(Len(stack[t]) - 1) : s[i + 1] = stack[t][i + 1]
  BY TopFrame, ConsProperties
<1>3. \A h \in 1..Len(stack[t]) :
        s[Len(s) + 1 - h] = IF h = Len(stack[t]) THEN f ELSE stack[t][Len(stack[t]) + 1 - h]
  <2>1. SUFFICES ASSUME NEW h \in 1..Len(stack[t]), h # Len(stack[t])
                 PROVE  s[Len(stack[t]) + 1 - h] = stack[t][Len(stack[t]) + 1 - h]
    BY <1>2, TopFrame
  <2>2. Len(stack[t]) - h \in 1..(Len(stack[t]) - 1) /\ (Len(stack[t]) - h) + 1 = Len(stack[t]) + 1 - h
    BY <2>1, TopFrame
  <2>3. QED
    BY <1>2, <2>2
<1> HIDE DEF s
<1>4. Stacks' /\ Places' = Places /\ DOMAIN frames' = DOMAIN frames
  <2>1. Stacks' /\ Len(stack'[t]) = Len(stack[t]) /\ \A u \in Threads : u # t => stack'[u] = stack[u]
    BY <1>1, <1>2, PlacesOf DEF Stacks
  <2>2. Places' = Places
    BY <2>1 DEF Places
  <2>3. QED
    BY <2>1, <2>2 DEF frames
<1>5. \A u \in Threads, h \in Nat : <<u, h>> \in Places =>
        frames'[<<u, h>>] = IF <<u, h>> = TopPlace(t) THEN f ELSE frames[<<u, h>>]
  <2>1. SUFFICES ASSUME NEW u \in Threads, NEW h \in Nat, <<u, h>> \in Places
                 PROVE  frames'[<<u, h>>] = IF <<u, h>> = TopPlace(t) THEN f ELSE frames[<<u, h>>]
    OBVIOUS
  <2>2. CASE u # t
    BY <1>1, <1>2, <2>1, <2>2, PlacesOf DEF TopPlace
  <2>3. CASE u = t
    <3>1. h \in 1..Len(stack[t]) /\ frames[<<t, h>>] = stack[t][Len(stack[t]) + 1 - h]
      BY <2>1, <2>3 DEF Places, frames
    <3>2. frames'[<<t, h>>] = s[Len(s) + 1 - h]
      BY <1>1, <1>2, <3>1, PlacesOf
    <3>3. QED
      BY <1>3, <2>3, <3>1, <3>2 DEF TopPlace
  <2>4. QED
    BY <2>2, <2>3
<1>6. \A p \in Places : frames'[p] = IF p = TopPlace(t) THEN f ELSE frames[p]
  BY <1>5, PlacesAre
<1>7. QED
  BY <1>4, <1>6, TopFrame DEF frames

\* The frame on top goes, and its place with it.
LEMMA PopFrames ==
  ASSUME Stacks, NEW t \in Threads, stack[t] # <<>>, Pop(t)
  PROVE  /\ Stacks' /\ Places' = Places \ {TopPlace(t)}
         /\ \A p \in Places' : frames'[p] = frames[p]
<1> DEFINE s == Tail(stack[t])
<1>1. stack' = [stack EXCEPT ![t] = s]
  BY DEF Pop, Stacks
<1>2. /\ s \in Seq(FrameType) /\ Len(s) = Len(stack[t]) - 1 /\ Len(stack[t]) \in Nat \ {0}
      /\ \A i \in 1..(Len(stack[t]) - 1) : s[i] = stack[t][i + 1]
  BY TopFrame
<1> HIDE DEF s
<1>3. /\ Stacks'
      /\ \A u \in Threads, h \in Nat : u # t =>
           /\ <<u, h>> \in Places' <=> <<u, h>> \in Places
           /\ <<u, h>> \in Places => frames'[<<u, h>>] = frames[<<u, h>>]
      /\ \A h \in Nat : <<t, h>> \in Places' <=> h \in 1..Len(s)
      /\ \A h \in 1..Len(s) : frames'[<<t, h>>] = s[Len(s) + 1 - h]
  BY <1>1, <1>2, PlacesOf
<1>4. \A h \in 1..Len(s) : <<t, h>> \in Places /\ frames[<<t, h>>] = s[Len(s) + 1 - h]
  <2>1. SUFFICES ASSUME NEW h \in 1..Len(s)
                 PROVE  <<t, h>> \in Places /\ frames[<<t, h>>] = s[Len(s) + 1 - h]
    OBVIOUS
  <2>2. h \in 1..Len(stack[t]) /\ <<t, h>> \in Places
    BY <1>2 DEF Places
  <2>3. frames[<<t, h>>] = stack[t][Len(stack[t]) + 1 - h]
    BY <2>2 DEF frames
  <2>4. Len(s) + 1 - h \in 1..(Len(stack[t]) - 1) /\ (Len(s) + 1 - h) + 1 = Len(stack[t]) + 1 - h
    BY <1>2
  <2>5. QED
    BY <1>2, <2>2, <2>3, <2>4
<1>5. \A h \in Nat : <<t, h>> \in Places <=> h \in 1..Len(stack[t])
  BY DEF Places
<1>6. \A h \in Nat : <<t, h>> \in Places' <=> <<t, h>> \in Places /\ <<t, h>> # TopPlace(t)
  BY <1>2, <1>3, <1>5 DEF TopPlace
<1>7. \A u \in Threads, h \in Nat : <<u, h>> \in Places' <=> <<u, h>> \in Places \ {TopPlace(t)}
  BY <1>3, <1>6 DEF TopPlace
<1>8. \A p : p \in Places' => p \in Places \ {TopPlace(t)}
  <2>1. \A p : p \in Places' => \E u \in Threads : \E h \in Nat : p = <<u, h>>
    BY DEF Places
  <2>2. QED
    BY <1>7, <2>1
<1>9. \A p : p \in Places \ {TopPlace(t)} => p \in Places'
  <2>1. \A p : p \in Places => \E u \in Threads : \E h \in Nat : p = <<u, h>>
    BY DEF Places
  <2>2. QED
    BY <1>7, <2>1
<1>10. \A p \in Places' : frames'[p] = frames[p]
  <2>1. SUFFICES ASSUME NEW u \in Threads, NEW h \in Nat, <<u, h>> \in Places'
                 PROVE  frames'[<<u, h>>] = frames[<<u, h>>]
    BY DEF Places
  <2>2. QED
    BY <1>3, <1>4, <1>8, <2>1
<1>11. QED
  BY <1>3, <1>8, <1>9, <1>10

\* A frame is put on top: a place more.
LEMMA PushFrames ==
  ASSUME Stacks, NEW t \in Threads, NEW f \in FrameType,
         stack' = [stack EXCEPT ![t] = <<f>> \o @]
  PROVE  /\ Stacks' /\ Above(t) \notin Places /\ Places' = Places \cup {Above(t)}
         /\ frames'[Above(t)] = f /\ \A p \in Places : frames'[p] = frames[p]
<1> DEFINE s == <<f>> \o stack[t]
<1>1. stack' = [stack EXCEPT ![t] = s]
  BY DEF Stacks
<1>2. /\ s \in Seq(FrameType) /\ Len(s) = Len(stack[t]) + 1 /\ Len(stack[t]) \in Nat
      /\ s[1] = f /\ \A i \in 1..Len(stack[t]) : s[i + 1] = stack[t][i]
  <2>1. stack[t] \in Seq(FrameType)
    BY DEF Stacks
  <2>2. QED
    BY <2>1, ConsProperties
<1> HIDE DEF s
<1>3. /\ Stacks'
      /\ \A u \in Threads, h \in Nat : u # t =>
           /\ <<u, h>> \in Places' <=> <<u, h>> \in Places
           /\ <<u, h>> \in Places => frames'[<<u, h>>] = frames[<<u, h>>]
      /\ \A h \in Nat : <<t, h>> \in Places' <=> h \in 1..Len(s)
      /\ \A h \in 1..Len(s) : frames'[<<t, h>>] = s[Len(s) + 1 - h]
  BY <1>1, <1>2, PlacesOf
<1>5. \A h \in Nat : <<t, h>> \in Places <=> h \in 1..Len(stack[t])
  BY DEF Places
<1>4. \A h \in 1..Len(stack[t]) : frames[<<t, h>>] = s[Len(s) + 1 - h]
  <2>1. SUFFICES ASSUME NEW h \in 1..Len(stack[t])
                 PROVE  frames[<<t, h>>] = s[Len(s) + 1 - h]
    OBVIOUS
  <2>3. frames[<<t, h>>] = stack[t][Len(stack[t]) + 1 - h]
    BY <1>5 DEF frames
  <2>4. Len(stack[t]) + 1 - h \in 1..Len(stack[t]) /\ (Len(stack[t]) + 1 - h) + 1 = Len(s) + 1 - h
    BY <1>2
  <2>5. QED
    BY <1>2, <2>3, <2>4
<1>6. \A h \in Nat : <<t, h>> \in Places' <=> <<t, h>> \in Places \/ <<t, h>> = Above(t)
  BY <1>2, <1>3, <1>5 DEF Above
<1>7. \A u \in Threads, h \in Nat : <<u, h>> \in Places' <=> <<u, h>> \in Places \cup {Above(t)}
  BY <1>3, <1>6 DEF Above
<1>8. Above(t) \in Places' /\ frames'[Above(t)] = f /\ Above(t) \notin Places
  BY <1>2, <1>3, <1>5 DEF Above
<1>9. \A p \in Places : p \in Places' /\ frames'[p] = frames[p]
  <2>1. SUFFICES ASSUME NEW u \in Threads, NEW h \in Nat, <<u, h>> \in Places
                 PROVE  <<u, h>> \in Places' /\ frames'[<<u, h>>] = frames[<<u, h>>]
    BY DEF Places
  <2>2. QED
    BY <1>2, <1>3, <1>4, <1>5, <1>7, <2>1
<1>10. \A p \in Places' : p \in Places \cup {Above(t)}
  <2>1. \A p : p \in Places' => \E u \in Threads : \E h \in Nat : p = <<u, h>>
    BY DEF Places
  <2>2. QED
    BY <1>7, <2>1
<1>11. QED
  BY <1>3, <1>8, <1>9, <1>10

\* A call from within an iteration: the frame below goes on to another pc.
LEMMA NestedFrames ==
  ASSUME Stacks, NEW t \in Threads, stack[t] # <<>>, NEW f \in FrameType, NEW e \in FrameType,
         stack' = [stack EXCEPT ![t] = <<f>> \o (<<e>> \o Tail(stack[t]))]
  PROVE  /\ Stacks' /\ Above(t) \notin Places /\ Places' = Places \cup {Above(t)}
         /\ frames'[Above(t)] = f /\ frames'[TopPlace(t)] = e
         /\ \A p \in Places : p # TopPlace(t) => frames'[p] = frames[p]
<1> DEFINE b == <<e>> \o Tail(stack[t])
           s == <<f>> \o b
<1>1. stack' = [stack EXCEPT ![t] = s]
  OBVIOUS
<1>0. /\ b \in Seq(FrameType) /\ Len(b) = Len(stack[t]) /\ b[1] = e
      /\ \A i \in 1..(Len(stack[t]) - 1) : b[i + 1] = stack[t][i + 1]
  BY TopFrame, ConsProperties
<1> HIDE DEF b
<1>2. /\ s \in Seq(FrameType) /\ Len(s) = Len(stack[t]) + 1 /\ Len(stack[t]) \in Nat \ {0}
      /\ s[1] = f /\ \A i \in 1..Len(stack[t]) : s[i + 1] = b[i]
  BY <1>0, ConsProperties, TopFrame
<1> HIDE DEF s
<1>3. /\ Stacks'
      /\ \A u \in Threads, h \in Nat : u # t =>
           /\ <<u, h>> \in Places' <=> <<u, h>> \in Places
           /\ <<u, h>> \in Places => frames'[<<u, h>>] = frames[<<u, h>>]
      /\ \A h \in Nat : <<t, h>> \in Places' <=> h \in 1..Len(s)
      /\ \A h \in 1..Len(s) : frames'[<<t, h>>] = s[Len(s) + 1 - h]
  BY <1>1, <1>2, PlacesOf
<1>5. \A h \in Nat : <<t, h>> \in Places <=> h \in 1..Len(stack[t])
  BY DEF Places
<1>4. \A h \in 1..Len(stack[t]) :
        s[Len(s) + 1 - h] = IF h = Len(stack[t]) THEN e ELSE frames[<<t, h>>]
  <2>1. SUFFICES ASSUME NEW h \in 1..Len(stack[t])
                 PROVE  s[Len(s) + 1 - h] = IF h = Len(stack[t]) THEN e ELSE frames[<<t, h>>]
    OBVIOUS
  <2>3. frames[<<t, h>>] = stack[t][Len(stack[t]) + 1 - h]
    BY <1>5 DEF frames
  <2>4. Len(stack[t]) + 1 - h \in 1..Len(stack[t]) /\ (Len(stack[t]) + 1 - h) + 1 = Len(s) + 1 - h
    BY <1>2
  <2>5. s[Len(s) + 1 - h] = b[Len(stack[t]) + 1 - h]
    BY <1>2, <2>4
  <2>6. CASE h = Len(stack[t])
    BY <1>0, <1>2, <2>5, <2>6
  <2>7. CASE h # Len(stack[t])
    <3>1. Len(stack[t]) - h \in 1..(Len(stack[t]) - 1) /\ (Len(stack[t]) - h) + 1 = Len(stack[t]) + 1 - h
      BY <1>2, <2>7
    <3>2. QED
      BY <1>0, <2>3, <2>5, <2>7, <3>1
  <2>8. QED
    BY <2>6, <2>7
<1>6. \A h \in Nat : <<t, h>> \in Places' <=> <<t, h>> \in Places \/ <<t, h>> = Above(t)
  BY <1>2, <1>3, <1>5 DEF Above
<1>7. \A u \in Threads, h \in Nat : <<u, h>> \in Places' <=> <<u, h>> \in Places \cup {Above(t)}
  BY <1>3, <1>6 DEF Above
<1>8. Above(t) \in Places' /\ frames'[Above(t)] = f /\ Above(t) \notin Places
  BY <1>2, <1>3, <1>5 DEF Above
<1>9. \A p \in Places : p \in Places' /\ (p # TopPlace(t) => frames'[p] = frames[p])
  <2>1. SUFFICES ASSUME NEW u \in Threads, NEW h \in Nat, <<u, h>> \in Places
                 PROVE  <<u, h>> \in Places' /\ (<<u, h>> # TopPlace(t) => frames'[<<u, h>>] = frames[<<u, h>>])
    BY DEF Places
  <2>2. CASE u # t
    BY <1>3, <1>7, <2>1, <2>2
  <2>3. CASE u = t
    BY <1>2, <1>3, <1>4, <1>5, <1>7, <2>1, <2>3 DEF TopPlace
  <2>4. QED
    BY <2>2, <2>3
<1>12. frames'[TopPlace(t)] = e
  BY SMTT(40), <1>2, <1>3, <1>4 DEF TopPlace
<1>10. \A p \in Places' : p \in Places \cup {Above(t)}
  <2>1. \A p : p \in Places' => \E u \in Threads : \E h \in Nat : p = <<u, h>>
    BY DEF Places
  <2>2. QED
    BY <1>7, <2>1
<1>11. QED
  BY <1>3, <1>8, <1>9, <1>10, <1>12

-----------------------------------------------------------------------------
(* Types, and which frames there are *)

GroupType == [remaining : Int, ctr : Nat, to : Nat, func : AnyCall,
              inTaskQueue : BOOLEAN, execLoopDone : BOOLEAN, deleted : BOOLEAN]

Types ==
  /\ Stacks
  /\ group \in [Groups -> GroupType]
  /\ queue \in [Threads \ {0} -> [Groups -> Nat]]
  /\ pos \in [{"outer", "inner"} -> Nat]
  /\ next \in 1..(Len(Program) + 1)

\* owners work on groups of the pools; a section or a push of the main thread is
\* the first frame of its stack, and the only one
OwnerPcs == {"count", "zero", "func", "push", "step", "run", "inner", "done", "end", "check", "drain"}
HelperPcs == {"step", "run", "inner", "done", "end", "self"}
FrameOK(p) ==
  /\ frames[p].role = "owner" => IsSliceTask(frames[p].group) /\ frames[p].pc \in OwnerPcs
  /\ frames[p].role = "helper" =>
       /\ frames[p].pc \in HelperPcs /\ p[1] # 0
       /\ frames[p].pc = "self" => ~IsSliceTask(frames[p].group)
  /\ frames[p].role = "parent" =>
       /\ p = <<0, 1>> /\ frames[p].pc \in {"children", "spin"}
       /\ \E w \in Workers : frames[p].group = Child(w)
  /\ frames[p].role = "pusher" => p = <<0, 1>> /\ frames[p].pc = "pushed"
  /\ frames[p].pc = "push" => frames[p].work[2] \in Workers

FramesInv == \A p \in Places : FrameOK(p)

\* Who may still use a child of parallel or an asynchronous task: at most one
\* queue or one thread, and not once the task is over.
Holds(p, g) == p \in Places /\ frames[p].role = "helper" /\ frames[p].group = g
InUse(g) == (\E t \in Threads \ {0} : queue[t][g] > 0) \/ (\E p \in Places : Holds(p, g))

\* the section that has child w under way
Active(w) ==
  /\ <<0, 1>> \in Places /\ frames[<<0, 1>>].role = "parent"
  /\ frames[<<0, 1>>].pc = "spin" \/ w < frames[<<0, 1>>].group[2]

OneUser(g) ==
  /\ \A t \in Threads \ {0} : queue[t][g] \in {0, 1}
  /\ \A t, u \in Threads \ {0} : queue[t][g] > 0 /\ queue[u][g] > 0 => t = u
  /\ \A p, q \in Places : Holds(p, g) /\ Holds(q, g) => p = q
  /\ \A t \in Threads \ {0} : \A p \in Places : ~(queue[t][g] > 0 /\ Holds(p, g))

Alive(g) ==
  InUse(g) => /\ ~group[g].deleted /\ ~group[g].execLoopDone
              /\ g[1] = "child" => Active(g[2])
              /\ g[1] = "async" => g[2] < next

TaskInv == \A g \in Groups : IF IsSliceTask(g) THEN ~group[g].deleted ELSE OneUser(g) /\ Alive(g)

PoolInv == Types /\ FramesInv /\ TaskInv

\* What the assumption says of each call of the program.
LEMMA ProgramIs ==
  /\ Len(Program) \in Nat
  /\ \A k \in 1..Len(Program) :
       /\ Program[k].size \in Nat /\ Program[k].inner \in Nat
       /\ Program[k].inner > 0 => Program[k].kind = "for"
       /\ Program[k].kind = "async" => Program[k].size = 1
<1> DEFINE S == [kind : {"for"}, size : Nat \ {0}, inner : Nat] \cup
                [kind : {"parallel", "async"}, size : {1}, inner : {0}]
<1>1. Program \in Seq(S)
  BY ProgramAssumption
<1>2. \A r \in S : /\ r.size \in Nat /\ r.inner \in Nat
                   /\ r.inner > 0 => r.kind = "for"
                   /\ r.kind = "async" => r.size = 1
  OBVIOUS
<1> HIDE DEF S
<1>3. Len(Program) \in Nat /\ \A k \in 1..Len(Program) : Program[k] \in S
  BY <1>1, ElementOfSeq, LenProperties
<1>4. QED
  BY <1>2, <1>3

\* The calls by their number have a size and a pool.
LEMMA CallsAre ==
  \A c \in AnyCall : /\ Size(c) \in Nat /\ PoolOf(c) \in {"outer", "inner"}
                     /\ c[1] \in 1..Len(Program) /\ Len(Program) \in Nat
<1>1. Len(Program) \in Nat /\ \A k \in 1..Len(Program) : Program[k].inner \in Nat /\ Program[k].size \in Nat
  BY ProgramIs
<1>2. \A c \in AnyCall : c[1] \in 1..Len(Program)
  BY DEF AnyCall
<1>3. QED
  BY <1>1, <1>2 DEF Size, PoolOf

\* A group is one of a pool, a child of parallel or an enqueued task.
LEMMA GroupsAre ==
  ASSUME NEW g \in Groups
  PROVE  /\ g[2] \in Nat
         /\ ~IsSliceTask(g) => \/ g[1] = "child" /\ g[2] \in Workers /\ g = Child(g[2])
                               \/ g[1] = "async" /\ g[2] \in 1..Len(Program) /\ g = Async(g[2])
         /\ IsSliceTask(g) => g[1] # "child" /\ g[1] # "async"
BY ThreadsAssumption DEF Groups, IsSliceTask, Child, Async, Workers

\* GetTaskGroup leaves a group a group, deleted or not as it was.
LEMMA EmptyGroup ==
  ASSUME NEW r \in GroupType, NEW b \in BOOLEAN
  PROVE  /\ [r EXCEPT !.remaining = 0, !.inTaskQueue = b] \in GroupType
         /\ [r EXCEPT !.remaining = 0, !.inTaskQueue = b].deleted = r.deleted
         /\ [r EXCEPT !.remaining = 0, !.inTaskQueue = b].execLoopDone = r.execLoopDone
<1> DEFINE q == [r EXCEPT !.remaining = 0]
<1>1. q \in GroupType /\ q.deleted = r.deleted /\ q.execLoopDone = r.execLoopDone
  BY DEF GroupType
<1>2. [r EXCEPT !.remaining = 0, !.inTaskQueue = b] = [q EXCEPT !.inTaskQueue = b]
  BY DEF GroupType
<1> HIDE DEF q
<1>3. QED
  BY <1>1, <1>2 DEF GroupType

\* A step within a call or a task changes neither who uses which task, nor what
\* the deletion of a task rests on.
LEMMA MoveOn ==
  ASSUME PoolInv, NEW t \in Threads, stack[t] # <<>>, NEW f \in FrameType, Set(t, f),
         f.role \in {"owner", "helper"}, f.role = Top(t).role, f.group = Top(t).group,
         f.role = "owner" => f.pc \in OwnerPcs,
         f.role = "helper" => f.pc \in HelperPcs /\ (f.pc = "self" => ~IsSliceTask(f.group)),
         f.pc = "push" => f.work[2] \in Workers,
         \A u \in Threads \ {0} : \A g \in Groups : ~IsSliceTask(g) => queue'[u][g] = queue[u][g],
         \A g \in Groups : /\ group'[g].deleted = group[g].deleted
                           /\ group'[g].execLoopDone = group[g].execLoopDone,
         next' = next
  PROVE  FramesInv' /\ TaskInv'
<1>1. /\ Places' = Places /\ frames' = [frames EXCEPT ![TopPlace(t)] = f]
      /\ TopPlace(t) \in Places /\ frames[TopPlace(t)] = Top(t) /\ DOMAIN frames = Places
  BY SetFrames, TopFrame DEF PoolInv, Types, frames
<1>2. /\ \A p \in Places : /\ frames'[p].role = frames[p].role /\ frames'[p].group = frames[p].group
                           /\ p # TopPlace(t) => frames'[p] = frames[p]
      /\ frames'[TopPlace(t)] = f
  BY <1>1
<1>3. FramesInv'
  <2>1. SUFFICES ASSUME NEW p \in Places PROVE FrameOK(p)'
    BY <1>1 DEF FramesInv
  <2>2. FrameOK(p)
    BY DEF PoolInv, FramesInv
  <2>3. CASE p = TopPlace(t)
    BY <1>1, <1>2, <2>2, <2>3 DEF FrameOK
  <2>4. CASE p # TopPlace(t)
    BY <1>2, <2>2, <2>4 DEF FrameOK
  <2>5. QED
    BY <2>3, <2>4
<1>4. \A p, g : Holds(p, g)' <=> Holds(p, g)
  BY <1>1, <1>2 DEF Holds
<1>5. \A w : Active(w) => Active(w)'
  BY <1>1, <1>2 DEF Active
<1>6. \A g \in Groups : ~IsSliceTask(g) => OneUser(g)' /\ Alive(g)'
  <2>1. SUFFICES ASSUME NEW g \in Groups, ~IsSliceTask(g) PROVE OneUser(g)' /\ Alive(g)'
    OBVIOUS
  <2>2. OneUser(g) /\ Alive(g) /\ \A u \in Threads \ {0} : queue'[u][g] = queue[u][g]
    BY <2>1 DEF PoolInv, TaskInv
  <2>3. OneUser(g)'
    BY <1>1, <1>4, <2>2 DEF OneUser
  <2>4. InUse(g)' => InUse(g)
    BY <1>1, <1>4, <2>2 DEF InUse
  <2>5. Alive(g)'
    BY <1>5, <2>2, <2>4 DEF Alive
  <2>6. QED
    BY <2>3, <2>5
<1>7. QED
  BY <1>3, <1>6 DEF PoolInv, TaskInv

\* A thread is done with its frame; nothing is deleted, nothing enqueued.
LEMMA PopOn ==
  ASSUME PoolInv, NEW t \in Threads, stack[t] # <<>>, Pop(t), Top(t).role # "parent",
         \A u \in Threads \ {0} : \A g \in Groups : queue'[u][g] = queue[u][g],
         \A g \in Groups : /\ group'[g].deleted = group[g].deleted
                           /\ group'[g].execLoopDone = group[g].execLoopDone,
         next' = next
  PROVE  FramesInv' /\ TaskInv'
<1>1. /\ Places' = Places \ {TopPlace(t)} /\ \A p \in Places' : frames'[p] = frames[p]
      /\ TopPlace(t) \in Places /\ frames[TopPlace(t)] = Top(t)
  BY PopFrames, TopFrame DEF PoolInv, Types
<1>3. FramesInv'
  BY <1>1 DEF PoolInv, FramesInv, FrameOK
<1>4. \A p, g : Holds(p, g)' => Holds(p, g)
  BY <1>1 DEF Holds
<1>5. \A w : Active(w) => Active(w)'
  BY <1>1 DEF Active
<1>6. \A g \in Groups : ~IsSliceTask(g) => OneUser(g)' /\ Alive(g)'
  <2>1. SUFFICES ASSUME NEW g \in Groups, ~IsSliceTask(g) PROVE OneUser(g)' /\ Alive(g)'
    OBVIOUS
  <2>2. OneUser(g) /\ Alive(g) /\ \A u \in Threads \ {0} : queue'[u][g] = queue[u][g]
    BY <2>1 DEF PoolInv, TaskInv
  <2>3. OneUser(g)'
    BY <1>1, <1>4, <2>2 DEF OneUser
  <2>4. InUse(g)' => InUse(g)
    BY <1>1, <1>4, <2>2 DEF InUse
  <2>5. Alive(g)'
    BY <1>5, <2>2, <2>4 DEF Alive
  <2>6. QED
    BY <2>3, <2>5
<1>7. QED
  BY <1>3, <1>6 DEF PoolInv, TaskInv

-----------------------------------------------------------------------------
(* The steps, one by one *)

\* What is known of the frame on top.
LEMMA TopIs ==
  ASSUME PoolInv, NEW t \in Threads, stack[t] # <<>>
  PROVE  /\ TopPlace(t) \in Places /\ frames[TopPlace(t)] = Top(t) /\ FrameOK(TopPlace(t))
         /\ Top(t) \in FrameType /\ Top(t).group \in Groups /\ Top(t).call \in AnyCall
         /\ Top(t).work[1] \in AnyCall /\ Top(t).work[2] \in Nat
         /\ group[Top(t).group] \in GroupType
<1>1. TopPlace(t) \in Places /\ frames[TopPlace(t)] = Top(t) /\ Top(t) \in FrameType
  BY TopFrame DEF PoolInv, Types
<1>2. Top(t).group \in Groups /\ Top(t).call \in AnyCall /\ Top(t).work \in AnyCall \X Nat
  BY <1>1 DEF FrameType
<1>3. QED
  BY <1>1, <1>2 DEF PoolInv, Types, FramesInv

\* The pc of a frame says whose it is.
LEMMA RoleOfPc ==
  ASSUME PoolInv, NEW t \in Threads, stack[t] # <<>>
  PROVE  /\ Top(t).role \in Roles /\ Top(t).pc \in Pcs
         /\ Top(t).pc \in OwnerPcs \ HelperPcs => Top(t).role = "owner"
         /\ Top(t).pc \in HelperPcs => Top(t).role \in {"owner", "helper"}
         /\ Top(t).pc = "self" => Top(t).role = "helper"
         /\ Top(t).pc \in {"children", "spin"} => Top(t).role = "parent"
         /\ Top(t).pc = "pushed" => Top(t).role = "pusher"
         /\ Top(t).role = "owner" => IsSliceTask(Top(t).group)
         /\ Top(t).pc = "self" => ~IsSliceTask(Top(t).group)
         /\ Top(t).pc = "push" => Top(t).work[2] \in Workers
<1>1. Top(t).role \in Roles /\ Top(t).pc \in Pcs
  BY TopIs DEF FrameType
<1>2. QED
  BY <1>1, TopIs DEF FrameOK, OwnerPcs, HelperPcs, Roles

\* The steps of ForTaskGroup::Enqueue, ExecuteLoop and wait_for_finished.
LEMMA CountPool ==
  ASSUME PoolInv, NEW t \in Threads, Count(t) PROVE PoolInv'
<1> DEFINE f == [Top(t) EXCEPT !.pc = "zero"]
<1>1. stack[t] # <<>> /\ Top(t).pc = "count" /\ Set(t, f)
  BY DEF Count, At, Goto
<1>2. f \in FrameType
  BY <1>1, TopIs DEF FrameType, Pcs
<1>3. f.role = "owner" /\ f.group = Top(t).group /\ f.role = Top(t).role /\ f.pc = "zero"
  BY <1>1, <1>2, RoleOfPc, TopIs DEF OwnerPcs, HelperPcs, FrameType
<1>4. Types'
  <2>1. Size(Top(t).call) \in Int
    BY <1>1, TopIs, CallsAre
  <2>2. group' \in [Groups -> GroupType]
    BY <2>1, <1>1, TopIs DEF Count, PoolInv, Types, GroupType
  <2>3. QED
    BY <1>1, <1>2, <2>2, SetFrames DEF Count, PoolInv, Types
<1>5. FramesInv' /\ TaskInv'
  <2>1. \A g \in Groups : /\ group'[g].deleted = group[g].deleted
                          /\ group'[g].execLoopDone = group[g].execLoopDone
    BY DEF Count, PoolInv, Types, GroupType
  <2>2. QED
    BY <1>1, <1>2, <1>3, <2>1, MoveOn DEF Count, OwnerPcs
<1>6. QED
  BY <1>4, <1>5 DEF PoolInv

\* The iteration a frame is at is moved on.
LEMMA WorkOf ==
  \A x \in AnyCall \X Nat, n \in Nat : /\ [x EXCEPT ![2] = n] \in AnyCall \X Nat
                                     /\ [x EXCEPT ![2] = n][2] = n /\ [x EXCEPT ![2] = n][1] = x[1]
OBVIOUS

\* The queues after PushTaskGroup.
LEMMA EnqueuedIs ==
  ASSUME queue \in [Threads \ {0} -> [Groups -> Nat]], NEW w \in Threads \ {0}, NEW g \in Groups
  PROVE  /\ Enqueued(w, g) \in [Threads \ {0} -> [Groups -> Nat]]
         /\ \A u \in Threads \ {0}, e \in Groups :
              Enqueued(w, g)[u][e] = IF u = w /\ e = g THEN queue[u][e] + 1 ELSE queue[u][e]
<1>1. Enqueued(w, g) = [queue EXCEPT ![w] = [queue[w] EXCEPT ![g] = queue[w][g] + 1]]
  BY DEF Enqueued
<1>2. queue[w] \in [Groups -> Nat] /\ queue[w][g] + 1 \in Nat
  OBVIOUS
<1>3. [queue[w] EXCEPT ![g] = queue[w][g] + 1] \in [Groups -> Nat]
  BY <1>2
<1>4. QED
  BY <1>1, <1>2, <1>3

\* Fields of a group that a step sets.
LEMMA SetGroup ==
  ASSUME group \in [Groups -> GroupType], NEW g \in Groups, NEW r \in GroupType,
         group' = [group EXCEPT ![g] = r]
  PROVE  group' \in [Groups -> GroupType]
OBVIOUS

LEMMA ZeroPool ==
  ASSUME PoolInv, NEW t \in Threads, Zero(t) PROVE PoolInv'
<1> DEFINE f == [Top(t) EXCEPT !.pc = "func"]
<1>1. stack[t] # <<>> /\ Top(t).pc = "zero" /\ Set(t, f)
  BY DEF Zero, At, Goto
<1>2. f \in FrameType
  BY <1>1, TopIs DEF FrameType, Pcs
<1>3. /\ f.role = Top(t).role /\ f.group = Top(t).group /\ f.role \in {"owner", "helper"}
      /\ f.role = "owner" => f.pc \in OwnerPcs
      /\ f.role = "helper" => f.pc \in HelperPcs /\ (f.pc = "self" => ~IsSliceTask(f.group))
      /\ f.pc = "push" => f.work[2] \in Workers
  BY <1>1, <1>2, RoleOfPc, TopIs DEF OwnerPcs, HelperPcs, FrameType
<1>4. Types'
  <2>1. group' \in [Groups -> GroupType]
    BY <1>1, TopIs DEF Zero, PoolInv, Types, GroupType
  <2>2. QED
    BY <1>1, <1>2, <2>1, SetFrames DEF Zero, PoolInv, Types
<1>5. FramesInv' /\ TaskInv'
  <2>1. \A g \in Groups : /\ group'[g].deleted = group[g].deleted
                          /\ group'[g].execLoopDone = group[g].execLoopDone
    BY DEF Zero, PoolInv, Types, GroupType
  <2>2. next' = next /\ \A u \in Threads \ {0} : \A g \in Groups :
          ~IsSliceTask(g) => queue'[u][g] = queue[u][g]
    BY DEF Zero
  <2>3. QED
    BY <1>1, <1>2, <1>3, <2>1, <2>2, MoveOn
<1>6. QED
  BY <1>4, <1>5 DEF PoolInv

LEMMA FuncPool ==
  ASSUME PoolInv, NEW t \in Threads, Func(t) PROVE PoolInv'
<1> DEFINE f == [Top(t) EXCEPT !.pc = "push", !.work[2] = 1]
<1>1. stack[t] # <<>> /\ Top(t).pc = "func" /\ Set(t, f)
  BY DEF Func, At, Goto
<1>2. f \in FrameType
  <2>1. [Top(t).work EXCEPT ![2] = 1] \in AnyCall \X Nat
    BY <1>1, TopIs, WorkOf DEF FrameType
  <2>2. QED
    BY <1>1, <2>1, TopIs DEF FrameType, Pcs
<1>3. /\ f.role = Top(t).role /\ f.group = Top(t).group /\ f.role \in {"owner", "helper"}
      /\ f.role = "owner" => f.pc \in OwnerPcs
      /\ f.role = "helper" => f.pc \in HelperPcs /\ (f.pc = "self" => ~IsSliceTask(f.group))
      /\ f.pc = "push" => f.work[2] \in Workers
  BY <1>1, <1>2, RoleOfPc, TopIs, ThreadsAssumption, WorkOf DEF OwnerPcs, HelperPcs, FrameType, Workers
<1>4. Types'
  <2>1. group' \in [Groups -> GroupType]
    BY ZenonT(60), <1>1, TopIs, CallsAre DEF Func, PoolInv, Types, GroupType
  <2>2. QED
    BY <1>1, <1>2, <2>1, SetFrames DEF Func, PoolInv, Types
<1>5. FramesInv' /\ TaskInv'
  <2>1. \A g \in Groups : /\ group'[g].deleted = group[g].deleted
                          /\ group'[g].execLoopDone = group[g].execLoopDone
    BY DEF Func, PoolInv, Types, GroupType
  <2>2. next' = next /\ \A u \in Threads \ {0} : \A g \in Groups :
          ~IsSliceTask(g) => queue'[u][g] = queue[u][g]
    BY DEF Func
  <2>3. QED
    BY <1>1, <1>2, <1>3, <2>1, <2>2, MoveOn
<1>6. QED
  BY <1>4, <1>5 DEF PoolInv

LEMMA StepPool ==
  ASSUME PoolInv, NEW t \in Threads, Step(t) PROVE PoolInv'
<1> DEFINE f == IF group[Top(t).group].ctr < group[Top(t).group].to
                  THEN [Top(t) EXCEPT !.pc = "run", !.work[2] = group[Top(t).group].ctr]
                  ELSE [Top(t) EXCEPT !.pc = "end"]
<1>1. stack[t] # <<>> /\ Top(t).pc = "step" /\ Set(t, f)
  BY DEF Step, At, Goto
<1>2. f \in FrameType
  <2>1. group[Top(t).group].ctr \in Nat
    BY <1>1, TopIs DEF GroupType
  <2>2. [Top(t).work EXCEPT ![2] = group[Top(t).group].ctr] \in AnyCall \X Nat
    BY <1>1, <2>1, TopIs, WorkOf DEF FrameType
  <2>3. QED
    BY <1>1, <2>2, TopIs DEF FrameType, Pcs
<1>3. /\ f.role = Top(t).role /\ f.group = Top(t).group /\ f.role \in {"owner", "helper"}
      /\ f.role = "owner" => f.pc \in OwnerPcs
      /\ f.role = "helper" => f.pc \in HelperPcs /\ (f.pc = "self" => ~IsSliceTask(f.group))
      /\ f.pc = "push" => f.work[2] \in Workers
  BY <1>1, <1>2, RoleOfPc, TopIs DEF OwnerPcs, HelperPcs, FrameType
<1>4. Types'
  <2>1. group' = [group EXCEPT ![Top(t).group] = [group[Top(t).group] EXCEPT !.ctr = group[Top(t).group].ctr + 1]]
    BY DEF Step, Claimed
  <2>3. [group[Top(t).group] EXCEPT !.ctr = group[Top(t).group].ctr + 1] \in GroupType
    BY <1>1, TopIs DEF GroupType
  <2>4. group' \in [Groups -> GroupType]
    BY <1>1, <2>1, <2>3, TopIs, SetGroup DEF PoolInv, Types
  <2>2. QED
    BY <1>1, <1>2, <2>4, SetFrames DEF Step, PoolInv, Types
<1>5. FramesInv' /\ TaskInv'
  <2>1. \A g \in Groups : /\ group'[g].deleted = group[g].deleted
                          /\ group'[g].execLoopDone = group[g].execLoopDone
    BY DEF Step, PoolInv, Types, GroupType
  <2>2. next' = next /\ \A u \in Threads \ {0} : \A g \in Groups :
          ~IsSliceTask(g) => queue'[u][g] = queue[u][g]
    BY DEF Step
  <2>3. QED
    BY <1>1, <1>2, <1>3, <2>1, <2>2, MoveOn
<1>6. QED
  BY <1>4, <1>5 DEF PoolInv

LEMMA DonePool ==
  ASSUME PoolInv, NEW t \in Threads, Done(t) PROVE PoolInv'
<1> DEFINE f == [Top(t) EXCEPT !.pc = IF Top(t).group[1] = "async" THEN "end" ELSE "step"]
<1>1. stack[t] # <<>> /\ Top(t).pc = "done" /\ Set(t, f)
  BY DEF Done, At, Goto
<1>2. f \in FrameType
  BY <1>1, TopIs DEF FrameType, Pcs
<1>3. /\ f.role = Top(t).role /\ f.group = Top(t).group /\ f.role \in {"owner", "helper"}
      /\ f.role = "owner" => f.pc \in OwnerPcs
      /\ f.role = "helper" => f.pc \in HelperPcs /\ (f.pc = "self" => ~IsSliceTask(f.group))
      /\ f.pc = "push" => f.work[2] \in Workers
  BY <1>1, <1>2, RoleOfPc, TopIs DEF OwnerPcs, HelperPcs, FrameType
<1>4. Types'
  <2>1. group' = [group EXCEPT ![Top(t).group] = [group[Top(t).group] EXCEPT !.remaining = group[Top(t).group].remaining - 1]]
    BY DEF Done
  <2>3. [group[Top(t).group] EXCEPT !.remaining = group[Top(t).group].remaining - 1] \in GroupType
    BY <1>1, TopIs DEF GroupType
  <2>4. group' \in [Groups -> GroupType]
    BY <1>1, <2>1, <2>3, TopIs, SetGroup DEF PoolInv, Types
  <2>2. QED
    BY <1>1, <1>2, <2>4, SetFrames DEF Done, PoolInv, Types
<1>5. FramesInv' /\ TaskInv'
  <2>1. \A g \in Groups : /\ group'[g].deleted = group[g].deleted
                          /\ group'[g].execLoopDone = group[g].execLoopDone
    BY DEF Done, PoolInv, Types, GroupType
  <2>2. next' = next /\ \A u \in Threads \ {0} : \A g \in Groups :
          ~IsSliceTask(g) => queue'[u][g] = queue[u][g]
    BY DEF Done
  <2>3. QED
    BY <1>1, <1>2, <1>3, <2>1, <2>2, MoveOn
<1>6. QED
  BY <1>4, <1>5 DEF PoolInv

LEMMA EndOfTaskPool ==
  ASSUME PoolInv, NEW t \in Threads, EndOfTask(t) PROVE PoolInv'
<1> DEFINE f == [Top(t) EXCEPT !.pc = "self"]
<1>1. stack[t] # <<>> /\ Top(t).pc = "end" /\ Set(t, f)
  BY DEF EndOfTask, At, Goto
<1>2. f \in FrameType
  BY <1>1, TopIs DEF FrameType, Pcs
<1>3. /\ f.role = Top(t).role /\ f.group = Top(t).group /\ f.role \in {"owner", "helper"}
      /\ f.role = "owner" => f.pc \in OwnerPcs
      /\ f.role = "helper" => f.pc \in HelperPcs /\ (f.pc = "self" => ~IsSliceTask(f.group))
      /\ f.pc = "push" => f.work[2] \in Workers
  BY <1>1, <1>2, RoleOfPc, TopIs DEF OwnerPcs, HelperPcs, FrameType, EndOfTask
<1>4. Types'
  <2>1. group' \in [Groups -> GroupType]
    BY <1>1, TopIs DEF EndOfTask, PoolInv, Types, GroupType
  <2>2. QED
    BY <1>1, <1>2, <2>1, SetFrames DEF EndOfTask, PoolInv, Types
<1>5. FramesInv' /\ TaskInv'
  <2>1. \A g \in Groups : /\ group'[g].deleted = group[g].deleted
                          /\ group'[g].execLoopDone = group[g].execLoopDone
    BY DEF EndOfTask, PoolInv, Types, GroupType
  <2>2. next' = next /\ \A u \in Threads \ {0} : \A g \in Groups :
          ~IsSliceTask(g) => queue'[u][g] = queue[u][g]
    BY DEF EndOfTask
  <2>3. QED
    BY <1>1, <1>2, <1>3, <2>1, <2>2, MoveOn
<1>6. QED
  BY <1>4, <1>5 DEF PoolInv

LEMMA DrainedPool ==
  ASSUME PoolInv, NEW t \in Threads, Drained(t) PROVE PoolInv'
<1> DEFINE f == [Top(t) EXCEPT !.pc = "check"]
<1>1. stack[t] # <<>> /\ Top(t).pc = "drain" /\ Set(t, f)
  BY DEF Drained, At, Goto
<1>2. f \in FrameType
  BY <1>1, TopIs DEF FrameType, Pcs
<1>3. /\ f.role = Top(t).role /\ f.group = Top(t).group /\ f.role \in {"owner", "helper"}
      /\ f.role = "owner" => f.pc \in OwnerPcs
      /\ f.role = "helper" => f.pc \in HelperPcs /\ (f.pc = "self" => ~IsSliceTask(f.group))
      /\ f.pc = "push" => f.work[2] \in Workers
  BY <1>1, <1>2, RoleOfPc, TopIs DEF OwnerPcs, HelperPcs, FrameType
<1>4. Types'
  BY <1>1, <1>2, SetFrames DEF Drained, PoolInv, Types
<1>5. FramesInv' /\ TaskInv'
  <2>1. \A g \in Groups : /\ group'[g].deleted = group[g].deleted
                          /\ group'[g].execLoopDone = group[g].execLoopDone
    BY DEF Drained, PoolInv, Types, GroupType
  <2>2. next' = next /\ \A u \in Threads \ {0} : \A g \in Groups :
          ~IsSliceTask(g) => queue'[u][g] = queue[u][g]
    BY DEF Drained
  <2>3. QED
    BY <1>1, <1>2, <1>3, <2>1, <2>2, MoveOn
<1>6. QED
  BY <1>4, <1>5 DEF PoolInv

LEMMA PushTaskGroupPool ==
  ASSUME PoolInv, NEW t \in Threads, PushTaskGroup(t) PROVE PoolInv'
<1> DEFINE f == IF Top(t).work[2] + 1 \in Workers THEN [Top(t) EXCEPT !.work[2] = Top(t).work[2] + 1]
                ELSE [Top(t) EXCEPT !.pc = "step"]
<1>1. stack[t] # <<>> /\ Top(t).pc = "push" /\ Set(t, f)
  BY DEF PushTaskGroup, At, Goto
<1>2. f \in FrameType
  <2>1. Top(t).work[2] + 1 \in Nat
    BY <1>1, TopIs
  <2>2. [Top(t).work EXCEPT ![2] = Top(t).work[2] + 1] \in AnyCall \X Nat
    BY <1>1, <2>1, TopIs, WorkOf DEF FrameType
  <2>3. QED
    BY <1>1, <2>2, TopIs DEF FrameType, Pcs
<1>3. /\ f.role = Top(t).role /\ f.group = Top(t).group /\ f.role \in {"owner", "helper"}
      /\ f.role = "owner" => f.pc \in OwnerPcs
      /\ f.role = "helper" => f.pc \in HelperPcs /\ (f.pc = "self" => ~IsSliceTask(f.group))
      /\ f.pc = "push" => f.work[2] \in Workers
  BY <1>1, <1>2, RoleOfPc, TopIs, WorkOf DEF OwnerPcs, HelperPcs, FrameType
<1>4. Types'
  <2>1. Top(t).work[2] \in Threads \ {0} /\ Top(t).group \in Groups
    BY <1>1, TopIs, RoleOfPc, ThreadsAssumption DEF Workers, Threads
  <2>5. queue' \in [Threads \ {0} -> [Groups -> Nat]]
    BY <2>1, EnqueuedIs DEF PushTaskGroup, PoolInv, Types
  <2>2. QED
    BY <1>1, <1>2, <2>5, SetFrames DEF PushTaskGroup, PoolInv, Types
<1>5. FramesInv' /\ TaskInv'
  <2>1. \A g \in Groups : /\ group'[g].deleted = group[g].deleted
                          /\ group'[g].execLoopDone = group[g].execLoopDone
    BY DEF PushTaskGroup, PoolInv, Types, GroupType
  <2>2. next' = next /\ \A u \in Threads \ {0} : \A g \in Groups :
          ~IsSliceTask(g) => queue'[u][g] = queue[u][g]
    BY <1>1, RoleOfPc DEF PushTaskGroup, Enqueued, PoolInv, Types, OwnerPcs, HelperPcs
  <2>3. QED
    BY <1>1, <1>2, <1>3, <2>1, <2>2, MoveOn
<1>6. QED
  BY <1>4, <1>5 DEF PoolInv

\* what the function of a group asks to be run
RunItem(t) == IF Kind(group[Top(t).group].func) = "parallel" THEN Top(t).group[2] ELSE Top(t).work[2]

LEMMA RunPool ==
  ASSUME PoolInv, NEW t \in Threads, Run(t) PROVE PoolInv'
<1> DEFINE f == [Top(t) EXCEPT !.pc = IF HasNested(group[Top(t).group].func) THEN "inner" ELSE "done",
                              !.work = <<group[Top(t).group].func, RunItem(t)>>]
<1>1. stack[t] # <<>> /\ Top(t).pc = "run" /\ Set(t, f)
  BY DEF Run, At, Goto, RunItem
<1>2. f \in FrameType
  <2>1. RunItem(t) \in Nat /\ group[Top(t).group].func \in AnyCall
    BY <1>1, TopIs, GroupsAre DEF RunItem, GroupType
  <2>2. QED
    BY <1>1, <2>1, TopIs DEF FrameType, Pcs
<1>3. /\ f.role = Top(t).role /\ f.group = Top(t).group /\ f.role \in {"owner", "helper"}
      /\ f.role = "owner" => f.pc \in OwnerPcs
      /\ f.role = "helper" => f.pc \in HelperPcs /\ (f.pc = "self" => ~IsSliceTask(f.group))
      /\ f.pc = "push" => f.work[2] \in Workers
  BY <1>1, <1>2, RoleOfPc, TopIs DEF OwnerPcs, HelperPcs, FrameType
<1>4. Types'
  BY <1>1, <1>2, SetFrames DEF Run, PoolInv, Types
<1>5. FramesInv' /\ TaskInv'
  <2>1. \A g \in Groups : /\ group'[g].deleted = group[g].deleted
                          /\ group'[g].execLoopDone = group[g].execLoopDone
    BY DEF Run, PoolInv, Types, GroupType
  <2>2. next' = next /\ \A u \in Threads \ {0} : \A g \in Groups :
          ~IsSliceTask(g) => queue'[u][g] = queue[u][g]
    BY DEF Run
  <2>3. QED
    BY <1>1, <1>2, <1>3, <2>1, <2>2, MoveOn
<1>6. QED
  BY <1>4, <1>5 DEF PoolInv

LEMMA EndOfSlicePool ==
  ASSUME PoolInv, NEW t \in Threads, EndOfSlice(t) PROVE PoolInv'
<1>1. stack[t] # <<>> /\ Top(t).pc = "end"
  BY DEF EndOfSlice, At
<1>2. /\ \A g \in Groups : /\ group'[g].deleted = group[g].deleted
                           /\ group'[g].execLoopDone = group[g].execLoopDone
      /\ next' = next /\ queue' = queue /\ pos' = pos
  BY SMTT(40) DEF EndOfSlice, PoolInv, Types, GroupType
<1>3. CASE Top(t).role = "owner"
  <2> DEFINE f == [Top(t) EXCEPT !.pc = "check"]
  <2>1. Set(t, f)
    BY <1>3 DEF EndOfSlice, Goto
  <2>2. f \in FrameType /\ f.role = "owner" /\ f.group = Top(t).group /\ f.pc = "check"
    BY <1>1, <1>3, TopIs DEF FrameType, Pcs
  <2>3. group' \in [Groups -> GroupType]
    <3>1. group' = [group EXCEPT ![Top(t).group] = [group[Top(t).group] EXCEPT !.inTaskQueue = FALSE]]
      BY <1>3 DEF EndOfSlice
    <3>2. [group[Top(t).group] EXCEPT !.inTaskQueue = FALSE] \in GroupType
      BY <1>1, TopIs DEF GroupType
    <3>3. QED
      BY <1>1, <3>1, <3>2, TopIs, SetGroup DEF PoolInv, Types
  <2>4. Types'
    BY <1>1, <1>2, <2>1, <2>2, <2>3, SetFrames DEF PoolInv, Types
  <2>5. FramesInv' /\ TaskInv'
    BY <1>1, <1>2, <1>3, <2>1, <2>2, MoveOn DEF OwnerPcs
  <2>6. QED
    BY <2>4, <2>5 DEF PoolInv
<1>4. CASE Top(t).role # "owner"
  <2>1. Pop(t) /\ group' = group /\ Top(t).role # "parent"
    BY <1>1, <1>4, RoleOfPc DEF EndOfSlice, HelperPcs
  <2>2. Types'
    BY <1>1, <1>2, <2>1, PopFrames DEF PoolInv, Types
  <2>3. QED
    BY <1>1, <1>2, <2>1, <2>2, PopOn DEF PoolInv
<1>5. QED
  BY <1>3, <1>4

LEMMA WaitPool ==
  ASSUME PoolInv, NEW t \in Threads, WaitForFinished(t) PROVE PoolInv'
<1>1. stack[t] # <<>> /\ Top(t).pc = "check" /\ Top(t).role = "owner"
  BY RoleOfPc DEF WaitForFinished, At, OwnerPcs, HelperPcs
<1>2. next' = next /\ queue' = queue /\ pos' = pos
  BY DEF WaitForFinished
<1>3. /\ group' \in [Groups -> GroupType]
      /\ \A g \in Groups : /\ group'[g].deleted = group[g].deleted
                           /\ group'[g].execLoopDone = group[g].execLoopDone
  <2> DEFINE g == Top(t).group
             r == [group[g] EXCEPT !.remaining = 0, !.inTaskQueue = FALSE]
  <2>1. g \in Groups /\ r \in GroupType /\ r.deleted = group[g].deleted /\ r.execLoopDone = group[g].execLoopDone
    BY <1>1, TopIs, EmptyGroup
  <2>2. group' = group \/ group' = [group EXCEPT ![g] = r]
    BY DEF WaitForFinished
  <2> HIDE DEF g, r
  <2>3. QED
    BY <2>1, <2>2 DEF PoolInv, Types
<1>4. CASE Finished(Top(t).group)
  <2>1. Pop(t)
    BY <1>4 DEF WaitForFinished
  <2>2. Types'
    BY <1>1, <1>2, <1>3, <2>1, PopFrames DEF PoolInv, Types
  <2>3. QED
    BY <1>1, <1>2, <1>3, <2>1, <2>2, PopOn DEF PoolInv
<1>5. CASE ~Finished(Top(t).group)
  <2> DEFINE f == [Top(t) EXCEPT !.pc = "drain"]
  <2>1. Set(t, f)
    BY <1>5 DEF WaitForFinished, Goto
  <2>2. f \in FrameType /\ f.role = "owner" /\ f.group = Top(t).group /\ f.pc = "drain"
    BY <1>1, TopIs DEF FrameType, Pcs
  <2>4. Types'
    BY <1>1, <1>2, <1>3, <2>1, <2>2, SetFrames DEF PoolInv, Types
  <2>5. FramesInv' /\ TaskInv'
    BY <1>1, <1>2, <1>3, <2>1, <2>2, MoveOn DEF OwnerPcs
  <2>6. QED
    BY <2>4, <2>5 DEF PoolInv
<1>6. QED
  BY <1>4, <1>5

LEMMA PushedPool ==
  ASSUME PoolInv, Pushed PROVE PoolInv'
<1>0. 0 \in Threads
  BY DEF Threads
<1>1. stack[0] # <<>> /\ Top(0).role = "pusher" /\ Pop(0)
  BY <1>0, RoleOfPc DEF Pushed, At
<1>2. group' = group /\ next' = next /\ queue' = queue /\ pos' = pos
  BY DEF Pushed
<1>3. Types'
  BY <1>0, <1>1, <1>2, PopFrames DEF PoolInv, Types
<1>4. QED
  BY <1>0, <1>1, <1>2, <1>3, PopOn DEF PoolInv

-----------------------------------------------------------------------------
(* A call takes a group of the pool. *)

\* GetTaskGroup for a call, above the frames there are.
LEMMA NewCall ==
  ASSUME PoolInv, NEW t \in Threads, NEW c \in AnyCall, NEW below, GetTaskGroup(t, c, below),
         NEW f, f = Frame("owner", "count", <<PoolOf(c), pos[PoolOf(c)] % PoolSize>>, c),
         next' \in 1..(Len(Program) + 1), next' >= next,
         Stacks', Above(t) \notin Places, Places' = Places \cup {Above(t)}, frames'[Above(t)] = f,
         \A p \in Places :
           \/ frames'[p] = frames[p]
           \/ frames[p].pc = "inner" /\ frames'[p] = [frames[p] EXCEPT !.pc = "done"]
  PROVE  PoolInv'
<1> DEFINE g == <<PoolOf(c), pos[PoolOf(c)] % PoolSize>>
<1>1. PoolOf(c) \in {"outer", "inner"} /\ pos[PoolOf(c)] \in Nat /\ PoolSize \in Nat \ {0}
  BY CallsAre, ThreadsAssumption DEF PoolInv, Types
<1>2. g \in Groups /\ IsSliceTask(g)
  BY <1>1 DEF Groups, IsSliceTask
<1>3. f \in FrameType /\ f.role = "owner" /\ f.pc = "count" /\ f.group = g
  BY <1>1, <1>2 DEF FrameType, Frame, Roles, Pcs
<1>4. pos' = [pos EXCEPT ![PoolOf(c)] = @ + 1] /\ queue' = queue
  BY DEF GetTaskGroup
<1>5. group' = [group EXCEPT ![g] = [group[g] EXCEPT !.remaining = 0, !.inTaskQueue = TRUE]]
  BY DEF GetTaskGroup
<1>6. [group[g] EXCEPT !.remaining = 0, !.inTaskQueue = TRUE] \in GroupType
  <2>1. group[g] \in GroupType
    BY <1>2 DEF PoolInv, Types
  <2>2. QED
    BY <2>1, EmptyGroup
<1>7. Types'
  BY <1>1, <1>2, <1>4, <1>5, <1>6, SetGroup DEF PoolInv, Types
<1>8. \A e \in Groups : group'[e].deleted = group[e].deleted /\ group'[e].execLoopDone = group[e].execLoopDone
  BY <1>2, <1>5, EmptyGroup DEF PoolInv, Types
<1>9. FramesInv'
  <2>1. SUFFICES ASSUME NEW p \in Places \cup {Above(t)} PROVE FrameOK(p)'
    BY DEF FramesInv
  <2>2. CASE p \in Places
    <3>1. frames[p] \in FrameType /\ FrameOK(p)
      BY <2>2, FramesTyped DEF PoolInv, Types, FramesInv
    <3>2. CASE frames'[p] = frames[p]
      BY <3>1, <3>2 DEF FrameOK
    <3>3. CASE frames[p].pc = "inner" /\ frames'[p] = [frames[p] EXCEPT !.pc = "done"]
      BY <3>1, <3>3 DEF FrameOK, FrameType, OwnerPcs, HelperPcs
    <3>4. QED
      BY <2>2, <3>2, <3>3
  <2>3. CASE p = Above(t)
    BY <1>2, <1>3, <2>3 DEF FrameOK, OwnerPcs
  <2>4. QED
    BY <2>2, <2>3
<1>0. \A p \in Places : /\ frames'[p].role = frames[p].role /\ frames'[p].group = frames[p].group
                        /\ frames[p].role = "parent" => frames'[p] = frames[p]
  <2>1. SUFFICES ASSUME NEW p \in Places
                 PROVE  /\ frames'[p].role = frames[p].role /\ frames'[p].group = frames[p].group
                        /\ frames[p].role = "parent" => frames'[p] = frames[p]
    OBVIOUS
  <2>2. frames[p] \in FrameType /\ FrameOK(p)
    BY FramesTyped DEF PoolInv, Types, FramesInv
  <2>3. QED
    BY <2>2 DEF FrameOK, FrameType
<1>10. \A p, e : Holds(p, e)' <=> Holds(p, e)
  BY <1>0, <1>3 DEF Holds
<1>11. \A w : Active(w) => Active(w)'
  BY <1>0 DEF Active
<1>12. \A e \in Groups : ~IsSliceTask(e) => OneUser(e)' /\ Alive(e)'
  <2>1. SUFFICES ASSUME NEW e \in Groups, ~IsSliceTask(e) PROVE OneUser(e)' /\ Alive(e)'
    OBVIOUS
  <2>2. OneUser(e) /\ Alive(e)
    BY <2>1 DEF PoolInv, TaskInv
  <2>8. \A p : Holds(p, e)' => Holds(p, e) /\ p \in Places
    BY <1>10 DEF Holds
  <2>3. OneUser(e)'
    BY <1>4, <2>2, <2>8 DEF OneUser
  <2>4. InUse(e)' => InUse(e)
    BY <1>4, <1>10 DEF InUse, Holds
  <2>5. e[1] = "async" => e[2] \in Nat
    BY GroupsAre
  <2>6. Alive(e)'
    BY <1>8, <1>11, <2>2, <2>4, <2>5 DEF Alive, PoolInv, Types
  <2>7. QED
    BY <2>3, <2>6
<1>13. QED
  BY <1>7, <1>8, <1>9, <1>12 DEF PoolInv, TaskInv

\* The main thread makes its next call when it is in none.
LEMMA CallIs ==
  ASSUME PoolInv, NEW kind, Call(kind)
  PROVE  /\ 0 \in Threads /\ <<next>> \in AnyCall /\ next \in 1..Len(Program) /\ next' = next + 1
         /\ next' \in 1..(Len(Program) + 1) /\ next' >= next
         /\ stack[0] = <<>> /\ Above(0) = <<0, 1>>
<1>1. Len(Program) \in Nat /\ Len(<<>>) = 0
  BY ProgramAssumption, LenProperties, EmptySeq
<1>2. next \in 1..Len(Program) /\ stack[0] = <<>> /\ next' = next + 1
  BY <1>1 DEF Call, PoolInv, Types
<1>3. QED
  BY <1>1, <1>2 DEF AnyCall, Threads, Above

\* for_mt, of the main thread and within an iteration.
LEMMA ForMTPool ==
  ASSUME PoolInv, ForMT PROVE PoolInv'
<1> DEFINE c == <<next>>
           f == Frame("owner", "count", <<PoolOf(c), pos[PoolOf(c)] % PoolSize>>, c)
<1>1. GetTaskGroup(0, c, <<>>) /\ Call("for")
  BY DEF ForMT
<1>2. f \in FrameType
  <2>1. PoolOf(c) \in {"outer", "inner"} /\ pos[PoolOf(c)] \in Nat /\ PoolSize \in Nat \ {0} /\ c \in AnyCall
    BY <1>1, CallIs, CallsAre, ThreadsAssumption DEF PoolInv, Types
  <2>2. <<PoolOf(c), pos[PoolOf(c)] % PoolSize>> \in Groups
    BY <2>1 DEF Groups
  <2>3. QED
    BY <2>1, <2>2 DEF FrameType, Frame, Roles, Pcs
<1>3. stack' = [stack EXCEPT ![0] = <<f>> \o @]
  BY <1>1, CallIs DEF GetTaskGroup, PoolInv, Types, Stacks
<1>4. /\ Stacks' /\ Above(0) \notin Places /\ Places' = Places \cup {Above(0)}
      /\ frames'[Above(0)] = f /\ \A p \in Places : frames'[p] = frames[p]
  BY <1>1, <1>2, <1>3, CallIs, PushFrames DEF PoolInv, Types
<1> HIDE DEF c, f
<1>6. QED
  BY <1>1, <1>4, CallIs, NewCall DEF c, f

LEMMA NestedPool ==
  ASSUME PoolInv, NEW t \in Threads, NestedForMT(t) PROVE PoolInv'
<1> DEFINE c == <<Top(t).work[1][1], Top(t).work[2]>>
           e == [Top(t) EXCEPT !.pc = "done"]
           f == Frame("owner", "count", <<PoolOf(c), pos[PoolOf(c)] % PoolSize>>, c)
<1>1. /\ stack[t] # <<>> /\ Top(t).pc = "inner" /\ next' = next
      /\ GetTaskGroup(t, c, <<e>> \o Tail(stack[t]))
  BY DEF NestedForMT, At
<1>2. c \in AnyCall
  BY <1>1, TopIs, CallsAre DEF AnyCall
<1>3. f \in FrameType /\ e \in FrameType
  <2>1. PoolOf(c) \in {"outer", "inner"} /\ pos[PoolOf(c)] \in Nat /\ PoolSize \in Nat \ {0}
    BY <1>2, CallsAre, ThreadsAssumption DEF PoolInv, Types
  <2>2. <<PoolOf(c), pos[PoolOf(c)] % PoolSize>> \in Groups
    BY <2>1 DEF Groups
  <2> HIDE DEF c
  <2>3. f \in FrameType
    BY <1>2, <2>2 DEF FrameType, Frame, Roles, Pcs
  <2>4. QED
    BY <1>1, <2>3, TopIs DEF FrameType, Pcs
<1>4. stack' = [stack EXCEPT ![t] = <<f>> \o (<<e>> \o Tail(stack[t]))]
  BY <1>1 DEF GetTaskGroup
<1> HIDE DEF c, e, f
<1>5. /\ Stacks' /\ Above(t) \notin Places /\ Places' = Places \cup {Above(t)}
      /\ frames'[Above(t)] = f /\ frames'[TopPlace(t)] = e
      /\ \A p \in Places : p # TopPlace(t) => frames'[p] = frames[p]
  BY <1>1, <1>3, <1>4, NestedFrames DEF PoolInv, Types
<1>6. \A p \in Places :
           \/ frames'[p] = frames[p]
           \/ frames[p].pc = "inner" /\ frames'[p] = [frames[p] EXCEPT !.pc = "done"]
  BY <1>1, <1>5, TopIs DEF e
<1>7. next' \in 1..(Len(Program) + 1) /\ next' >= next
  BY <1>1, CallsAre, <1>2 DEF PoolInv, Types
<1>8. QED
  BY <1>1, <1>2, <1>5, <1>6, <1>7, NewCall DEF f

-----------------------------------------------------------------------------
(* Sections and tasks *)

\* parallel and Enqueue.
LEMMA ParallelPool ==
  ASSUME PoolInv, Parallel PROVE PoolInv'
<1> DEFINE f == Frame("parent", "children", Child(1), <<next>>)
<1>1. Call("parallel") /\ group' = group /\ queue' = queue /\ pos' = pos
  BY DEF Parallel
<1>2. 1 \in Workers /\ Child(1) \in Groups /\ ~IsSliceTask(Child(1)) /\ Child(1)[2] = 1
  BY ThreadsAssumption DEF Workers, Groups, Child, IsSliceTask
<1>3. f \in FrameType /\ f.role = "parent" /\ f.pc = "children" /\ f.group = Child(1)
  BY <1>1, <1>2, CallIs DEF FrameType, Frame, Roles, Pcs
<1>4. stack' = [stack EXCEPT ![0] = <<f>> \o @]
  <2>1. stack' = [stack EXCEPT ![0] = <<f>>] /\ stack[0] = <<>>
    BY <1>1, CallIs DEF Parallel
  <2>2. <<f>> \o <<>> = <<f>>
    <3>1. <<f>> \in Seq(FrameType)
      BY <1>3
    <3>2. QED
      BY <3>1, ConcatEmptySeq
  <2>3. QED
    BY <2>1, <2>2
<1> HIDE DEF f
<1>5. /\ Stacks' /\ <<0, 1>> \notin Places /\ Places' = Places \cup {<<0, 1>>}
      /\ frames'[<<0, 1>>] = f /\ \A p \in Places : frames'[p] = frames[p]
  BY <1>1, <1>3, <1>4, CallIs, PushFrames DEF PoolInv, Types
<1>6. Types'
  BY <1>1, <1>5, CallIs DEF PoolInv, Types
<1>7. FramesInv'
  BY <1>2, <1>3, <1>5 DEF PoolInv, FramesInv, FrameOK
<1>8. \A p, e : Holds(p, e)' => Holds(p, e) /\ p \in Places
  BY <1>3, <1>5 DEF Holds
<1>9. \A w : ~Active(w)
  BY <1>5 DEF Active
<1>10. \A e \in Groups : ~IsSliceTask(e) => OneUser(e)' /\ Alive(e)'
  <2>1. SUFFICES ASSUME NEW e \in Groups, ~IsSliceTask(e) PROVE OneUser(e)' /\ Alive(e)'
    OBVIOUS
  <2>2. OneUser(e) /\ Alive(e)
    BY <2>1 DEF PoolInv, TaskInv
  <2>3. OneUser(e)'
    BY <1>1, <1>8, <2>2 DEF OneUser
  <2>4. InUse(e)' => InUse(e)
    BY <1>1, <1>8 DEF InUse
  <2>5. Alive(e)'
    BY <1>1, <1>9, <2>2, <2>4, CallIs, GroupsAre DEF Alive, PoolInv, Types
  <2>6. QED
    BY <2>3, <2>5
<1>11. QED
  BY <1>1, <1>6, <1>7, <1>10 DEF PoolInv, TaskInv

\* A task nobody has goes to one thread.
LEMMA NewTask ==
  ASSUME NEW c \in AnyCall
  PROVE  NewGroup(c) \in GroupType /\ ~NewGroup(c).deleted /\ ~NewGroup(c).execLoopDone
BY DEF NewGroup, GroupType

LEMMA EnqueuePool ==
  ASSUME PoolInv, Enqueue PROVE PoolInv'
<1> DEFINE k == Async(next)
           f == Frame("pusher", "pushed", k, <<next>>)
<1>1. Call("async") /\ pos' = pos
  BY DEF Enqueue
<1>2. k \in Groups /\ ~IsSliceTask(k) /\ k[1] = "async" /\ k[2] = next
  BY <1>1, CallIs DEF Groups, Async, IsSliceTask
<1>3. f \in FrameType /\ f.role = "pusher" /\ f.pc = "pushed"
  BY <1>1, <1>2, CallIs DEF FrameType, Frame, Roles, Pcs
<1>4. stack' = [stack EXCEPT ![0] = <<f>> \o @]
  <2>1. stack' = [stack EXCEPT ![0] = <<f>>] /\ stack[0] = <<>>
    BY <1>1, CallIs DEF Enqueue
  <2>2. <<f>> \o <<>> = <<f>>
    <3>1. <<f>> \in Seq(FrameType)
      BY <1>3
    <3>2. QED
      BY <3>1, ConcatEmptySeq
  <2>3. QED
    BY <2>1, <2>2
<1>5. PICK w \in AsyncWorkers : queue' = Enqueued(w, k)
  BY DEF Enqueue
<1>0. group' = [group EXCEPT ![k] = NewGroup(<<next>>)]
  BY DEF Enqueue
<1> HIDE DEF f, k
<1>6. /\ Stacks' /\ <<0, 1>> \notin Places /\ Places' = Places \cup {<<0, 1>>}
      /\ frames'[<<0, 1>>] = f /\ \A p \in Places : frames'[p] = frames[p]
  BY <1>1, <1>3, <1>4, CallIs, PushFrames DEF PoolInv, Types
<1>7. w \in Threads \ {0}
  BY ThreadsAssumption DEF AsyncWorkers, Threads
<1>8. /\ queue' \in [Threads \ {0} -> [Groups -> Nat]]
      /\ \A u \in Threads \ {0}, e \in Groups :
           queue'[u][e] = IF u = w /\ e = k THEN queue[u][e] + 1 ELSE queue[u][e]
  BY <1>2, <1>5, <1>7, EnqueuedIs DEF PoolInv, Types
<1>9. group' \in [Groups -> GroupType] /\ \A e \in Groups : e # k => group'[e] = group[e]
  BY <1>0, <1>1, <1>2, CallIs, NewTask DEF PoolInv, Types
<1>10. ~group'[k].deleted /\ ~group'[k].execLoopDone
  BY <1>0, <1>1, <1>2, CallIs, NewTask DEF PoolInv, Types
<1>11. Types'
  BY <1>1, <1>6, <1>8, <1>9, CallIs DEF PoolInv, Types
<1>12. FramesInv'
  BY <1>3, <1>6 DEF PoolInv, FramesInv, FrameOK
<1>13. \A p, e : Holds(p, e)' => Holds(p, e) /\ p \in Places
  BY <1>3, <1>6 DEF Holds
<1>14. \A v : ~Active(v)
  BY <1>6 DEF Active
<1>15. \A e \in Groups : e = k => OneUser(e)' /\ Alive(e)'
  <2>0. SUFFICES ASSUME NEW e \in Groups, e = k PROVE OneUser(e)' /\ Alive(e)'
    OBVIOUS
  <2>1. OneUser(k) /\ ~InUse(k)
    BY <1>2 DEF PoolInv, TaskInv, Alive, Types
  <2>2. \A u \in Threads \ {0} : queue[u][k] = 0
    BY <1>2, <2>1 DEF InUse, OneUser
  <2>3. \A p \in Places' : ~Holds(p, e)'
    BY <1>13, <2>0, <2>1 DEF InUse
  <2>4. OneUser(e)'
    BY <1>2, <1>8, <2>0, <2>2, <2>3 DEF OneUser
  <2>5. Alive(e)'
    BY <1>1, <1>2, <1>10, <2>0, CallIs DEF Alive, PoolInv, Types
  <2>6. QED
    BY <2>4, <2>5
<1>16. \A e \in Groups : ~IsSliceTask(e) => OneUser(e)' /\ Alive(e)'
  <2>1. SUFFICES ASSUME NEW e \in Groups, ~IsSliceTask(e), e # k PROVE OneUser(e)' /\ Alive(e)'
    BY <1>15
  <2>2. OneUser(e) /\ Alive(e) /\ \A u \in Threads \ {0} : queue'[u][e] = queue[u][e]
    BY <1>8, <2>1 DEF PoolInv, TaskInv
  <2>3. OneUser(e)'
    BY <1>13, <2>2 DEF OneUser
  <2>4. InUse(e)' => InUse(e)
    BY <1>13, <2>2 DEF InUse
  <2>5. Alive(e)'
    BY <1>1, <1>9, <1>14, <2>1, <2>2, <2>4, CallIs, GroupsAre DEF Alive, PoolInv, Types
  <2>6. QED
    BY <2>3, <2>5
<1>17. \A e \in Groups : IsSliceTask(e) => ~group'[e].deleted
  BY <1>2, <1>9 DEF PoolInv, TaskInv
<1>18. QED
  BY <1>11, <1>12, <1>16, <1>17 DEF PoolInv, TaskInv

\* Child w is pushed, f the frame of the section from then on.
ChildPushed(w, f) ==
  /\ Child(w) \in Groups /\ ~IsSliceTask(Child(w)) /\ Child(w)[1] = "child" /\ Child(w)[2] = w
  /\ w \in Threads \ {0} /\ w \in Nat /\ pos' = pos /\ next' = next
  /\ ran' = ran /\ returned' = returned
  /\ f.role = "parent" /\ f.pc \in {"children", "spin"} /\ f.call = frames[<<0, 1>>].call
  /\ w + 1 \in Workers => f.group = Child(w + 1) /\ f.group[2] = w + 1
  /\ w + 1 \notin Workers => f.group = Child(w) /\ f.pc = "spin"
  /\ Stacks' /\ Places' = Places /\ frames' = [frames EXCEPT ![<<0, 1>>] = f]
  /\ <<0, 1>> \in Places /\ DOMAIN frames = Places
  /\ frames[<<0, 1>>] \in FrameType
  /\ frames[<<0, 1>>].role = "parent" /\ frames[<<0, 1>>].pc = "children"
  /\ queue' \in [Threads \ {0} -> [Groups -> Nat]]
  /\ \A u \in Threads \ {0}, e \in Groups :
       queue'[u][e] = IF u = w /\ e = Child(w) THEN queue[u][e] + 1 ELSE queue[u][e]
  /\ group' \in [Groups -> GroupType] /\ \A e \in Groups : e # Child(w) => group'[e] = group[e]
  /\ group' = [group EXCEPT ![Child(w)] = NewGroup(f.call)]
  /\ ~group'[Child(w)].deleted /\ ~group'[Child(w)].execLoopDone
  /\ \A p, e : Holds(p, e)' <=> Holds(p, e)
  /\ \A v \in Nat : Active(v) <=> v < w
  /\ \A v \in Nat : v < w => Active(v)'
  /\ \A v \in Workers : Active(v)' => v = w \/ v < w
  /\ Active(w)'

\* A child of parallel is made, enqueued for its worker or run by the caller.
LEMMA PushChildIs ==
  ASSUME PoolInv, PushChild
  PROVE  \E w \in Workers : \E f \in FrameType : ChildPushed(w, f)
<1>0. 0 \in Threads
  BY DEF Threads
<1>1. stack[0] # <<>> /\ Top(0).pc = "children" /\ Top(0).role = "parent"
  BY <1>0, RoleOfPc DEF PushChild, At
<1>2. TopPlace(0) = <<0, 1>>
  BY <1>0, <1>1, TopIs DEF FrameOK
<1>3. PICK w \in Workers : Top(0).group = Child(w)
  BY <1>0, <1>1, TopIs DEF FrameOK
<1>4. Child(w) \in Groups /\ ~IsSliceTask(Child(w)) /\ Child(w)[1] = "child" /\ Child(w)[2] = w
  BY DEF Groups, Child, IsSliceTask
<1>5. Top(0).group[2] = w /\ w \in Threads \ {0} /\ w \in Nat
  BY <1>3, ThreadsAssumption DEF Child, Workers, Threads
<1> DEFINE f == IF w + 1 \in Workers THEN [Top(0) EXCEPT !.group = Child(w + 1)]
                ELSE [Top(0) EXCEPT !.pc = "spin"]
           c == Top(0).call
<1>6. /\ Set(0, f) /\ queue' = Enqueued(w, Child(w)) /\ pos' = pos /\ next' = next
      /\ ran' = ran /\ returned' = returned
  BY <1>5 DEF PushChild
<1>7. group' = [group EXCEPT ![Child(w)] = NewGroup(c)]
  BY <1>5 DEF PushChild
<1>8. w + 1 \in Workers => Child(w + 1) \in Groups
  BY DEF Groups
<1>9. /\ f \in FrameType /\ f.role = "parent" /\ f.pc \in {"children", "spin"} /\ f.call = c
      /\ w + 1 \in Workers => f.group = Child(w + 1) /\ f.group[2] = w + 1
      /\ w + 1 \notin Workers => f.group = Child(w) /\ f.pc = "spin"
  <2>1. Top(0) \in FrameType
    BY <1>0, <1>1, TopIs
  <2>2. CASE w + 1 \in Workers
    BY <1>1, <1>8, <2>1, <2>2 DEF FrameType, Child
  <2>3. CASE w + 1 \notin Workers
    BY <1>1, <1>3, <2>1, <2>3 DEF FrameType, Pcs
  <2>4. QED
    BY <2>2, <2>3
<1>10. c \in AnyCall /\ Top(0) \in FrameType
  BY <1>0, <1>1, TopIs
<1> HIDE DEF f, c
<1>11. /\ Stacks' /\ Places' = Places /\ frames' = [frames EXCEPT ![<<0, 1>>] = f]
       /\ <<0, 1>> \in Places /\ frames[<<0, 1>>] = Top(0) /\ DOMAIN frames = Places
  BY <1>0, <1>1, <1>2, <1>6, <1>9, SetFrames, TopIs DEF PoolInv, Types, frames
<1>12. /\ queue' \in [Threads \ {0} -> [Groups -> Nat]]
       /\ \A u \in Threads \ {0}, e \in Groups :
            queue'[u][e] = IF u = w /\ e = Child(w) THEN queue[u][e] + 1 ELSE queue[u][e]
  <2>1. queue \in [Threads \ {0} -> [Groups -> Nat]] /\ w \in Threads \ {0} /\ Child(w) \in Groups
    BY <1>4, <1>5 DEF PoolInv, Types
  <2>2. /\ Enqueued(w, Child(w)) \in [Threads \ {0} -> [Groups -> Nat]]
        /\ \A u \in Threads \ {0}, e \in Groups : Enqueued(w, Child(w))[u][e] =
             IF u = w /\ e = Child(w) THEN queue[u][e] + 1 ELSE queue[u][e]
    BY ONLY <2>1, EnqueuedIs
  <2>3. QED
    BY <1>6, <2>2
<1>13. /\ group' \in [Groups -> GroupType] /\ \A e \in Groups : e # Child(w) => group'[e] = group[e]
       /\ ~group'[Child(w)].deleted /\ ~group'[Child(w)].execLoopDone
  BY <1>4, <1>7, <1>10, NewTask DEF PoolInv, Types
<1>14. c = frames[<<0, 1>>].call
  BY <1>11 DEF c
<1>15. \A p, e : Holds(p, e)' <=> Holds(p, e)
  BY <1>1, <1>9, <1>11 DEF Holds
<1>16. /\ \A v \in Nat : Active(v) <=> v < w
       /\ \A v \in Nat : v < w => Active(v)'
       /\ Active(w)'
  BY <1>1, <1>5, <1>9, <1>11 DEF Active
<1>17. \A v \in Workers : Active(v)' => v = w \/ v < w
  <2>1. CASE w + 1 \in Workers
    <3>1. \A v \in Workers : Active(v)' => f.pc = "spin" \/ v < w + 1
      BY <1>9, <1>11, <2>1 DEF Active
    <3>2. f.pc = "children"
      BY <1>1, <2>1, TopIs, <1>0 DEF f, FrameType
    <3>3. QED
      BY <1>5, <3>1, <3>2 DEF Workers
  <2>2. CASE w + 1 \notin Workers
    BY <1>5, <2>2, ThreadsAssumption DEF Workers
  <2>3. QED
    BY <2>1, <2>2
<1>18. QED
  <2>1. frames[<<0, 1>>] \in FrameType /\ frames[<<0, 1>>].role = "parent" /\ frames[<<0, 1>>].pc = "children"
    BY <1>1, <1>10, <1>11
  <2>2. group' = [group EXCEPT ![Child(w)] = NewGroup(f.call)] /\ f.call = frames[<<0, 1>>].call
    BY <1>7, <1>9, <1>14
  <2>3. ChildPushed(w, f)
    BY ONLY <1>4, <1>5, <1>6, <1>9, <1>11, <1>12, <1>13, <1>15, <1>16, <1>17, <2>1, <2>2 DEF ChildPushed
  <2>4. QED
    BY <1>9, <2>3

LEMMA PushChildPool ==
  ASSUME PoolInv, PushChild PROVE PoolInv'
<1>1. PICK w \in Workers, f \in FrameType : ChildPushed(w, f)
  BY PushChildIs
<1>2. /\ Child(w) \in Groups /\ ~IsSliceTask(Child(w)) /\ Child(w)[1] = "child" /\ Child(w)[2] = w
      /\ w \in Nat /\ pos' = pos /\ next' = next
      /\ \A p, e : Holds(p, e)' <=> Holds(p, e)
      /\ \A u \in Threads \ {0}, e \in Groups :
           queue'[u][e] = IF u = w /\ e = Child(w) THEN queue[u][e] + 1 ELSE queue[u][e]
  BY <1>1 DEF ChildPushed
<1>3. \A p, e : Holds(p, e)' => Holds(p, e) /\ p \in Places
  BY <1>2 DEF Holds
<1>4. Types'
  BY <1>1 DEF ChildPushed, PoolInv, Types
<1>5. FramesInv'
  <2>1. SUFFICES ASSUME NEW p \in Places PROVE FrameOK(p)'
    BY <1>1 DEF FramesInv, ChildPushed
  <2>2. CASE p = <<0, 1>>
    <3>1. frames'[p] = f
      BY <1>1, <2>2 DEF ChildPushed
    <3>2. QED
      BY <1>1, <2>2, <3>1 DEF FrameOK, ChildPushed
  <2>3. CASE p # <<0, 1>>
    <3>1. FrameOK(p) /\ frames'[p] = frames[p]
      BY <1>1, <2>3 DEF PoolInv, FramesInv, ChildPushed
    <3>2. QED
      BY <3>1 DEF FrameOK
  <2>4. QED
    BY <2>2, <2>3
<1>6. \A e \in Groups : e = Child(w) => OneUser(e)' /\ Alive(e)'
  <2>1. SUFFICES ASSUME NEW e \in Groups, e = Child(w) PROVE OneUser(e)' /\ Alive(e)'
    OBVIOUS
  <2>2. OneUser(e) /\ ~InUse(e)
    BY <1>1, <1>2, <2>1 DEF PoolInv, TaskInv, Alive, ChildPushed
  <2>3. \A u \in Threads \ {0} : queue[u][e] = 0
    BY <2>2 DEF InUse, OneUser
  <2>4. \A p \in Places' : ~Holds(p, e)'
    BY <1>3, <2>2 DEF InUse
  <2>5. OneUser(e)'
    BY <1>2, <2>1, <2>3, <2>4 DEF OneUser
  <2>6. Alive(e)'
    BY <1>1, <1>2, <2>1 DEF Alive, ChildPushed
  <2>7. QED
    BY <2>5, <2>6
<1>7. \A e \in Groups : ~IsSliceTask(e) => OneUser(e)' /\ Alive(e)'
  <2>1. SUFFICES ASSUME NEW e \in Groups, ~IsSliceTask(e), e # Child(w) PROVE OneUser(e)' /\ Alive(e)'
    BY <1>6
  <2>2. OneUser(e) /\ Alive(e) /\ \A u \in Threads \ {0} : queue'[u][e] = queue[u][e]
    BY <1>2, <2>1 DEF PoolInv, TaskInv
  <2>3. OneUser(e)'
    BY <1>3, <2>2 DEF OneUser
  <2>4. InUse(e)' => InUse(e)
    BY <1>3, <2>2 DEF InUse
  <2>5. Alive(e)'
    <3>1. group'[e] = group[e] /\ \A v \in Nat : Active(v) => Active(v)'
      BY <1>1, <2>1 DEF ChildPushed
    <3>2. e[1] = "child" => e[2] \in Nat
      BY <2>1, GroupsAre, ThreadsAssumption DEF Workers
    <3>3. QED
      BY <1>2, <2>2, <2>4, <3>1, <3>2 DEF Alive
  <2>6. QED
    BY <2>3, <2>5
<1>8. QED
  BY <1>1, <1>4, <1>5, <1>7 DEF PoolInv, TaskInv, ChildPushed

LEMMA DoTaskPool ==
  ASSUME PoolInv, NEW t \in Threads, DoTask(t) PROVE PoolInv'
<1>1. PICK g \in Groups :
        /\ queue[t][g] > 0
        /\ queue' = [queue EXCEPT ![t][g] = @ - 1]
        /\ stack' = [stack EXCEPT ![t] =
             <<Frame("helper", IF g[1] = "async" THEN "run" ELSE "step", g, group[g].func)>> \o @]
  BY DEF DoTask
<1> DEFINE f == Frame("helper", IF g[1] = "async" THEN "run" ELSE "step", g, group[g].func)
<1>2. t \in Threads \ {0} /\ group' = group /\ pos' = pos /\ next' = next
  BY DEF DoTask
<1>3. f \in FrameType /\ f.role = "helper" /\ f.pc \in {"run", "step"} /\ f.group = g
  BY DEF PoolInv, Types, GroupType, FrameType, Frame, Roles, Pcs
<1> HIDE DEF f
<1>4. /\ Stacks' /\ Above(t) \notin Places /\ Places' = Places \cup {Above(t)}
      /\ frames'[Above(t)] = f /\ \A p \in Places : frames'[p] = frames[p]
  BY <1>1, <1>3, PushFrames DEF PoolInv, Types, f
<1>5. /\ queue' \in [Threads \ {0} -> [Groups -> Nat]]
      /\ \A u \in Threads \ {0}, e \in Groups :
           queue'[u][e] = IF u = t /\ e = g THEN queue[u][e] - 1 ELSE queue[u][e]
  <2>1. queue[t] \in [Groups -> Nat] /\ queue[t][g] - 1 \in Nat
    BY <1>1, <1>2 DEF PoolInv, Types
  <2>2. queue' = [queue EXCEPT ![t] = [queue[t] EXCEPT ![g] = queue[t][g] - 1]]
    BY <1>1
  <2>3. [queue[t] EXCEPT ![g] = queue[t][g] - 1] \in [Groups -> Nat]
    BY <2>1
  <2>4. QED
    BY <1>2, <2>1, <2>2, <2>3 DEF PoolInv, Types
<1>6. Types'
  BY <1>2, <1>4, <1>5 DEF PoolInv, Types
<1>7. FramesInv'
  BY <1>2, <1>3, <1>4 DEF PoolInv, FramesInv, FrameOK, HelperPcs, Above
<1>8. \A p, e : Holds(p, e)' <=> Holds(p, e) \/ (p = Above(t) /\ e = g)
  BY <1>3, <1>4 DEF Holds
<1>9. \A w : Active(w) => Active(w)'
  BY <1>4 DEF Active
<1>10. \A e \in Groups : ~IsSliceTask(e) => OneUser(e)' /\ Alive(e)'
  <2>1. SUFFICES ASSUME NEW e \in Groups, ~IsSliceTask(e) PROVE OneUser(e)' /\ Alive(e)'
    OBVIOUS
  <2>2. OneUser(e) /\ Alive(e)
    BY <2>1 DEF PoolInv, TaskInv
  <2>0. \A p : Holds(p, e) => p \in Places
    BY DEF Holds
  <2>3. CASE e = g
    <3>1. InUse(e) /\ \A u \in Threads \ {0} : queue'[u][e] = 0
      BY <1>1, <1>2, <1>5, <2>2, <2>3 DEF InUse, OneUser
    <3>2. \A p \in Places' : Holds(p, e)' <=> p = Above(t)
      BY <1>1, <1>2, <1>4, <1>8, <2>2, <2>3 DEF OneUser, Holds
    <3>3. OneUser(e)'
      BY <3>1, <3>2 DEF OneUser
    <3>4. QED
      BY <1>2, <1>9, <2>2, <3>1, <3>3 DEF Alive
  <2>4. CASE e # g
    <3>1. \A u \in Threads \ {0} : queue'[u][e] = queue[u][e]
      BY <1>5, <2>4
    <3>2. \A p : Holds(p, e)' => Holds(p, e) /\ p \in Places
      BY <1>8, <2>0, <2>4
    <3>3. OneUser(e)'
      BY <2>2, <3>1, <3>2 DEF OneUser
    <3>4. InUse(e)' => InUse(e)
      BY <3>1, <3>2 DEF InUse
    <3>5. QED
      BY <1>2, <1>9, <2>2, <3>3, <3>4 DEF Alive
  <2>5. QED
    BY <2>3, <2>4
<1>11. QED
  BY <1>2, <1>6, <1>7, <1>10 DEF PoolInv, TaskInv

\* The thread that ends a task is the only one to have it; afterwards nobody has.
LEMMA SelfDeletePool ==
  ASSUME PoolInv, NEW t \in Threads, SelfDelete(t) PROVE PoolInv'
<1>1. /\ stack[t] # <<>> /\ Top(t).role = "helper" /\ ~IsSliceTask(Top(t).group)
      /\ Pop(t) /\ queue' = queue /\ pos' = pos /\ next' = next
  BY RoleOfPc DEF SelfDelete, At
<1>2. PICK g \in Groups : g = Top(t).group
  BY <1>1, TopIs
<1> DEFINE r == [group[g] EXCEPT !.execLoopDone = TRUE, !.deleted = (g[1] = "async")]
<1>3. group' = [group EXCEPT ![g] = r]
  BY <1>2 DEF SelfDelete, PoolInv, Types, GroupType
<1>4. r \in GroupType
  <2> DEFINE q == [group[g] EXCEPT !.execLoopDone = TRUE]
             b == (g[1] = "async")
  <2>1. q \in GroupType
    BY DEF PoolInv, Types, GroupType
  <2>2. b \in BOOLEAN
    OBVIOUS
  <2>3. r = [q EXCEPT !.deleted = b]
    BY DEF PoolInv, Types, GroupType
  <2> HIDE DEF q, b, r
  <2>4. QED
    BY <2>1, <2>2, <2>3 DEF GroupType
<1> HIDE DEF r
<1>5. /\ Stacks' /\ Places' = Places \ {TopPlace(t)} /\ \A p \in Places' : frames'[p] = frames[p]
      /\ TopPlace(t) \in Places /\ frames[TopPlace(t)] = Top(t)
  BY <1>1, PopFrames, TopIs DEF PoolInv, Types
<1>6. group' \in [Groups -> GroupType] /\ \A e \in Groups : e # g => group'[e] = group[e]
  BY <1>3, <1>4 DEF PoolInv, Types
<1>7. Types'
  BY <1>1, <1>5, <1>6 DEF PoolInv, Types
<1>8. FramesInv'
  BY <1>5 DEF PoolInv, FramesInv, FrameOK
<1>9. \A p, e : Holds(p, e)' <=> Holds(p, e) /\ p # TopPlace(t)
  BY <1>5 DEF Holds
<1>10. \A w : Active(w) => Active(w)'
  BY <1>1, <1>5 DEF Active
<1>11. \A e \in Groups : ~IsSliceTask(e) => OneUser(e)' /\ Alive(e)'
  <2>1. SUFFICES ASSUME NEW e \in Groups, ~IsSliceTask(e) PROVE OneUser(e)' /\ Alive(e)'
    OBVIOUS
  <2>2. OneUser(e) /\ Alive(e)
    BY <2>1 DEF PoolInv, TaskInv
  <2>3. \A p : Holds(p, e)' => Holds(p, e) /\ p \in Places
    BY <1>9 DEF Holds
  <2>4. OneUser(e)'
    BY <1>1, <2>2, <2>3 DEF OneUser
  <2>5. CASE e = g
    <3>1. Holds(TopPlace(t), e)
      BY <1>1, <1>2, <1>5, <2>5 DEF Holds
    <3>2. ~InUse(e)'
      <4>1. \A u \in Threads \ {0} : ~(queue[u][e] > 0)
        BY <1>5, <2>2, <3>1 DEF OneUser
      <4>2. \A p \in Places' : ~Holds(p, e)'
        BY <1>5, <1>9, <2>2, <2>3, <3>1 DEF OneUser
      <4>3. QED
        BY <1>1, <4>1, <4>2 DEF InUse
    <3>3. QED
      BY <2>4, <3>2 DEF Alive
  <2>6. CASE e # g
    <3>1. InUse(e)' => InUse(e)
      BY <1>1, <2>3 DEF InUse
    <3>2. QED
      BY <1>1, <1>6, <1>10, <2>2, <2>4, <2>6, <3>1 DEF Alive
  <2>7. QED
    BY <2>5, <2>6
<1>12. QED
  BY <1>1, <1>2, <1>6, <1>7, <1>8, <1>11 DEF PoolInv, TaskInv

\* The children go when the loop of each is over.
LEMMA SpinPool ==
  ASSUME PoolInv, Spin PROVE PoolInv'
<1>0. 0 \in Threads
  BY DEF Threads
<1>1. /\ stack[0] # <<>> /\ Top(0).role = "parent" /\ Top(0).pc = "spin"
      /\ Pop(0) /\ queue' = queue /\ pos' = pos /\ next' = next
      /\ \A w \in Workers : group[Child(w)].execLoopDone
  BY <1>0, RoleOfPc DEF Spin, At, AllowDelete
<1>2. /\ Stacks' /\ Places' = Places \ {TopPlace(0)} /\ \A p \in Places' : frames'[p] = frames[p]
  BY <1>0, <1>1, PopFrames DEF PoolInv, Types
<1>3. group' = [g \in Groups |-> IF g[1] = "child" THEN [group[g] EXCEPT !.deleted = TRUE] ELSE group[g]]
  BY DEF Spin
<1>4. /\ group' \in [Groups -> GroupType]
      /\ \A g \in Groups : g[1] # "child" => group'[g] = group[g]
  <2>1. \A g \in Groups : [group[g] EXCEPT !.deleted = TRUE] \in GroupType /\ group[g] \in GroupType
    BY DEF PoolInv, Types, GroupType
  <2>2. QED
    BY <1>3, <2>1
<1>5. Types'
  BY <1>1, <1>2, <1>4 DEF PoolInv, Types
<1>6. FramesInv'
  BY <1>2 DEF PoolInv, FramesInv, FrameOK
<1>7. \A p, e : Holds(p, e)' => Holds(p, e) /\ p \in Places
  BY <1>2 DEF Holds
<1>8. \A e \in Groups : ~IsSliceTask(e) => OneUser(e)' /\ Alive(e)'
  <2>1. SUFFICES ASSUME NEW e \in Groups, ~IsSliceTask(e) PROVE OneUser(e)' /\ Alive(e)'
    OBVIOUS
  <2>2. OneUser(e) /\ Alive(e)
    BY <2>1 DEF PoolInv, TaskInv
  <2>3. OneUser(e)'
    BY <1>1, <1>7, <2>2 DEF OneUser
  <2>4. InUse(e)' => InUse(e)
    BY <1>1, <1>7 DEF InUse
  <2>5. CASE e[1] = "child"
    <3>1. group[e].execLoopDone
      BY <1>1, <2>1, <2>5, GroupsAre
    <3>2. QED
      BY <2>2, <2>3, <2>4, <3>1 DEF Alive
  <2>6. CASE e[1] # "child"
    BY <1>1, <1>4, <2>2, <2>3, <2>4, <2>6 DEF Alive
  <2>7. QED
    BY <2>5, <2>6
<1>9. \A e \in Groups : IsSliceTask(e) => ~group'[e].deleted
  BY <1>4, GroupsAre DEF PoolInv, TaskInv
<1>10. QED
  BY <1>5, <1>6, <1>8, <1>9 DEF PoolInv, TaskInv

-----------------------------------------------------------------------------
(* Every reachable state *)

\* The first state.
LEMMA InitPool ==
  Init => PoolInv
<1> SUFFICES ASSUME Init PROVE PoolInv
  OBVIOUS
<1>1. \A t \in Threads : stack[t] = <<>> /\ Len(stack[t]) = 0
  BY DEF Init
<1>2. Places = {}
  BY <1>1 DEF Places
<1>3. Len(Program) \in Nat \ {0} /\ <<1>> \in AnyCall
  BY ProgramAssumption, EmptySeq, LenProperties DEF AnyCall
<1>4. /\ [NewGroup(<<1>>) EXCEPT !.remaining = 0, !.to = 0, !.inTaskQueue = FALSE] \in GroupType
      /\ ~[NewGroup(<<1>>) EXCEPT !.remaining = 0, !.to = 0, !.inTaskQueue = FALSE].deleted
  <2> DEFINE r == NewGroup(<<1>>)
             q == [r EXCEPT !.remaining = 0, !.inTaskQueue = FALSE]
  <2>1. r \in GroupType /\ ~r.deleted
    BY <1>3, NewTask
  <2> HIDE DEF r
  <2>2. q \in GroupType /\ ~q.deleted
    BY <2>1, EmptyGroup
  <2>3. [r EXCEPT !.remaining = 0, !.to = 0, !.inTaskQueue = FALSE] = [q EXCEPT !.to = 0]
    BY <2>1 DEF GroupType
  <2> HIDE DEF q
  <2>4. [q EXCEPT !.to = 0] \in GroupType /\ ~[q EXCEPT !.to = 0].deleted
    BY <2>2 DEF GroupType
  <2>5. QED
    BY <2>3, <2>4 DEF r
<1>5. Types
  <2>1. group \in [Groups -> GroupType]
    BY <1>4 DEF Init
  <2>2. Stacks
    BY DEF Init, Stacks
  <2>3. QED
    BY <1>3, <2>1, <2>2 DEF Types, Init
<1>6. \A g \in Groups : ~group[g].deleted /\ ~InUse(g) /\ OneUser(g)
  <2>1. \A t \in Threads \ {0} : \A g \in Groups : queue[t][g] = 0
    BY DEF Init
  <2>2. \A g \in Groups : ~group[g].deleted
    BY <1>4 DEF Init
  <2>3. QED
    BY <1>2, <2>1, <2>2 DEF InUse, OneUser
<1>7. QED
  BY <1>2, <1>5, <1>6 DEF PoolInv, FramesInv, TaskInv, Alive

\* Every step keeps the invariant: the lemmas above, one by one.
LEMMA NextPool ==
  PoolInv /\ [Next]_vars => PoolInv'
<1> SUFFICES ASSUME PoolInv, [Next]_vars PROVE PoolInv'
  OBVIOUS
<1>1. CASE Main
  BY <1>1, ForMTPool, ParallelPool, EnqueuePool, PushedPool, PushChildPool, SpinPool DEF Main
<1>2. ASSUME NEW t \in Threads, Thread(t) PROVE PoolInv'
  BY <1>2, NestedPool, CountPool, ZeroPool, FuncPool, PushTaskGroupPool, StepPool, RunPool, DonePool,
     EndOfSlicePool, EndOfTaskPool, SelfDeletePool, DoTaskPool, DrainedPool, WaitPool DEF Thread
<1>3. CASE UNCHANGED vars
  <2>1. group' = group /\ queue' = queue /\ pos' = pos /\ stack' = stack /\ next' = next
    BY <1>3 DEF vars
  <2>2. Places' = Places
    BY <2>1 DEF Places
  <2>3. frames' = frames
    BY <2>1, <2>2 DEF frames
  <2>4. Types'
    BY <2>1 DEF PoolInv, Types, Stacks
  <2>5. FramesInv'
    BY <2>2, <2>3 DEF PoolInv, FramesInv, FrameOK
  <2>6. (\A p, g : Holds(p, g)' <=> Holds(p, g)) /\ (\A w : Active(w)' <=> Active(w))
    BY <2>2, <2>3 DEF Holds, Active
  <2>7. \A g : (InUse(g)' <=> InUse(g)) /\ (OneUser(g)' <=> OneUser(g))
    BY <2>1, <2>2, <2>6 DEF InUse, OneUser
  <2>8. TaskInv'
    BY <2>1, <2>6, <2>7 DEF PoolInv, TaskInv, Alive
  <2>9. QED
    BY <2>4, <2>5, <2>8 DEF PoolInv
<1>4. QED
  BY <1>1, <1>2, <1>3 DEF Next

\* The types of the pool's state, which frames the threads have, and who may use
\* a child of parallel or an asynchronous task.
THEOREM Invariance == Spec => []PoolInv
<1>1. QED
  BY InitPool, NextPool, PTL DEF Spec

\* A task is deleted only when no worker is in its ExecuteLoop and no queue has it,
\* for any number of threads, any program and however often groups of the pools
\* are handed out again.  Nothing is said of the thread that enqueues the task,
\* which may use it afterwards (ThreadPool.cpp:328).
THEOREM NoWorkerHasDeleted == Spec => []NoWorkerUsesDeleted
<1>1. PoolInv => NoWorkerUsesDeleted
  <2> SUFFICES ASSUME PoolInv, NEW g \in Groups, group[g].deleted
               PROVE  /\ \A t \in Threads \ {0} : queue[t][g] = 0
                      /\ \A t \in Threads : \A n \in 1..Len(stack[t]) :
                           stack[t][n].group = g => stack[t][n].role # "helper"
    BY DEF NoWorkerUsesDeleted
  <2>1. ~InUse(g)
    BY DEF PoolInv, TaskInv, Alive
  <2>2. \A t \in Threads \ {0} : queue[t][g] = 0
    BY <2>1 DEF InUse, PoolInv, Types
  <2>3. ASSUME NEW t \in Threads, NEW n \in 1..Len(stack[t]), stack[t][n].group = g
        PROVE  stack[t][n].role # "helper"
    <3>1. stack[t] \in Seq(FrameType)
      BY DEF PoolInv, Types, Stacks
    <3>2. /\ Len(stack[t]) + 1 - n \in 1..Len(stack[t])
          /\ Len(stack[t]) + 1 - (Len(stack[t]) + 1 - n) = n
      BY <3>1, LenProperties
    <3>3. /\ <<t, Len(stack[t]) + 1 - n>> \in Places
          /\ frames[<<t, Len(stack[t]) + 1 - n>>] = stack[t][n]
      BY <3>2 DEF Places, frames
    <3>4. QED
      BY <2>1, <2>3, <3>3 DEF InUse, Holds
  <2>4. QED
    BY <2>2, <2>3
<1>2. QED
  BY <1>1, Invariance, PTL

-----------------------------------------------------------------------------
(* The loops *)

\* A group of a pool is handed out again after PoolSize loops, whether or not a
\* thread that was late still has it ("more than 256 nested for_mt's or parallel's
\* should be uncommon", ThreadPool.h:646).  What follows holds as long as none has.
Referenced(g) ==
  \/ \E t \in Threads \ {0} : queue[t][g] > 0
  \/ \E p \in Places : frames[p].group = g
SafeStep == \A b \in {"outer", "inner"} : pos'[b] # pos[b] => ~Referenced(<<b, pos[b] % PoolSize>>)
ReuseIsSafe == [][SafeStep]_vars

Caller(p) == p \in Places /\ frames[p].role # "helper"
Owns(p, g) == p \in Places /\ frames[p].role = "owner" /\ frames[p].group = g
Preparing == {"count", "zero", "func"}

\* a loop has its owner, who has described it
Open(g) == \E p \in Places : Owns(p, g) /\ frames[p].pc \notin Preparing

\* a thread that has claimed an item and not yet counted it
Works(p, g) ==
  /\ p \in Places /\ frames[p].role \in {"owner", "helper"} /\ frames[p].group = g
  /\ frames[p].pc \in {"run", "inner", "done"}
Claims(p, g, i) == Works(p, g) /\ frames[p].work[2] = i
Unrun(g, i) == \E p \in Places : Claims(p, g, i) /\ frames[p].pc = "run"

\* items of a loop that are not yet counted
Pending(g) == {i \in 0..(group[g].to - 1) : i >= group[g].ctr \/ \E p \in Places : Claims(p, g, i)}

\* a call that is still to be made, by the main thread or from within an iteration
Unstarted(c) ==
  \/ c[1] >= next
  \/ /\ Len(c) = 2
     /\ \/ ran[<<c[1]>>][c[2]] = 0
        \/ \E p \in Places : frames[p].pc = "inner" /\ frames[p].work = <<<<c[1]>>, c[2]>>

KindOf == [r \in Roles |-> IF r = "owner" THEN "for" ELSE IF r = "parent" THEN "parallel" ELSE "async"]

RanType == DOMAIN ran = Calls /\ \A c \in Calls : ran[c] \in [Items[c] -> {0, 1}]

CallersInv ==
  /\ \A p \in Places : Caller(p) =>
       /\ frames[p].call \in Calls \ returned /\ ~Unstarted(frames[p].call)
       /\ Kind(frames[p].call) = KindOf[frames[p].role]
  /\ \A p, q \in Places : Caller(p) /\ Caller(q) /\ frames[p].call = frames[q].call => p = q
  /\ \A c \in Calls : Unstarted(c) => c \notin returned /\ \A i \in Items[c] : ran[c][i] = 0

OwnerInv(p) ==
  LET g == frames[p].group
      c == frames[p].call
  IN  /\ \A q \in Places : Owns(q, g) => q = p
      /\ frames[p].pc \in Preparing =>
           /\ \A t \in Threads \ {0} : queue[t][g] = 0
           /\ \A q \in Places : ~Holds(q, g)
           /\ \A i \in Items[c] : ran[c][i] = 0
           /\ frames[p].pc # "count" => group[g].remaining = Size(c)
           /\ frames[p].pc = "func" => group[g].ctr = 0
      /\ frames[p].pc \notin Preparing =>
           /\ group[g].func = c /\ group[g].to = Size(c)
           /\ group[g].remaining = Cardinality(Pending(g))
           /\ \A i \in Items[c] : ran[c][i] = IF i >= group[g].ctr \/ Unrun(g, i) THEN 0 ELSE 1

SliceInv(g) ==
  /\ (\E t \in Threads \ {0} : queue[t][g] > 0) \/ (\E p \in Places : Holds(p, g)) =>
       Open(g) \/ group[g].ctr >= group[g].to
  /\ \A p \in Places : Works(p, g) =>
       /\ Open(g) /\ frames[p].work[2] < group[g].ctr /\ frames[p].work[2] < group[g].to
       /\ frames[p].pc # "run" => frames[p].work[1] = group[g].func
       /\ frames[p].pc = "inner" => HasNested(group[g].func)
  /\ \A p, q \in Places : Works(p, g) /\ Works(q, g) /\ frames[p].work[2] = frames[q].work[2] => p = q

\* parallel: each child runs its worker's part once
ChildInv(w) ==
  LET g == Child(w)
      c == frames[<<0, 1>>].call
      busy(pcs) == \E p \in Places : Holds(p, g) /\ frames[p].pc \in pcs
  IN  <<0, 1>> \in Places /\ frames[<<0, 1>>].role = "parent" =>
        IF Active(w)
        THEN /\ group[g].func = c /\ group[g].to = 1
             /\ group[g].remaining = IF group[g].ctr = 0 \/ busy({"run", "done"}) THEN 1 ELSE 0
             /\ ran[c][w] = IF group[g].ctr = 0 \/ busy({"run"}) THEN 0 ELSE 1
             /\ busy({"run", "done"}) => group[g].ctr > 0
             /\ \A t \in Threads \ {0} : queue[t][g] > 0 => group[g].ctr = 0
        ELSE ran[c][w] = 0

AsyncInv(k) ==
  LET g == Async(k)
  IN  /\ InUse(g) => group[g].func = <<k>> /\ Kind(<<k>>) = "async"
      /\ \A t \in Threads \ {0} : queue[t][g] > 0 => ran[<<k>>][0] = 0
      /\ \A p \in Places : Holds(p, g) =>
           /\ frames[p].pc # "step"
           /\ frames[p].pc = "run" => ran[<<k>>][0] = 0 /\ frames[p].work[2] = 0

LoopInv ==
  /\ RanType /\ CallersInv
  /\ \A p \in Places : frames[p].role = "owner" => OwnerInv(p)
  /\ \A g \in Groups : IsSliceTask(g) => SliceInv(g)
  /\ \A p \in Places : frames[p].pc = "inner" => IsSliceTask(frames[p].group)
  /\ \A w \in Workers : ChildInv(w)
  /\ \A k \in 1..Len(Program) : AsyncInv(k)

PoolLoopInv == PoolInv /\ LoopInv

\* A step changes the frame at one place, of group g; another frame may go on from
\* "inner" to "done".
Changes(x, g) ==
  /\ \A p : p # x => (p \in Places' <=> p \in Places)
  /\ \A p \in Places : p # x =>
       \/ frames'[p] = frames[p]
       \/ frames[p].pc = "inner" /\ frames'[p] = [frames[p] EXCEPT !.pc = "done"]
  /\ x \in Places /\ frames[x].role \in {"owner", "helper"} => frames[x].group = g
  /\ x \in Places' /\ frames'[x].role \in {"owner", "helper"} => frames'[x].group = g

\* What a frame of another group is, before and after.
LEMMA OtherFrames ==
  ASSUME PoolInv, Stacks', NEW x, NEW g, Changes(x, g), NEW e \in Groups, e # g
  PROVE  /\ \A p : Holds(p, e)' <=> Holds(p, e)
         /\ \A p : Owns(p, e)' <=> Owns(p, e)
         /\ \A p : Works(p, e)' <=> Works(p, e)
         /\ \A p : Holds(p, e) \/ Owns(p, e) \/ Works(p, e) =>
              /\ p \in Places /\ p \in Places' /\ frames'[p].role = frames[p].role
              /\ frames'[p].call = frames[p].call /\ frames'[p].work = frames[p].work
              /\ frames'[p].group = frames[p].group /\ frames[p].group = e
              /\ \/ frames'[p].pc = frames[p].pc
                 \/ frames[p].pc = "inner" /\ frames'[p].pc = "done"
         /\ \A p, i : Claims(p, e, i)' <=> Claims(p, e, i)
<1>1. \A p : (Holds(p, e) \/ Owns(p, e) \/ Works(p, e)) => p \in Places /\ p # x
  BY DEF Changes, Holds, Owns, Works
<1>2. \A p : (Holds(p, e)' \/ Owns(p, e)' \/ Works(p, e)') => p \in Places' /\ p # x
  BY DEF Changes, Holds, Owns, Works
<1>3. \A p \in Places : p # x =>
        /\ p \in Places' /\ frames'[p].role = frames[p].role
        /\ frames'[p].call = frames[p].call /\ frames'[p].work = frames[p].work
        /\ frames'[p].group = frames[p].group
        /\ \/ frames'[p].pc = frames[p].pc
           \/ frames[p].pc = "inner" /\ frames'[p].pc = "done"
  <2>1. SUFFICES ASSUME NEW p \in Places, p # x
                 PROVE  /\ p \in Places' /\ frames'[p].role = frames[p].role
                        /\ frames'[p].call = frames[p].call /\ frames'[p].work = frames[p].work
                        /\ frames'[p].group = frames[p].group
                        /\ \/ frames'[p].pc = frames[p].pc
                           \/ frames[p].pc = "inner" /\ frames'[p].pc = "done"
    OBVIOUS
  <2>2. frames[p] \in FrameType
    BY FramesTyped DEF PoolInv, Types
  <2>3. QED
    BY <2>1, <2>2 DEF Changes, FrameType
<1>4. \A p : p # x => (p \in Places' <=> p \in Places)
  BY DEF Changes
<1>5. \A p : Holds(p, e)' <=> Holds(p, e)
  BY <1>1, <1>2, <1>3, <1>4 DEF Holds
<1>6. \A p : Owns(p, e)' <=> Owns(p, e)
  BY <1>1, <1>2, <1>3, <1>4 DEF Owns
<1>7. \A p : Works(p, e)' <=> Works(p, e)
  BY <1>1, <1>2, <1>3, <1>4 DEF Works
<1>8. \A p : Holds(p, e) \/ Owns(p, e) \/ Works(p, e) => frames[p].group = e
  BY DEF Holds, Owns, Works
<1>9. \A p, i : Claims(p, e, i)' <=> Claims(p, e, i)
  BY <1>1, <1>3, <1>7 DEF Claims
<1>10. QED
  BY <1>1, <1>3, <1>5, <1>6, <1>7, <1>8, <1>9

\* Loops of other groups go on as they were.
LEMMA OtherLoops ==
  ASSUME PoolLoopInv, Stacks', NEW x, NEW g, Changes(x, g),
         \A e \in Groups : e # g /\ IsSliceTask(e) =>
           group'[e] = group[e] /\ \A u \in Threads \ {0} : queue'[u][e] = queue[u][e],
         \A p \in Places : frames[p].role = "owner" /\ frames[p].group # g =>
           ran'[frames[p].call] = ran[frames[p].call]
  PROVE  \A e \in Groups : e # g /\ IsSliceTask(e) =>
           SliceInv(e)' /\ \A p \in Places' : Owns(p, e)' => OwnerInv(p)'
<1>1. SUFFICES ASSUME NEW e \in Groups, e # g, IsSliceTask(e)
               PROVE  SliceInv(e)' /\ \A p \in Places' : Owns(p, e)' => OwnerInv(p)'
  OBVIOUS
<1>2. /\ \A p : Holds(p, e)' <=> Holds(p, e)
      /\ \A p : Owns(p, e)' <=> Owns(p, e)
      /\ \A p : Works(p, e)' <=> Works(p, e)
      /\ \A p : Holds(p, e) \/ Owns(p, e) \/ Works(p, e) =>
           /\ p \in Places /\ p \in Places' /\ frames'[p].role = frames[p].role
           /\ frames'[p].call = frames[p].call /\ frames'[p].work = frames[p].work
           /\ frames'[p].group = frames[p].group /\ frames[p].group = e
           /\ \/ frames'[p].pc = frames[p].pc
              \/ frames[p].pc = "inner" /\ frames'[p].pc = "done"
      /\ \A p, i : Claims(p, e, i)' <=> Claims(p, e, i)
  BY <1>1, OtherFrames DEF PoolLoopInv
<1>3. group'[e] = group[e] /\ \A u \in Threads \ {0} : queue'[u][e] = queue[u][e]
  BY <1>1
<1>4. SliceInv(e)
  BY <1>1 DEF PoolLoopInv, LoopInv
<1>5. \A p : Owns(p, e) => OwnerInv(p)
  BY DEF PoolLoopInv, LoopInv, Owns
<1>6. Open(e)' <=> Open(e)
  BY <1>2 DEF Open, Preparing, Owns
<1>7. \A i : Unrun(e, i)' <=> Unrun(e, i)
  BY <1>2 DEF Unrun, Claims
<1>8. Pending(e)' = Pending(e)
  <2>1. \A i : (\E p \in Places' : Claims(p, e, i)') <=> (\E p \in Places : Claims(p, e, i))
    BY <1>2 DEF Claims
  <2>2. QED
    BY <1>3, <2>1 DEF Pending
<1>9. SliceInv(e)'
  <2>1. (\E t \in Threads \ {0} : queue'[t][e] > 0) \/ (\E p \in Places' : Holds(p, e)') =>
          Open(e)' \/ group'[e].ctr >= group'[e].to
    BY <1>2, <1>3, <1>4, <1>6 DEF SliceInv
  <2>2. ASSUME NEW p \in Places', Works(p, e)'
        PROVE  /\ Open(e)' /\ frames'[p].work[2] < group'[e].ctr /\ frames'[p].work[2] < group'[e].to
               /\ frames'[p].pc # "run" => frames'[p].work[1] = group'[e].func
               /\ frames'[p].pc = "inner" => HasNested(group'[e].func)
    BY <1>2, <1>3, <1>4, <1>6, <2>2 DEF SliceInv
  <2>3. ASSUME NEW p \in Places', NEW q \in Places', Works(p, e)', Works(q, e)',
               frames'[p].work[2] = frames'[q].work[2]
        PROVE  p = q
    BY <1>2, <1>4, <2>3 DEF SliceInv
  <2>4. QED
    BY <2>1, <2>2, <2>3 DEF SliceInv
<1>10. ASSUME NEW p \in Places', Owns(p, e)' PROVE OwnerInv(p)'
  <2>1. /\ Owns(p, e) /\ OwnerInv(p) /\ frames[p].group = e /\ frames'[p].group = e
        /\ frames'[p].call = frames[p].call /\ frames[p].role = "owner" /\ p \in Places
    BY <1>2, <1>5, <1>10 DEF Owns
  <2>2. ran'[frames[p].call] = ran[frames[p].call]
    BY <1>1, <2>1
  <2>3. frames'[p].pc \in Preparing <=> frames[p].pc \in Preparing
    BY <1>2, <2>1 DEF Preparing
  <2>4. frames[p].pc \in Preparing => frames'[p].pc = frames[p].pc
    BY <1>2, <2>1 DEF Preparing
  <2>5. \A q \in Places' : Owns(q, e)' => q = p
    BY <1>2, <2>1 DEF OwnerInv
  <2>6. frames'[p].pc \in Preparing =>
           /\ \A t \in Threads \ {0} : queue'[t][e] = 0
           /\ \A q \in Places' : ~Holds(q, e)'
           /\ \A i \in Items[frames[p].call] : ran'[frames[p].call][i] = 0
           /\ frames'[p].pc # "count" => group'[e].remaining = Size(frames[p].call)
           /\ frames'[p].pc = "func" => group'[e].ctr = 0
    BY <1>2, <1>3, <2>1, <2>2, <2>3, <2>4 DEF OwnerInv
  <2>7. frames'[p].pc \notin Preparing =>
           /\ group'[e].func = frames[p].call /\ group'[e].to = Size(frames[p].call)
           /\ group'[e].remaining = Cardinality(Pending(e)')
           /\ \A i \in Items[frames[p].call] :
                ran'[frames[p].call][i] = IF i >= group'[e].ctr \/ Unrun(e, i)' THEN 0 ELSE 1
    BY <1>3, <1>7, <1>8, <2>1, <2>2, <2>3 DEF OwnerInv
  <2>8. QED
    BY <2>1, <2>5, <2>6, <2>7 DEF OwnerInv
<1>11. QED
  BY <1>9, <1>10

\* The groups of the tasks are groups, apart from those of the loops.
LEMMA TaskGroups ==
  /\ \A w \in Workers : Child(w) \in Groups /\ ~IsSliceTask(Child(w)) /\ Child(w)[1] = "child" /\ Child(w)[2] = w
  /\ \A k \in 1..Len(Program) :
       Async(k) \in Groups /\ ~IsSliceTask(Async(k)) /\ Async(k)[1] = "async" /\ Async(k)[2] = k
BY DEF Groups, Child, Async, IsSliceTask

\* Tasks and children of parallel that a step of a call or a helper does not touch.
LEMMA OtherTasks ==
  ASSUME PoolLoopInv, Stacks', NEW x, NEW g, Changes(x, g),
         x \in Places => frames[x].role \in {"owner", "helper"},
         x \in Places' => frames'[x].role \in {"owner", "helper"},
         \A e \in Groups : e # g /\ ~IsSliceTask(e) =>
           group'[e] = group[e] /\ \A u \in Threads \ {0} : queue'[u][e] = queue[u][e],
         \A w \in Workers : Child(w) # g /\ <<0, 1>> \in Places /\ frames[<<0, 1>>].role = "parent" =>
           ran'[frames[<<0, 1>>].call][w] = ran[frames[<<0, 1>>].call][w],
         \A k \in 1..Len(Program) : Async(k) # g /\ InUse(Async(k)) => ran'[<<k>>] = ran[<<k>>]
  PROVE  /\ \A w \in Workers : Child(w) # g => ChildInv(w)'
         /\ \A k \in 1..Len(Program) : Async(k) # g => AsyncInv(k)'
<1>1. \A e \in Groups : e # g /\ ~IsSliceTask(e) =>
        \A p : /\ Holds(p, e)' <=> Holds(p, e)
               /\ Holds(p, e) => /\ p \in Places /\ p \in Places' /\ frames'[p].pc = frames[p].pc
                                 /\ frames'[p].work = frames[p].work
  <2>1. SUFFICES ASSUME NEW e \in Groups, e # g, ~IsSliceTask(e), NEW p
                 PROVE  /\ Holds(p, e)' <=> Holds(p, e)
                        /\ Holds(p, e) => /\ p \in Places /\ p \in Places' /\ frames'[p].pc = frames[p].pc
                                          /\ frames'[p].work = frames[p].work
    OBVIOUS
  <2>2. /\ Holds(p, e)' <=> Holds(p, e)
        /\ Holds(p, e) =>
              /\ p \in Places /\ p \in Places' /\ frames'[p].work = frames[p].work /\ frames[p].group = e
              /\ \/ frames'[p].pc = frames[p].pc
                 \/ frames[p].pc = "inner" /\ frames'[p].pc = "done"
    BY <2>1, OtherFrames DEF PoolLoopInv
  <2>3. \A q \in Places : frames[q].pc = "inner" => IsSliceTask(frames[q].group)
    BY DEF PoolLoopInv, LoopInv
  <2>4. QED
    BY <2>1, <2>2, <2>3
<1>2. ASSUME NEW w \in Workers, Child(w) # g PROVE ChildInv(w)'
  <2>1. PICK e \in Groups : e = Child(w) /\ ~IsSliceTask(e)
    BY TaskGroups
  <2>2. /\ <<0, 1>> \in Places' /\ frames'[<<0, 1>>].role = "parent" =>
             <<0, 1>> \in Places /\ frames[<<0, 1>>].role = "parent"
        /\ <<0, 1>> \in Places /\ frames[<<0, 1>>].role = "parent" => frames'[<<0, 1>>] = frames[<<0, 1>>]
    <3> DEFINE m == <<0, 1>>
    <3>1. CASE m = x
      BY <3>1
    <3>2. CASE m # x
      <4>1. m \in Places' <=> m \in Places
        BY <3>2 DEF Changes
      <4>2. m \in Places => \/ frames'[m] = frames[m]
                            \/ frames[m].pc = "inner" /\ frames'[m] = [frames[m] EXCEPT !.pc = "done"]
        BY <3>2 DEF Changes
      <4>3. m \in Places => frames[m] \in FrameType /\ FrameOK(m)
        BY FramesTyped DEF PoolLoopInv, PoolInv, Types, FramesInv
      <4>4. QED
        BY <4>1, <4>2, <4>3 DEF FrameOK, FrameType
    <3>3. QED
      BY <3>1, <3>2
  <2>3. SUFFICES ASSUME <<0, 1>> \in Places', frames'[<<0, 1>>].role = "parent" PROVE ChildInv(w)'
    BY DEF ChildInv
  <2>4. frames'[<<0, 1>>] = frames[<<0, 1>>] /\ <<0, 1>> \in Places /\ frames[<<0, 1>>].role = "parent"
    BY <2>2, <2>3
  <2>5. Active(w)' <=> Active(w)
    BY <2>3, <2>4 DEF Active
  <2>6. \A p : /\ Holds(p, e)' <=> Holds(p, e)
               /\ Holds(p, e) => p \in Places /\ p \in Places' /\ frames'[p].pc = frames[p].pc
    BY <1>1, <1>2, <2>1
  <2>7. \A pcs : (\E p \in Places' : Holds(p, e)' /\ frames'[p].pc \in pcs) <=>
                (\E p \in Places : Holds(p, e) /\ frames[p].pc \in pcs)
    <3>1. SUFFICES ASSUME NEW pcs
                   PROVE  (\E p \in Places' : Holds(p, e)' /\ frames'[p].pc \in pcs) <=>
                          (\E p \in Places : Holds(p, e) /\ frames[p].pc \in pcs)
      OBVIOUS
    <3>2. \A p : (p \in Places' /\ Holds(p, e)' /\ frames'[p].pc \in pcs) <=>
                (p \in Places /\ Holds(p, e) /\ frames[p].pc \in pcs)
      BY <2>6
    <3>3. QED
      BY <3>2
  <2>8. group'[e] = group[e] /\ \A u \in Threads \ {0} : queue'[u][e] = queue[u][e]
    BY <1>2, <2>1
  <2>9. ran'[frames[<<0, 1>>].call][w] = ran[frames[<<0, 1>>].call][w]
    BY <1>2, <2>4
  <2>10. ChildInv(w)
    BY DEF PoolLoopInv, LoopInv
  <2>11. QED
    BY <2>1, <2>4, <2>5, <2>7, <2>8, <2>9, <2>10 DEF ChildInv
<1>3. ASSUME NEW k \in 1..Len(Program), Async(k) # g PROVE AsyncInv(k)'
  <2>1. PICK e \in Groups : e = Async(k) /\ ~IsSliceTask(e)
    BY TaskGroups
  <2>2. \A p : /\ Holds(p, e)' <=> Holds(p, e)
               /\ Holds(p, e) => /\ p \in Places /\ p \in Places' /\ frames'[p].pc = frames[p].pc
                                 /\ frames'[p].work = frames[p].work
    BY <1>1, <1>3, <2>1
  <2>3. group'[e] = group[e] /\ \A u \in Threads \ {0} : queue'[u][e] = queue[u][e]
    BY <1>3, <2>1
  <2>11. \A p : Holds(p, e)' => Holds(p, e) /\ p \in Places
    BY <2>2
  <2>4. InUse(e)' => InUse(e)
    BY <2>3, <2>11 DEF InUse
  <2>5. InUse(e) => ran'[<<k>>] = ran[<<k>>]
    BY <1>3, <2>1
  <2>6. AsyncInv(k)
    BY DEF PoolLoopInv, LoopInv
  <2>7. InUse(e)' => group'[e].func = <<k>> /\ Kind(<<k>>) = "async"
    BY <2>1, <2>3, <2>4, <2>6 DEF AsyncInv
  <2>8. \A t \in Threads \ {0} : queue'[t][e] > 0 => ran'[<<k>>][0] = 0
    BY <2>1, <2>3, <2>5, <2>6 DEF AsyncInv, InUse
  <2>9. \A p \in Places' : Holds(p, e)' =>
           /\ frames'[p].pc # "step"
           /\ frames'[p].pc = "run" => ran'[<<k>>][0] = 0 /\ frames'[p].work[2] = 0
    <3>1. ASSUME NEW p, Holds(p, e)
          PROVE  /\ frames'[p].pc # "step"
                 /\ frames'[p].pc = "run" => ran'[<<k>>][0] = 0 /\ frames'[p].work[2] = 0
      <4>1. InUse(e) /\ p \in Places /\ frames'[p].pc = frames[p].pc /\ frames'[p].work = frames[p].work
        BY <2>2, <3>1 DEF InUse
      <4>2. frames[p].pc # "step" /\ (frames[p].pc = "run" => ran[<<k>>][0] = 0 /\ frames[p].work[2] = 0)
        BY <2>1, <2>6, <3>1, <4>1 DEF AsyncInv
      <4>3. QED
        BY <2>5, <4>1, <4>2
    <3>2. QED
      BY <2>11, <3>1
  <2>10. QED
    BY <2>1, <2>7, <2>8, <2>9 DEF AsyncInv
<1>4. QED
  BY <1>2, <1>3

\* The callers stay where they are.
LEMMA SameCallers ==
  ASSUME PoolLoopInv, Stacks', NEW x, NEW g, Changes(x, g),
         ran' = ran, next' = next, returned' = returned,
         \A p \in Places : p # x => frames'[p] = frames[p],
         x \in Places /\ frames[x].role # "helper" =>
           x \in Places' /\ frames'[x].role = frames[x].role /\ frames'[x].call = frames[x].call,
         x \in Places' /\ frames'[x].role # "helper" => x \in Places /\ frames[x].role # "helper",
         x \in Places => frames[x].pc # "inner",
         x \in Places' => frames'[x].pc # "inner"
  PROVE  /\ RanType' /\ CallersInv'
         /\ \A p \in Places' : frames'[p].pc = "inner" => IsSliceTask(frames'[p].group)
<1>1. /\ \A p : p # x => (p \in Places' <=> p \in Places)
      /\ RanType /\ CallersInv
      /\ \A p \in Places : frames[p].pc = "inner" => IsSliceTask(frames[p].group)
  BY DEF Changes, PoolLoopInv, LoopInv
<1>2. \A p \in Places' : frames'[p].pc = "inner" => p \in Places /\ frames'[p] = frames[p]
  BY <1>1
<1>3. \A p \in Places : frames[p].pc = "inner" => p \in Places' /\ frames'[p] = frames[p]
  BY <1>1
<1>4. \A c : Unstarted(c)' <=> Unstarted(c)
  <2>1. SUFFICES ASSUME NEW c PROVE Unstarted(c)' <=> Unstarted(c)
    OBVIOUS
  <2>2. (\E p \in Places' : frames'[p].pc = "inner" /\ frames'[p].work = <<<<c[1]>>, c[2]>>) <=>
        (\E p \in Places : frames[p].pc = "inner" /\ frames[p].work = <<<<c[1]>>, c[2]>>)
    BY <1>2, <1>3
  <2>3. QED
    BY <2>2 DEF Unstarted
<1>5. \A p : Caller(p)' =>
        Caller(p) /\ p \in Places /\ frames'[p].role = frames[p].role /\ frames'[p].call = frames[p].call
  BY <1>1 DEF Caller
<1>6. CallersInv'
  <2>1. ASSUME NEW p \in Places', Caller(p)'
        PROVE  (/\ frames[p].call \in Calls \ returned /\ ~Unstarted(frames[p].call)
                /\ Kind(frames[p].call) = KindOf[frames[p].role])'
    <3>1. PICK c \in Calls : c = frames[p].call
      BY <1>1, <1>5, <2>1 DEF CallersInv
    <3>2. /\ frames'[p].call = c /\ frames'[p].role = frames[p].role /\ ~Unstarted(c)
          /\ c \notin returned /\ Kind(c) = KindOf[frames[p].role]
      BY <1>1, <1>5, <2>1, <3>1 DEF CallersInv
    <3>3. ~Unstarted(c)'
      BY <1>4, <3>2
    <3>4. ~Unstarted(frames[p].call)'
      BY <3>2, <3>3 DEF Unstarted
    <3>5. QED
      BY <3>2, <3>4
  <2>2. \A p, q \in Places' : Caller(p)' /\ Caller(q)' /\ frames'[p].call = frames'[q].call => p = q
    BY <1>1, <1>5 DEF CallersInv
  <2>3. \A c \in Calls : Unstarted(c)' => c \notin returned' /\ \A i \in Items[c] : ran'[c][i] = 0
    BY <1>1, <1>4 DEF CallersInv
  <2>4. QED
    BY <2>1, <2>2, <2>3 DEF CallersInv
<1>7. QED
  BY <1>1, <1>2, <1>6 DEF RanType

LoopOK(g) == SliceInv(g) /\ \A p \in Places : Owns(p, g) => OwnerInv(p)
InnerInv == \A p \in Places : frames[p].pc = "inner" => IsSliceTask(frames[p].group)
TasksOK == (\A w \in Workers : ChildInv(w)) /\ (\A k \in 1..Len(Program) : AsyncInv(k))

\* The same in the next state, from what is left to show of the group g.
LEMMA AllLoops ==
  ASSUME PoolInv', NEW g, RanType', CallersInv', InnerInv', TasksOK',
         \A e \in Groups : e # g /\ IsSliceTask(e) => LoopOK(e)',
         g \in Groups /\ IsSliceTask(g) => LoopOK(g)'
  PROVE  LoopInv'
<1>1. \A e \in Groups : IsSliceTask(e) => LoopOK(e)'
  OBVIOUS
<1>2. \A p \in Places' : frames'[p].role = "owner" => frames'[p].group \in Groups /\ IsSliceTask(frames'[p].group)
  <2>1. Stacks' /\ FramesInv'
    BY DEF PoolInv, Types
  <2>4. (Stacks => \A p \in Places : frames[p] \in FrameType)'
    BY FramesTyped, PTL
  <2>2. \A p \in Places' : frames'[p] \in FrameType
    BY <2>1, <2>4
  <2>3. QED
    BY <2>1, <2>2 DEF FramesInv, FrameOK, FrameType
<1>3. \A e \in Groups : IsSliceTask(e) => SliceInv(e)' /\ \A p \in Places' : Owns(p, e)' => OwnerInv(p)'
  BY <1>1 DEF LoopOK
<1>4. \A p \in Places' : frames'[p].role = "owner" => OwnerInv(p)'
  BY <1>2, <1>3 DEF Owns
<1>5. QED
  BY <1>3, <1>4 DEF LoopInv, InnerInv, TasksOK

\* A step within a call or a task: what it does not touch.
LEMMA Stays ==
  ASSUME PoolLoopInv, NEW t \in Threads, stack[t] # <<>>, NEW f \in FrameType, Set(t, f),
         f.role = Top(t).role, f.group = Top(t).group, f.call = Top(t).call,
         f.role \in {"owner", "helper"}, f.pc # "inner", Top(t).pc # "inner",
         ran' = ran, next' = next, returned' = returned,
         \A e \in Groups : e # Top(t).group =>
           group'[e] = group[e] /\ \A u \in Threads \ {0} : queue'[u][e] = queue[u][e]
  PROVE  /\ RanType' /\ CallersInv' /\ InnerInv'
         /\ \A e \in Groups : e # Top(t).group /\ IsSliceTask(e) => LoopOK(e)'
         /\ \A w \in Workers : Child(w) # Top(t).group => ChildInv(w)'
         /\ \A k \in 1..Len(Program) : Async(k) # Top(t).group => AsyncInv(k)'
<1> DEFINE x == TopPlace(t)
           g == Top(t).group
<1>1. /\ Stacks' /\ Places' = Places /\ frames' = [frames EXCEPT ![x] = f]
      /\ x \in Places /\ frames[x] = Top(t) /\ DOMAIN frames = Places
  BY SetFrames, TopIs DEF PoolLoopInv, PoolInv, Types, frames
<1> HIDE DEF x, g
<1>2. frames'[x] = f /\ \A p \in Places : p # x => frames'[p] = frames[p]
  BY <1>1
<1>3. Changes(x, g)
  BY <1>1, <1>2 DEF Changes, g
<1>4. RanType' /\ CallersInv' /\ \A p \in Places' : frames'[p].pc = "inner" => IsSliceTask(frames'[p].group)
  BY <1>1, <1>2, <1>3, SameCallers
<1>5. \A e \in Groups : e # g /\ IsSliceTask(e) =>
           SliceInv(e)' /\ \A p \in Places' : Owns(p, e)' => OwnerInv(p)'
  BY <1>1, <1>3, OtherLoops DEF g
<1>6. /\ \A w \in Workers : Child(w) # g => ChildInv(w)'
      /\ \A k \in 1..Len(Program) : Async(k) # g => AsyncInv(k)'
  BY <1>1, <1>2, <1>3, OtherTasks DEF g
<1>7. QED
  BY <1>4, <1>5, <1>6 DEF LoopOK, InnerInv, g

\* The size of a call and its iterations.
LEMMA ForCalls ==
  ASSUME NEW c \in Calls
  PROVE  /\ c \in AnyCall /\ Size(c) \in Nat
         /\ Kind(c) # "parallel" => Items[c] = 0..(Size(c) - 1)
         /\ Kind(c) = "parallel" => Items[c] = Workers
<1>1. c \in AnyCall
  BY DEF Calls, AnyCall
<1>2. QED
  BY <1>1, CallsAre DEF Items

\* Of a loop that is open, or over, threads come and go, and look for items that
\* are not there.
LEMMA LoopGoesOn ==
  ASSUME PoolLoopInv, NEW g \in Groups, IsSliceTask(g),
         \A p : Owns(p, g)' <=> Owns(p, g),
         \A p : Owns(p, g) => /\ p \in Places' /\ frames'[p].group = g /\ frames'[p].call = frames[p].call
                              /\ frames[p].pc \notin Preparing /\ frames'[p].pc \notin Preparing,
         \A p : Works(p, g)' <=> Works(p, g),
         \A p : Works(p, g) =>
           /\ p \in Places' /\ frames'[p].work = frames[p].work /\ frames'[p].pc = frames[p].pc,
         \A p : Holds(p, g)' => Holds(p, g) \/ Open(g) \/ group[g].ctr >= group[g].to,
         \A u \in Threads \ {0} : queue'[u][g] > 0 => queue[u][g] > 0 \/ Open(g),
         group'[g].remaining = group[g].remaining, group'[g].to = group[g].to,
         group'[g].func = group[g].func,
         \/ group'[g].ctr = group[g].ctr
         \/ group[g].ctr >= group[g].to /\ group'[g].ctr = group[g].ctr + 1,
         \A p : Owns(p, g) => ran'[frames[p].call] = ran[frames[p].call]
  PROVE  LoopOK(g)'
<1>1. SliceInv(g) /\ \A p : Owns(p, g) => OwnerInv(p)
  BY DEF PoolLoopInv, LoopInv, Owns
<1>2. /\ group[g].ctr \in Nat /\ group[g].to \in Nat /\ group'[g].ctr \in Nat
      /\ group'[g].ctr >= group[g].ctr
  BY DEF PoolLoopInv, PoolInv, Types, GroupType
<1>3. \A i \in Nat : i < group[g].to => (i >= group'[g].ctr <=> i >= group[g].ctr)
  BY <1>2
<1>4. \A p, i : (Claims(p, g, i)' <=> Claims(p, g, i)) /\ (Claims(p, g, i) => p \in Places /\ p \in Places')
  BY DEF Claims, Works
<1>5. \A i : Unrun(g, i)' <=> Unrun(g, i)
  BY <1>4 DEF Unrun, Claims
<1>6. Pending(g)' = Pending(g)
  <2>1. \A i : (\E p \in Places' : Claims(p, g, i)') <=> (\E p \in Places : Claims(p, g, i))
    BY <1>4
  <2>2. \A i \in 0..(group[g].to - 1) : i >= group'[g].ctr <=> i >= group[g].ctr
    BY <1>2, <1>3
  <2>3. QED
    BY <2>1, <2>2 DEF Pending
<1>7. Open(g)' <=> Open(g)
  BY DEF Open, Owns
<1>8. SliceInv(g)'
  <2>1. (\E t \in Threads \ {0} : queue'[t][g] > 0) \/ (\E p \in Places' : Holds(p, g)') =>
          Open(g)' \/ group'[g].ctr >= group'[g].to
    <3>1. SUFFICES ASSUME (\E t \in Threads \ {0} : queue'[t][g] > 0) \/ (\E p \in Places' : Holds(p, g)')
                   PROVE  Open(g) \/ group[g].ctr >= group[g].to
      BY <1>2, <1>7
    <3>2. \A p : Holds(p, g) => p \in Places
      BY DEF Holds
    <3>3. QED
      BY <1>1, <3>1, <3>2 DEF SliceInv
  <2>2. ASSUME NEW p \in Places', Works(p, g)'
        PROVE  /\ Open(g)' /\ frames'[p].work[2] < group'[g].ctr /\ frames'[p].work[2] < group'[g].to
               /\ frames'[p].pc # "run" => frames'[p].work[1] = group'[g].func
               /\ frames'[p].pc = "inner" => HasNested(group'[g].func)
    <3>1. Works(p, g) /\ p \in Places /\ frames[p].work[2] \in Nat
      BY <2>2, FramesTyped DEF Works, PoolLoopInv, PoolInv, Types, FrameType
    <3>2. QED
      BY <1>1, <1>2, <1>7, <3>1 DEF SliceInv
  <2>3. ASSUME NEW p \in Places', NEW q \in Places', Works(p, g)', Works(q, g)',
               frames'[p].work[2] = frames'[q].work[2]
        PROVE  p = q
    <3>1. Works(p, g) /\ p \in Places /\ Works(q, g) /\ q \in Places
      BY <2>3 DEF Works
    <3>2. QED
      BY <1>1, <2>3, <3>1 DEF SliceInv
  <2>4. QED
    BY <2>1, <2>2, <2>3 DEF SliceInv
<1>9. ASSUME NEW p \in Places', Owns(p, g)' PROVE OwnerInv(p)'
  <2>1. /\ Owns(p, g) /\ OwnerInv(p) /\ frames[p].group = g /\ frames'[p].group = g
        /\ p \in Places /\ frames[p].pc \notin Preparing /\ frames'[p].pc \notin Preparing
    BY <1>1, <1>9 DEF Owns
  <2>2. PICK c \in Calls : c = frames[p].call /\ frames'[p].call = c /\ ran'[c] = ran[c] /\ Kind(c) = "for"
    <3>1. Caller(p) /\ frames[p].role = "owner"
      BY <2>1 DEF Caller, Owns
    <3>2. frames[p].call \in Calls /\ Kind(frames[p].call) = "for"
      BY <2>1, <3>1 DEF PoolLoopInv, LoopInv, CallersInv, KindOf, Roles
    <3>3. QED
      BY <2>1, <3>2
  <2>3. \A i \in Items[c] : i \in Nat /\ i < group[g].to
    BY <2>1, <2>2, ForCalls DEF OwnerInv
  <2>4. \A q \in Places' : Owns(q, g)' => q = p
    BY <2>1 DEF OwnerInv, Owns
  <2>5. /\ group'[g].func = c /\ group'[g].to = Size(c)
        /\ group'[g].remaining = Cardinality(Pending(g)')
        /\ \A i \in Items[c] : ran'[c][i] = IF i >= group'[g].ctr \/ Unrun(g, i)' THEN 0 ELSE 1
    BY <1>3, <1>5, <1>6, <2>1, <2>2, <2>3 DEF OwnerInv
  <2>6. QED
    BY <2>1, <2>2, <2>4, <2>5 DEF OwnerInv
<1>10. QED
  BY <1>8, <1>9 DEF LoopOK

\* A step within a loop.
LEMMA OnSlice ==
  ASSUME PoolLoopInv, PoolInv', NEW t \in Threads, stack[t] # <<>>, NEW f \in FrameType, Set(t, f),
         f.role = Top(t).role, f.group = Top(t).group, f.call = Top(t).call,
         f.role \in {"owner", "helper"}, f.pc # "inner", Top(t).pc # "inner",
         ran' = ran, next' = next, returned' = returned,
         NEW g \in Groups, g = Top(t).group, IsSliceTask(g),
         \A e \in Groups : e # g =>
           group'[e] = group[e] /\ \A u \in Threads \ {0} : queue'[u][e] = queue[u][e],
         LoopOK(g)'
  PROVE  LoopInv'
<1>1. /\ RanType' /\ CallersInv' /\ InnerInv'
      /\ \A e \in Groups : e # g /\ IsSliceTask(e) => LoopOK(e)'
      /\ \A w \in Workers : Child(w) # g => ChildInv(w)'
      /\ \A k \in 1..Len(Program) : Async(k) # g => AsyncInv(k)'
  BY Stays
<1>2. TasksOK'
  BY <1>1, TaskGroups DEF TasksOK
<1>3. QED
  BY <1>1, <1>2, AllLoops

\* What a step of the thread with the first frame at a place leaves of the others.
LEMMA AfterSet ==
  ASSUME PoolInv, NEW t \in Threads, stack[t] # <<>>, NEW f \in FrameType, Set(t, f)
  PROVE  /\ Stacks' /\ Places' = Places /\ TopPlace(t) \in Places /\ frames[TopPlace(t)] = Top(t)
         /\ frames'[TopPlace(t)] = f
         /\ \A p \in Places : p # TopPlace(t) => frames'[p] = frames[p]
<1>1. /\ Stacks' /\ Places' = Places /\ frames' = [frames EXCEPT ![TopPlace(t)] = f]
      /\ TopPlace(t) \in Places /\ frames[TopPlace(t)] = Top(t) /\ DOMAIN frames = Places
  BY SetFrames, TopIs DEF PoolInv, Types, frames
<1>2. QED
  BY <1>1

\* A loop before its owner has described it: nobody else is there.
LEMMA OwnerAlone ==
  ASSUME PoolLoopInv, NEW x \in Places, frames[x].role = "owner", frames[x].pc \in Preparing,
         NEW g, g = frames[x].group
  PROVE  /\ g \in Groups /\ IsSliceTask(g) /\ frames[x].call \in Calls /\ Kind(frames[x].call) = "for"
         /\ \A t \in Threads \ {0} : queue[t][g] = 0
         /\ \A p \in Places : frames[p].role \in {"owner", "helper"} /\ frames[p].group = g => p = x
         /\ \A i \in Items[frames[x].call] : ran[frames[x].call][i] = 0
         /\ frames[x].pc # "count" => group[g].remaining = Size(frames[x].call)
         /\ frames[x].pc = "func" => group[g].ctr = 0
<1>1. OwnerInv(x) /\ Caller(x) /\ Owns(x, g)
  BY DEF PoolLoopInv, LoopInv, Caller, Owns
<1>2. g \in Groups /\ IsSliceTask(g)
  BY FramesTyped DEF PoolLoopInv, PoolInv, Types, FramesInv, FrameOK, FrameType
<1>3. frames[x].call \in Calls /\ Kind(frames[x].call) = "for"
  BY <1>1 DEF PoolLoopInv, LoopInv, CallersInv, KindOf, Roles
<1>4. \A p \in Places : frames[p].role \in {"owner", "helper"} /\ frames[p].group = g => p = x
  BY <1>1 DEF OwnerInv, Owns, Holds
<1>5. QED
  BY <1>1, <1>2, <1>3, <1>4 DEF OwnerInv

\* Still alone, and nothing has run.
LEMMA StillAlone ==
  ASSUME PoolLoopInv, NEW x \in Places, frames[x].role = "owner", frames[x].pc \in Preparing,
         NEW g, g = frames[x].group,
         Places' = Places, frames'[x].role = "owner", frames'[x].group = g,
         frames'[x].call = frames[x].call, frames'[x].pc \in Preparing,
         \A p \in Places : p # x => frames'[p] = frames[p],
         ran' = ran, queue' = queue,
         frames'[x].pc # "count" => group'[g].remaining = Size(frames[x].call),
         frames'[x].pc = "func" => group'[g].ctr = 0
  PROVE  LoopOK(g)'
<1>1. /\ \A t \in Threads \ {0} : queue[t][g] = 0
      /\ \A p \in Places : frames[p].role \in {"owner", "helper"} /\ frames[p].group = g => p = x
      /\ \A i \in Items[frames[x].call] : ran[frames[x].call][i] = 0
  BY OwnerAlone
<1>2. \A p \in Places' : frames'[p].role \in {"owner", "helper"} /\ frames'[p].group = g => p = x
  BY <1>1
<1>3. (\A p : ~Holds(p, g)') /\ (\A p : ~Works(p, g)') /\ (\A p : Owns(p, g)' => p = x)
  BY <1>2 DEF Holds, Works, Owns, Preparing
<1>4. SliceInv(g)'
  BY <1>1, <1>3 DEF SliceInv
<1>5. ASSUME NEW p \in Places', Owns(p, g)' PROVE OwnerInv(p)'
  <2>1. p = x
    BY <1>3, <1>5
  <2>2. /\ \A q \in Places' : Owns(q, g)' => q = p
        /\ \A t \in Threads \ {0} : queue'[t][g] = 0
        /\ \A q \in Places' : ~Holds(q, g)'
        /\ \A i \in Items[frames[x].call] : ran'[frames[x].call][i] = 0
    BY <1>1, <1>3, <2>1
  <2>3. QED
    BY <2>1, <2>2 DEF OwnerInv
<1>6. QED
  BY <1>4, <1>5 DEF LoopOK

\* ForTaskGroup::Enqueue, step by step.
LEMMA CountLoop ==
  ASSUME PoolLoopInv, NEW t \in Threads, Count(t) PROVE LoopInv'
<1> DEFINE f == [Top(t) EXCEPT !.pc = "zero"]
<1>1. /\ stack[t] # <<>> /\ Top(t).pc = "count" /\ Set(t, f) /\ queue' = queue
      /\ ran' = ran /\ next' = next /\ returned' = returned
      /\ group' = [group EXCEPT ![Top(t).group].remaining = Size(Top(t).call)]
  BY DEF Count, At, Goto
<1>2. Top(t) \in FrameType /\ Top(t).role = "owner" /\ Top(t).group \in Groups
  BY <1>1, RoleOfPc, TopIs DEF PoolLoopInv, OwnerPcs, HelperPcs
<1>3. /\ f \in FrameType /\ f.role = "owner" /\ f.group = Top(t).group /\ f.pc = "zero"
      /\ f.call = Top(t).call /\ f.work = Top(t).work
  BY <1>2 DEF FrameType, Pcs
<1>4. PICK g \in Groups : g = Top(t).group
  BY <1>2
<1>5. PICK x \in Places : x = TopPlace(t)
  BY <1>1, TopIs DEF PoolLoopInv
<1> HIDE DEF f
<1>6. /\ Places' = Places /\ frames[x] = Top(t) /\ frames'[x] = f
      /\ \A p \in Places : p # x => frames'[p] = frames[p]
  BY <1>1, <1>3, <1>5, AfterSet DEF PoolLoopInv
<1>7. /\ \A e \in Groups : e # g => group'[e] = group[e]
      /\ group'[g].remaining = Size(Top(t).call)
  BY <1>1, <1>4 DEF PoolLoopInv, PoolInv, Types, GroupType
<1>8. LoopOK(g)'
  BY <1>1, <1>2, <1>3, <1>4, <1>6, <1>7, StillAlone DEF Preparing
<1>9. QED
  BY <1>1, <1>2, <1>3, <1>4, <1>7, <1>8, OnSlice, CountPool, RoleOfPc DEF PoolLoopInv

LEMMA ZeroLoop ==
  ASSUME PoolLoopInv, NEW t \in Threads, Zero(t) PROVE LoopInv'
<1> DEFINE f == [Top(t) EXCEPT !.pc = "func"]
<1>1. /\ stack[t] # <<>> /\ Top(t).pc = "zero" /\ Set(t, f) /\ queue' = queue
      /\ ran' = ran /\ next' = next /\ returned' = returned
      /\ group' = [group EXCEPT ![Top(t).group].ctr = 0]
  BY DEF Zero, At, Goto
<1>2. Top(t) \in FrameType /\ Top(t).role = "owner" /\ Top(t).group \in Groups
  BY <1>1, RoleOfPc, TopIs DEF PoolLoopInv, OwnerPcs, HelperPcs
<1>3. /\ f \in FrameType /\ f.role = "owner" /\ f.group = Top(t).group /\ f.pc = "func"
      /\ f.call = Top(t).call
  BY <1>2 DEF FrameType, Pcs
<1>4. PICK g \in Groups : g = Top(t).group
  BY <1>2
<1>5. PICK x \in Places : x = TopPlace(t)
  BY <1>1, TopIs DEF PoolLoopInv
<1> HIDE DEF f
<1>6. /\ Places' = Places /\ frames[x] = Top(t) /\ frames'[x] = f
      /\ \A p \in Places : p # x => frames'[p] = frames[p]
  BY <1>1, <1>3, <1>5, AfterSet DEF PoolLoopInv
<1>7. /\ \A e \in Groups : e # g => group'[e] = group[e]
      /\ group'[g].ctr = 0 /\ group'[g].remaining = group[g].remaining
  BY <1>1, <1>4 DEF PoolLoopInv, PoolInv, Types, GroupType
<1>8. LoopOK(g)'
  <2>1. group[g].remaining = Size(Top(t).call)
    BY <1>1, <1>2, <1>4, <1>6, OwnerAlone DEF Preparing
  <2>2. QED
    BY <1>1, <1>2, <1>3, <1>4, <1>6, <1>7, <2>1, StillAlone DEF Preparing
<1>9. QED
  BY <1>1, <1>2, <1>3, <1>4, <1>7, <1>8, OnSlice, ZeroPool, RoleOfPc DEF PoolLoopInv

\* From here on the loop is open, with all of its items to be done.
LEMMA FuncLoop ==
  ASSUME PoolLoopInv, NEW t \in Threads, Func(t) PROVE LoopInv'
<1> DEFINE f == [Top(t) EXCEPT !.pc = "push", !.work[2] = 1]
<1>1. /\ stack[t] # <<>> /\ Top(t).pc = "func" /\ Set(t, f) /\ queue' = queue
      /\ ran' = ran /\ next' = next /\ returned' = returned
      /\ group' = [group EXCEPT ![Top(t).group].to = Size(Top(t).call), ![Top(t).group].func = Top(t).call]
  BY DEF Func, At, Goto
<1>2. Top(t) \in FrameType /\ Top(t).role = "owner" /\ Top(t).group \in Groups
  BY <1>1, RoleOfPc, TopIs DEF PoolLoopInv, OwnerPcs, HelperPcs
<1>3. /\ f \in FrameType /\ f.role = "owner" /\ f.group = Top(t).group /\ f.pc = "push"
      /\ f.call = Top(t).call
  <2>1. [Top(t).work EXCEPT ![2] = 1] \in AnyCall \X Nat
    BY <1>2, WorkOf DEF FrameType
  <2>2. QED
    BY <1>2, <2>1 DEF FrameType, Pcs
<1>4. PICK g \in Groups : g = Top(t).group
  BY <1>2
<1>5. PICK x \in Places : x = TopPlace(t)
  BY <1>1, TopIs DEF PoolLoopInv
<1> HIDE DEF f
<1>6. /\ Places' = Places /\ frames[x] = Top(t) /\ frames'[x] = f
      /\ \A p \in Places : p # x => frames'[p] = frames[p]
  BY <1>1, <1>3, <1>5, AfterSet DEF PoolLoopInv
<1>7. /\ \A e \in Groups : e # g => group'[e] = group[e]
      /\ group'[g].ctr = group[g].ctr /\ group'[g].remaining = group[g].remaining
      /\ group'[g].to = Size(Top(t).call) /\ group'[g].func = Top(t).call
  BY <1>1, <1>4 DEF PoolLoopInv, PoolInv, Types, GroupType
<1>8. LoopOK(g)'
  <2> DEFINE c == Top(t).call
  <2>1. /\ \A u \in Threads \ {0} : queue[u][g] = 0
        /\ \A p \in Places : frames[p].role \in {"owner", "helper"} /\ frames[p].group = g => p = x
        /\ \A i \in Items[c] : ran[c][i] = 0
        /\ group[g].remaining = Size(c) /\ group[g].ctr = 0 /\ c \in Calls /\ Kind(c) = "for"
    BY <1>1, <1>2, <1>4, <1>6, OwnerAlone DEF Preparing
  <2>2. Size(c) \in Nat /\ Items[c] = 0..(Size(c) - 1)
    BY <2>1, ForCalls
  <2>3. \A p \in Places' : frames'[p].role \in {"owner", "helper"} /\ frames'[p].group = g => p = x
    BY <1>6, <2>1
  <2>4. (\A p : ~Holds(p, g)') /\ (\A p : ~Works(p, g)') /\ (\A p : Owns(p, g)' => p = x)
    BY <1>3, <1>6, <2>3 DEF Holds, Works, Owns
  <2>5. SliceInv(g)'
    BY <1>1, <2>1, <2>4 DEF SliceInv
  <2>6. Pending(g)' = 0..(Size(c) - 1)
    BY <1>7, <2>1, <2>2, <2>4 DEF Pending, Claims
  <2>7. Cardinality(Pending(g)') = Size(c)
    <3>1. Cardinality(0..(Size(c) - 1)) = (IF 0 > Size(c) - 1 THEN 0 ELSE (Size(c) - 1) - 0 + 1)
      BY <2>2, FS_Interval
    <3>2. QED
      BY <2>2, <2>6, <3>1
  <2> HIDE DEF c
  <2>8. ASSUME NEW p \in Places', Owns(p, g)' PROVE OwnerInv(p)'
    <3>1. p = x /\ frames'[p].group = g /\ frames'[p].call = c /\ frames'[p].pc = "push"
      BY <1>3, <1>4, <1>6, <2>4, <2>8 DEF c
    <3>2. \A q \in Places' : Owns(q, g)' => q = p
      BY <2>4, <3>1
    <3>3. \A i \in Items[c] : ran'[c][i] = IF i >= group'[g].ctr \/ Unrun(g, i)' THEN 0 ELSE 1
      BY <1>1, <1>7, <2>1, <2>2
    <3>4. QED
      BY <1>7, <2>1, <2>7, <3>1, <3>2, <3>3 DEF OwnerInv, Preparing, c
  <2>9. QED
    BY <2>5, <2>8 DEF LoopOK
<1>9. QED
  BY <1>1, <1>2, <1>3, <1>4, <1>7, <1>8, OnSlice, FuncPool, RoleOfPc DEF PoolLoopInv

\* A step of the owner, or of a helper, that neither claims nor counts an item.
LEMMA SliceGoesOn ==
  ASSUME PoolLoopInv, PoolInv', NEW t \in Threads, stack[t] # <<>>, NEW f \in FrameType, Set(t, f),
         f.role = Top(t).role, f.group = Top(t).group, f.call = Top(t).call,
         f.role \in {"owner", "helper"}, f.pc # "inner", Top(t).pc # "inner",
         f.pc \notin {"run", "inner", "done"}, Top(t).pc \notin {"run", "inner", "done"},
         f.pc \notin Preparing, Top(t).pc \notin Preparing,
         f.role = "helper" => ~(\E p \in Places : Owns(p, Top(t).group) /\ frames[p].pc \in Preparing),
         ran' = ran, next' = next, returned' = returned,
         NEW g \in Groups, g = Top(t).group, IsSliceTask(g),
         \A e \in Groups : e # g =>
           group'[e] = group[e] /\ \A u \in Threads \ {0} : queue'[u][e] = queue[u][e],
         \A u \in Threads \ {0} : queue'[u][g] > 0 => queue[u][g] > 0 \/ f.role = "owner",
         group'[g].remaining = group[g].remaining, group'[g].to = group[g].to,
         group'[g].func = group[g].func,
         \/ group'[g].ctr = group[g].ctr
         \/ group[g].ctr >= group[g].to /\ group'[g].ctr = group[g].ctr + 1
  PROVE  LoopInv'
<1>1. PICK x \in Places : x = TopPlace(t)
  BY TopIs DEF PoolLoopInv
<1>2. /\ Places' = Places /\ frames[x] = Top(t) /\ frames'[x] = f
      /\ \A p \in Places : p # x => frames'[p] = frames[p]
  BY <1>1, AfterSet DEF PoolLoopInv
<1>3. /\ \A p : Owns(p, g)' <=> Owns(p, g)
      /\ \A p : Works(p, g)' <=> Works(p, g)
      /\ \A p : Holds(p, g)' <=> Holds(p, g)
      /\ \A p : Works(p, g) => p # x /\ p \in Places'
  BY <1>2 DEF Owns, Works, Holds
<1>4. f.role = "owner" => Open(g)
  BY <1>2 DEF Open, Owns
<1>5. \A p : Owns(p, g) => /\ p \in Places' /\ frames'[p].group = g /\ frames'[p].call = frames[p].call
                           /\ frames[p].pc \notin Preparing /\ frames'[p].pc \notin Preparing
  <2>1. SUFFICES ASSUME NEW p, Owns(p, g)
                 PROVE  /\ p \in Places' /\ frames'[p].group = g /\ frames'[p].call = frames[p].call
                        /\ frames[p].pc \notin Preparing /\ frames'[p].pc \notin Preparing
    OBVIOUS
  <2>2. CASE f.role = "owner"
    <3>1. Owns(x, g) /\ OwnerInv(x)
      BY <1>2, <2>2 DEF PoolLoopInv, LoopInv, Owns
    <3>2. p = x
      BY <1>2, <2>1, <3>1 DEF OwnerInv, Owns
    <3>3. QED
      BY <1>2, <3>2
  <2>3. CASE f.role = "helper"
    BY <1>2, <2>1, <2>3 DEF Owns
  <2>4. QED
    BY <2>2, <2>3
<1>6. LoopOK(g)'
  BY <1>2, <1>3, <1>4, <1>5, LoopGoesOn
<1>7. QED
  BY <1>6, OnSlice

LEMMA PushTaskGroupLoop ==
  ASSUME PoolLoopInv, NEW t \in Threads, PushTaskGroup(t) PROVE LoopInv'
<1> DEFINE f == IF Top(t).work[2] + 1 \in Workers THEN [Top(t) EXCEPT !.work[2] = Top(t).work[2] + 1]
                ELSE [Top(t) EXCEPT !.pc = "step"]
<1>1. /\ stack[t] # <<>> /\ Top(t).pc = "push" /\ Set(t, f) /\ group' = group
      /\ ran' = ran /\ next' = next /\ returned' = returned
      /\ queue' = Enqueued(Top(t).work[2], Top(t).group)
  BY DEF PushTaskGroup, At
<1>2. /\ Top(t) \in FrameType /\ Top(t).role = "owner" /\ Top(t).group \in Groups /\ IsSliceTask(Top(t).group)
      /\ Top(t).work[2] \in Threads \ {0} /\ Top(t).work[2] \in Nat
  BY <1>1, RoleOfPc, TopIs, ThreadsAssumption DEF PoolLoopInv, OwnerPcs, HelperPcs, Workers, Threads
<1>3. /\ f \in FrameType /\ f.role = "owner" /\ f.group = Top(t).group /\ f.pc \in {"push", "step"}
      /\ f.call = Top(t).call
  <2>1. [Top(t).work EXCEPT ![2] = Top(t).work[2] + 1] \in AnyCall \X Nat
    BY <1>2, WorkOf DEF FrameType
  <2>2. QED
    BY <1>1, <1>2, <2>1 DEF FrameType, Pcs
<1> HIDE DEF f
<1>4. PICK g \in Groups : g = Top(t).group
  BY <1>2
<1>5. \A u \in Threads \ {0}, e \in Groups : e # g => queue'[u][e] = queue[u][e]
  <2>1. queue \in [Threads \ {0} -> [Groups -> Nat]]
    BY DEF PoolLoopInv, PoolInv, Types
  <2>2. PICK w \in Threads \ {0} : queue' = Enqueued(w, g)
    BY <1>1, <1>2, <1>4
  <2>3. QED
    BY <2>1, <2>2, EnqueuedIs
<1>6. QED
  BY <1>1, <1>2, <1>3, <1>4, <1>5, PushTaskGroupPool, SliceGoesOn DEF PoolLoopInv, Preparing

\* The caller has seen that nothing is left to take.
LEMMA DrainedLoop ==
  ASSUME PoolLoopInv, NEW t \in Threads, Drained(t) PROVE LoopInv'
<1> DEFINE f == [Top(t) EXCEPT !.pc = "check"]
<1>1. /\ stack[t] # <<>> /\ Top(t).pc = "drain" /\ Set(t, f) /\ group' = group /\ queue' = queue
      /\ ran' = ran /\ next' = next /\ returned' = returned
  BY DEF Drained, At, Goto
<1>2. Top(t) \in FrameType /\ Top(t).role = "owner" /\ Top(t).group \in Groups /\ IsSliceTask(Top(t).group)
  BY <1>1, RoleOfPc, TopIs DEF PoolLoopInv, OwnerPcs, HelperPcs
<1>3. /\ f \in FrameType /\ f.role = "owner" /\ f.group = Top(t).group /\ f.pc = "check"
      /\ f.call = Top(t).call
  BY <1>2 DEF FrameType, Pcs
<1> HIDE DEF f
<1>4. PICK g \in Groups : g = Top(t).group
  BY <1>2
<1>5. QED
  BY <1>1, <1>2, <1>3, <1>4, DrainedPool, SliceGoesOn DEF PoolLoopInv, Preparing

\* Nobody is left of a loop whose count is zero.
LEMMA CountedDown ==
  ASSUME PoolLoopInv, NEW x \in Places, frames[x].role = "owner", frames[x].pc \notin Preparing,
         NEW g, g = frames[x].group, group[g].remaining = 0
  PROVE  /\ group[g].ctr >= group[g].to /\ \A p : ~Works(p, g)
         /\ \A i \in Items[frames[x].call] : ran[frames[x].call][i] = 1
<1>1. OwnerInv(x) /\ Caller(x) /\ g \in Groups /\ IsSliceTask(g)
  BY FramesTyped DEF PoolLoopInv, LoopInv, Caller, PoolInv, Types, FramesInv, FrameOK, FrameType
<1>2. group[g].to \in Nat /\ group[g].ctr \in Nat
  BY <1>1 DEF PoolLoopInv, PoolInv, Types, GroupType
<1>3. Pending(g) = {}
  <2>1. Pending(g) \subseteq 0..(group[g].to - 1)
    BY DEF Pending
  <2>2. IsFiniteSet(Pending(g))
    <3>1. IsFiniteSet(0..(group[g].to - 1))
      <4>1. 0 \in Int /\ group[g].to - 1 \in Int
        BY <1>2
      <4>2. QED
        BY <4>1, FS_Interval
    <3>2. QED
      BY <2>1, <3>1, FS_Subset
  <2>3. QED
    BY <1>1, <2>2, FS_EmptySet DEF OwnerInv
<1>4. group[g].ctr >= group[g].to
  <2>1. SUFFICES ASSUME ~(group[g].ctr >= group[g].to) PROVE FALSE
    OBVIOUS
  <2>2. group[g].ctr \in Pending(g)
    BY <1>2, <2>1 DEF Pending
  <2>3. QED
    BY <1>3, <2>2
<1>5. ASSUME NEW p, Works(p, g) PROVE FALSE
  <2>1. p \in Places /\ frames[p].work[2] < group[g].to /\ frames[p].work[2] \in Nat
    BY <1>1, <1>5, FramesTyped DEF Works, PoolLoopInv, LoopInv, SliceInv, PoolInv, Types, FrameType
  <2>2. frames[p].work[2] \in Pending(g)
    BY <1>2, <1>5, <2>1 DEF Pending, Claims
  <2>3. QED
    BY <1>3, <2>2
<1>6. \A i \in Items[frames[x].call] : ran[frames[x].call][i] = 1
  <2>1. frames[x].call \in Calls /\ Kind(frames[x].call) = "for"
    BY <1>1 DEF PoolLoopInv, LoopInv, CallersInv, KindOf, Roles
  <2>2. \A i \in Items[frames[x].call] : i \in Nat /\ i < group[g].to
    BY <1>1, <2>1, ForCalls DEF OwnerInv
  <2>3. \A i : ~Unrun(g, i)
    BY <1>5 DEF Unrun, Claims
  <2>4. QED
    BY <1>1, <1>2, <1>4, <2>2, <2>3 DEF OwnerInv
<1>7. QED
  BY <1>4, <1>5, <1>6

\* What is left when a helper or an owner is gone.
LEMMA AfterPop ==
  ASSUME PoolLoopInv, NEW t \in Threads, stack[t] # <<>>, Pop(t), NEW x, x = TopPlace(t), NEW g, g = Top(t).group
  PROVE  /\ Stacks' /\ x \in Places /\ Places' = Places \ {x} /\ frames[x] = Top(t)
         /\ \A p \in Places' : frames'[p] = frames[p]
         /\ Changes(x, g)
<1>1. /\ Stacks' /\ Places' = Places \ {x} /\ \A p \in Places' : frames'[p] = frames[p]
      /\ x \in Places /\ frames[x] = Top(t)
  BY PopFrames, TopFrame DEF PoolLoopInv, PoolInv, Types
<1>2. Changes(x, g)
  BY <1>1 DEF Changes
<1>3. QED
  BY <1>1, <1>2

LEMMA EndOfSliceLoop ==
  ASSUME PoolLoopInv, NEW t \in Threads, EndOfSlice(t) PROVE LoopInv'
<1>1. /\ stack[t] # <<>> /\ Top(t).pc = "end" /\ IsSliceTask(Top(t).group) /\ queue' = queue
      /\ ran' = ran /\ next' = next /\ returned' = returned
  BY DEF EndOfSlice, At
<1>2. /\ Top(t) \in FrameType /\ Top(t).role \in {"owner", "helper"} /\ Top(t).group \in Groups
  BY <1>1, RoleOfPc, TopIs DEF PoolLoopInv, OwnerPcs, HelperPcs
<1>3. PICK g \in Groups : g = Top(t).group
  BY <1>2
<1>4. CASE Top(t).role = "owner"
  <2> DEFINE f == [Top(t) EXCEPT !.pc = "check"]
  <2>1. Set(t, f) /\ group' = [group EXCEPT ![Top(t).group].inTaskQueue = FALSE]
    BY <1>4 DEF EndOfSlice, Goto
  <2>2. /\ f \in FrameType /\ f.role = "owner" /\ f.group = Top(t).group /\ f.pc = "check"
        /\ f.call = Top(t).call
    BY <1>2, <1>4 DEF FrameType, Pcs
  <2>3. /\ \A e \in Groups : e # g => group'[e] = group[e]
        /\ group'[g].remaining = group[g].remaining /\ group'[g].to = group[g].to
        /\ group'[g].func = group[g].func /\ group'[g].ctr = group[g].ctr
    BY <1>3, <2>1 DEF PoolLoopInv, PoolInv, Types, GroupType
  <2> HIDE DEF f
  <2>4. QED
    BY <1>1, <1>2, <1>3, <1>4, <2>1, <2>2, <2>3, EndOfSlicePool, SliceGoesOn DEF PoolLoopInv, Preparing
<1>5. CASE Top(t).role = "helper"
  <2>1. Pop(t) /\ group' = group
    BY <1>5 DEF EndOfSlice
  <2>2. PICK x : x = TopPlace(t)
    OBVIOUS
  <2>3. /\ Stacks' /\ x \in Places /\ Places' = Places \ {x} /\ frames[x] = Top(t)
        /\ \A p \in Places' : frames'[p] = frames[p]
        /\ Changes(x, g)
    BY <1>1, <1>3, <2>1, <2>2, AfterPop
  <2>4. RanType' /\ CallersInv' /\ InnerInv'
    BY <1>1, <1>5, <2>3, SameCallers DEF InnerInv
  <2>5. \A e \in Groups : e # g /\ IsSliceTask(e) => LoopOK(e)'
    BY <1>1, <2>1, <2>3, OtherLoops DEF LoopOK
  <2>6. TasksOK'
    BY <1>1, <1>2, <1>3, <2>1, <2>3, OtherTasks, TaskGroups DEF TasksOK
  <2>7. \A p : Owns(p, g) => frames[p].pc \notin Preparing
    <3>1. Holds(x, g)
      BY <1>3, <1>5, <2>3 DEF Holds
    <3>2. \A p : Owns(p, g) => OwnerInv(p) /\ frames[p].group = g
      BY DEF PoolLoopInv, LoopInv, Owns
    <3>3. QED
      BY <2>3, <3>1, <3>2 DEF OwnerInv
  <2>8. LoopOK(g)'
    <3>1. /\ \A p : Owns(p, g)' <=> Owns(p, g)
          /\ \A p : Owns(p, g) => p \in Places' /\ frames'[p] = frames[p] /\ frames[p].group = g
          /\ \A p : Works(p, g)' <=> Works(p, g)
          /\ \A p : Works(p, g) => p \in Places' /\ frames'[p] = frames[p]
          /\ \A p : Holds(p, g)' => Holds(p, g)
      BY <1>1, <1>5, <2>3 DEF Owns, Works, Holds
    <3>2. \A p : Owns(p, g) => /\ p \in Places' /\ frames'[p].group = g /\ frames'[p].call = frames[p].call
                               /\ frames[p].pc \notin Preparing /\ frames'[p].pc \notin Preparing
      BY <2>7, <3>1
    <3>3. QED
      BY <1>1, <1>3, <2>1, <3>1, <3>2, LoopGoesOn
  <2>9. QED
    BY <1>3, <2>4, <2>5, <2>6, <2>8, EndOfSlicePool, AllLoops DEF PoolLoopInv
<1>6. QED
  BY <1>2, <1>4, <1>5

\* A caller that returns: nobody else has its call.
LEMMA CallerReturns ==
  ASSUME PoolLoopInv, NEW x \in Places, Caller(x), Places' = Places \ {x},
         \A p \in Places' : frames'[p] = frames[p], frames[x].pc # "inner",
         ran' = ran, next' = next, returned' = returned \cup {frames[x].call}
  PROVE  RanType' /\ CallersInv' /\ InnerInv'
<1>1. RanType /\ CallersInv /\ InnerInv
  BY DEF PoolLoopInv, LoopInv, InnerInv
<1>2. \A p : (p \in Places' /\ frames'[p].pc = "inner") <=> (p \in Places /\ frames[p].pc = "inner")
  BY <1>1
<1>3. \A c : Unstarted(c)' <=> Unstarted(c)
  <2>1. SUFFICES ASSUME NEW c PROVE Unstarted(c)' <=> Unstarted(c)
    OBVIOUS
  <2>2. (\E p \in Places' : frames'[p].pc = "inner" /\ frames'[p].work = <<<<c[1]>>, c[2]>>) <=>
        (\E p \in Places : frames[p].pc = "inner" /\ frames[p].work = <<<<c[1]>>, c[2]>>)
    BY <1>2
  <2>3. QED
    BY <2>2 DEF Unstarted
<1>4. ASSUME NEW p \in Places', Caller(p)'
      PROVE  (/\ frames[p].call \in Calls \ returned /\ ~Unstarted(frames[p].call)
              /\ Kind(frames[p].call) = KindOf[frames[p].role])'
  <2>1. p \in Places /\ p # x /\ Caller(p) /\ frames'[p] = frames[p]
    BY <1>4 DEF Caller
  <2>2. PICK c \in Calls : c = frames[p].call
    BY <1>1, <2>1 DEF CallersInv
  <2>3. c # frames[x].call /\ c \notin returned /\ ~Unstarted(c) /\ Kind(c) = KindOf[frames[p].role]
    BY <1>1, <2>1, <2>2 DEF CallersInv
  <2>4. ~Unstarted(c)'
    BY <1>3, <2>3
  <2>5. ~Unstarted(frames[p].call)'
    BY <2>1, <2>2, <2>4 DEF Unstarted
  <2>6. QED
    BY <2>1, <2>2, <2>3, <2>5
<1>5. \A p, q \in Places' : Caller(p)' /\ Caller(q)' /\ frames'[p].call = frames'[q].call => p = q
  BY <1>1 DEF CallersInv, Caller
<1>6. \A c \in Calls : Unstarted(c)' => c \notin returned' /\ \A i \in Items[c] : ran'[c][i] = 0
  <2>1. \A c \in Calls : Unstarted(c) => c # frames[x].call
    BY <1>1 DEF CallersInv
  <2>2. QED
    BY <1>1, <1>3, <2>1 DEF CallersInv
<1>7. CallersInv'
  BY <1>4, <1>5, <1>6 DEF CallersInv
<1>8. QED
  BY <1>1, <1>7 DEF RanType, InnerInv

\* wait_for_finished returns only then.
LEMMA WaitLoop ==
  ASSUME PoolLoopInv, NEW t \in Threads, WaitForFinished(t) PROVE LoopInv'
<1>1. /\ stack[t] # <<>> /\ Top(t).pc = "check" /\ queue' = queue
      /\ ran' = ran /\ next' = next
  BY DEF WaitForFinished, At
<1>2. Top(t) \in FrameType /\ Top(t).role = "owner" /\ Top(t).group \in Groups /\ IsSliceTask(Top(t).group)
  BY <1>1, RoleOfPc, TopIs DEF PoolLoopInv, OwnerPcs, HelperPcs
<1>3. PICK g \in Groups : g = Top(t).group
  BY <1>2
<1>4. CASE ~Finished(Top(t).group)
  <2> DEFINE f == [Top(t) EXCEPT !.pc = "drain"]
  <2>1. Set(t, f) /\ group' = group /\ returned' = returned
    BY <1>4 DEF WaitForFinished, Goto
  <2>2. /\ f \in FrameType /\ f.role = "owner" /\ f.group = Top(t).group /\ f.pc = "drain"
        /\ f.call = Top(t).call
    BY <1>2 DEF FrameType, Pcs
  <2> HIDE DEF f
  <2>3. QED
    BY <1>1, <1>2, <1>3, <2>1, <2>2, WaitPool, SliceGoesOn DEF PoolLoopInv, Preparing
<1>5. CASE Finished(Top(t).group)
  <2>1. /\ Pop(t) /\ returned' = returned \cup {Top(t).call} /\ group[g].remaining = 0
        /\ group' = [group EXCEPT ![Top(t).group].remaining = 0, ![Top(t).group].inTaskQueue = FALSE]
    BY <1>3, <1>5 DEF WaitForFinished, Finished, IsFinished
  <2>2. PICK x : x = TopPlace(t)
    OBVIOUS
  <2>3. /\ Stacks' /\ x \in Places /\ Places' = Places \ {x} /\ frames[x] = Top(t)
        /\ \A p \in Places' : frames'[p] = frames[p]
        /\ Changes(x, g)
    BY <1>1, <1>3, <2>1, <2>2, AfterPop
  <2>4. /\ \A e \in Groups : e # g => group'[e] = group[e]
        /\ group'[g].ctr = group[g].ctr /\ group'[g].to = group[g].to
    BY <1>3, <2>1 DEF PoolLoopInv, PoolInv, Types, GroupType
  <2>5. group[g].ctr >= group[g].to /\ \A p : ~Works(p, g)
    BY <1>1, <1>2, <1>3, <2>1, <2>3, CountedDown DEF Preparing
  <2>6. RanType' /\ CallersInv' /\ InnerInv'
    BY <1>1, <1>2, <2>1, <2>3, CallerReturns DEF Caller
  <2>7. \A e \in Groups : e # g /\ IsSliceTask(e) => LoopOK(e)'
    BY <1>1, <2>3, <2>4, OtherLoops DEF LoopOK
  <2>8. TasksOK'
    BY <1>1, <1>2, <1>3, <2>3, <2>4, OtherTasks, TaskGroups DEF TasksOK
  <2>9. LoopOK(g)'
    <3>1. Owns(x, g) /\ OwnerInv(x)
      BY <1>2, <1>3, <2>3 DEF PoolLoopInv, LoopInv, Owns
    <3>2. (\A p : ~Owns(p, g)') /\ (\A p : ~Works(p, g)')
      BY <1>3, <2>3, <2>5, <3>1 DEF OwnerInv, Owns, Works
    <3>3. QED
      BY <2>4, <2>5, <3>2 DEF LoopOK, SliceInv
  <2>10. QED
    BY <1>3, <2>6, <2>7, <2>8, <2>9, WaitPool, AllLoops DEF PoolLoopInv
<1>6. QED
  BY <1>4, <1>5

-----------------------------------------------------------------------------
(* The tasks: children of parallel, and those that are enqueued *)

\* A thread in a loop, or on its way into it, is there after the loop was described.
LEMMA NoneEarly ==
  ASSUME PoolLoopInv, NEW x \in Places, frames[x].role \in {"owner", "helper"}, frames[x].pc \notin Preparing,
         NEW g, g = frames[x].group
  PROVE  \A p : Owns(p, g) => p \in Places /\ frames[p].pc \notin Preparing /\ OwnerInv(p)
<1>1. SUFFICES ASSUME NEW p, Owns(p, g)
               PROVE  p \in Places /\ frames[p].pc \notin Preparing /\ OwnerInv(p)
  OBVIOUS
<1>2. p \in Places /\ OwnerInv(p) /\ frames[p].group = g
  BY <1>1 DEF Owns, PoolLoopInv, LoopInv
<1>3. CASE frames[x].role = "owner"
  BY <1>2, <1>3 DEF OwnerInv, Owns
<1>4. CASE frames[x].role = "helper"
  <2>1. Holds(x, g)
    BY <1>4 DEF Holds
  <2>2. QED
    BY <1>2, <2>1 DEF OwnerInv
<1>5. QED
  BY <1>3, <1>4

\* Who works on a loop that is open.
LEMMA Worker ==
  ASSUME PoolLoopInv, NEW x \in Places, NEW g \in Groups, IsSliceTask(g), g = frames[x].group,
         \/ Works(x, g)
         \/ frames[x].role = "owner" /\ frames[x].pc \notin Preparing
         \/ frames[x].role = "helper" /\ group[g].ctr < group[g].to
  PROVE  \E y \in Places : /\ Owns(y, g) /\ OwnerInv(y) /\ frames[y].pc \notin Preparing /\ frames[y].group = g
                           /\ frames[y].call \in Calls \ returned /\ Kind(frames[y].call) = "for"
                           /\ ~Unstarted(frames[y].call)
                           /\ Size(frames[y].call) \in Nat
                           /\ Items[frames[y].call] = 0..(Size(frames[y].call) - 1)
<1>1. group[g].ctr \in Nat /\ group[g].to \in Nat /\ SliceInv(g)
  BY DEF PoolLoopInv, PoolInv, Types, GroupType, LoopInv
<1>2. Open(g)
  <2>1. CASE Works(x, g)
    BY <1>1, <2>1 DEF SliceInv
  <2>2. CASE frames[x].role = "owner" /\ frames[x].pc \notin Preparing
    BY <2>2 DEF Open, Owns
  <2>3. CASE frames[x].role = "helper" /\ group[g].ctr < group[g].to
    <3>1. Holds(x, g)
      BY <2>3 DEF Holds
    <3>2. QED
      BY <1>1, <2>3, <3>1 DEF SliceInv
  <2>4. QED
    BY <2>1, <2>2, <2>3
<1>3. PICK y \in Places : Owns(y, g) /\ frames[y].pc \notin Preparing
  BY <1>2 DEF Open
<1>4. OwnerInv(y) /\ Caller(y) /\ frames[y].role = "owner" /\ frames[y].group = g
  BY <1>3 DEF PoolLoopInv, LoopInv, Caller, Owns
<1>5. /\ frames[y].call \in Calls \ returned /\ Kind(frames[y].call) = "for" /\ ~Unstarted(frames[y].call)
  BY <1>4 DEF PoolLoopInv, LoopInv, CallersInv, KindOf, Roles
<1>6. QED
  BY <1>3, <1>4, <1>5, ForCalls

\* A child of parallel, or an asynchronous task, as the one thread that has it
\* finds it.
\* ChildInv and AsyncInv, when the frame at place x has the group
ChildAt(x, w) ==
  LET g == Child(w)
      c == frames[<<0, 1>>].call
  IN  /\ group[g].func = c /\ group[g].to = 1
      /\ group[g].remaining = IF group[g].ctr = 0 \/ frames[x].pc \in {"run", "done"} THEN 1 ELSE 0
      /\ ran[c][w] = IF group[g].ctr = 0 \/ frames[x].pc = "run" THEN 0 ELSE 1
      /\ frames[x].pc \in {"run", "done"} => group[g].ctr > 0
TaskAt(x, k) ==
  /\ group[Async(k)].func = <<k>> /\ Kind(<<k>>) = "async" /\ frames[x].pc # "step"
  /\ frames[x].pc = "run" => ran[<<k>>][0] = 0 /\ frames[x].work[2] = 0

\* Who has a child of parallel is the only one that has it, and the caller waits.
HoldsChild ==
  \A w \in Workers : \A q : PoolInv /\ Holds(q, Child(w)) =>
    /\ ChildInv(w) <=> ChildAt(q, w)
    /\ Active(w) /\ <<0, 1>> \in Places /\ frames[<<0, 1>>].role = "parent"
    /\ \A p : Holds(p, Child(w)) => p = q
    /\ \A u \in Threads \ {0} : queue[u][Child(w)] = 0

LEMMA ChildIs == HoldsChild
<1> SUFFICES ASSUME NEW w \in Workers, NEW x, PoolInv, Holds(x, Child(w))
             PROVE  /\ ChildInv(w) <=> ChildAt(x, w)
                    /\ Active(w) /\ <<0, 1>> \in Places /\ frames[<<0, 1>>].role = "parent"
                    /\ \A p : Holds(p, Child(w)) => p = x
                    /\ \A u \in Threads \ {0} : queue[u][Child(w)] = 0
  BY DEF HoldsChild
<1>1. PICK g \in Groups : g = Child(w) /\ ~IsSliceTask(g) /\ g[1] = "child" /\ g[2] = w
  BY TaskGroups
<1>2. x \in Places /\ InUse(g) /\ OneUser(g) /\ Alive(g)
  BY <1>1 DEF Holds, InUse, PoolInv, TaskInv
<1>3. Active(w) /\ <<0, 1>> \in Places /\ frames[<<0, 1>>].role = "parent"
  BY <1>1, <1>2 DEF Alive, Active
<1>4. /\ \A p : Holds(p, g) => p = x
      /\ \A t \in Threads \ {0} : queue[t][g] = 0
  <2>1. \A p : Holds(p, g) => p \in Places
    BY DEF Holds
  <2>2. QED
    BY <1>1, <1>2, <2>1 DEF OneUser
<1>5. /\ (\E p \in Places : Holds(p, g) /\ frames[p].pc \in {"run", "done"}) <=> frames[x].pc \in {"run", "done"}
      /\ (\E p \in Places : Holds(p, g) /\ frames[p].pc \in {"run"}) <=> frames[x].pc \in {"run"}
  BY <1>1, <1>2, <1>4
<1>6. ChildInv(w) <=> ChildAt(x, w)
  <2>1. ChildInv(w) <=>
         /\ group[g].func = frames[<<0, 1>>].call /\ group[g].to = 1
         /\ group[g].remaining = IF group[g].ctr = 0 \/ frames[x].pc \in {"run", "done"} THEN 1 ELSE 0
         /\ ran[frames[<<0, 1>>].call][w] = IF group[g].ctr = 0 \/ frames[x].pc \in {"run"} THEN 0 ELSE 1
         /\ frames[x].pc \in {"run", "done"} => group[g].ctr > 0
    BY <1>1, <1>3, <1>4, <1>5 DEF ChildInv
  <2>2. QED
    BY <1>1, <2>1 DEF ChildAt
<1>7. QED
  BY <1>1, <1>3, <1>4, <1>6

\* Who has an enqueued task is the only one that has it.
HoldsTask ==
  \A k \in 1..Len(Program) : \A q : PoolInv /\ Holds(q, Async(k)) =>
    /\ AsyncInv(k) <=> TaskAt(q, k)
    /\ k < next
    /\ \A p : Holds(p, Async(k)) => p = q
    /\ \A u \in Threads \ {0} : queue[u][Async(k)] = 0

LEMMA TaskIs == HoldsTask
<1> SUFFICES ASSUME NEW k \in 1..Len(Program), NEW x, PoolInv, Holds(x, Async(k))
             PROVE  /\ AsyncInv(k) <=> TaskAt(x, k)
                    /\ k < next
                    /\ \A p : Holds(p, Async(k)) => p = x
                    /\ \A u \in Threads \ {0} : queue[u][Async(k)] = 0
  BY DEF HoldsTask
<1>1. PICK g \in Groups : g = Async(k) /\ ~IsSliceTask(g) /\ g[1] = "async" /\ g[2] = k
  BY TaskGroups
<1>2. x \in Places /\ InUse(g) /\ OneUser(g) /\ Alive(g)
  BY <1>1 DEF Holds, InUse, PoolInv, TaskInv
<1>3. /\ \A p : Holds(p, g) => p = x
      /\ \A t \in Threads \ {0} : queue[t][g] = 0
  <2>1. \A p : Holds(p, g) => p \in Places
    BY DEF Holds
  <2>2. QED
    BY <1>1, <1>2, <2>1 DEF OneUser
<1>4. AsyncInv(k) <=> TaskAt(x, k)
  BY <1>1, <1>2, <1>3 DEF AsyncInv, TaskAt
<1>5. QED
  BY <1>1, <1>2, <1>3, <1>4 DEF Alive

\* A step within a task.
LEMMA OnTask ==
  ASSUME PoolLoopInv, PoolInv', NEW t \in Threads, stack[t] # <<>>, NEW f \in FrameType, Set(t, f),
         f.role = Top(t).role, f.group = Top(t).group, f.call = Top(t).call,
         f.role = "helper", f.pc # "inner", Top(t).pc # "inner",
         ran' = ran, next' = next, returned' = returned,
         NEW g \in Groups, g = Top(t).group, ~IsSliceTask(g),
         \A e \in Groups : e # g =>
           group'[e] = group[e] /\ \A u \in Threads \ {0} : queue'[u][e] = queue[u][e],
         NEW x, x = TopPlace(t),
         \A w \in Workers : g = Child(w) => ChildAt(x, w)',
         \A k \in 1..Len(Program) : g = Async(k) => TaskAt(x, k)'
  PROVE  LoopInv'
<1>1. /\ RanType' /\ CallersInv' /\ InnerInv'
      /\ \A e \in Groups : e # g /\ IsSliceTask(e) => LoopOK(e)'
      /\ \A w \in Workers : Child(w) # g => ChildInv(w)'
      /\ \A k \in 1..Len(Program) : Async(k) # g => AsyncInv(k)'
  BY Stays
<1>2. x \in Places' /\ frames'[x] = f
  BY AfterSet DEF PoolLoopInv
<1>3. Holds(x, g)'
  BY <1>2 DEF Holds
<1>4. \A w \in Workers : g = Child(w) => ChildInv(w)'
  <2>1. HoldsChild'
    BY ChildIs, PTL
  <2>2. QED
    BY <1>3, <2>1 DEF HoldsChild
<1>5. \A k \in 1..Len(Program) : g = Async(k) => AsyncInv(k)'
  <2>1. HoldsTask'
    BY TaskIs, PTL
  <2>2. QED
    BY <1>3, <2>1 DEF HoldsTask
<1>6. TasksOK'
  BY <1>1, <1>4, <1>5 DEF TasksOK
<1>7. QED
  BY <1>1, <1>6, AllLoops

-----------------------------------------------------------------------------
(* The steps in ExecuteLoop *)

\* A thread that works on a loop, or is about to, and what the loop is then.
LEMMA StepLoop ==
  ASSUME PoolLoopInv, NEW t \in Threads, Step(t) PROVE LoopInv'
<1>1. PICK g \in Groups : g = Top(t).group
  BY TopIs DEF Step, At, PoolLoopInv
<1>2. PICK n \in Nat : n = group[g].ctr
  BY DEF PoolLoopInv, PoolInv, Types, GroupType
<1> DEFINE f == IF n < group[g].to THEN [Top(t) EXCEPT !.pc = "run", !.work[2] = n]
                ELSE [Top(t) EXCEPT !.pc = "end"]
<1>3. /\ stack[t] # <<>> /\ Top(t).pc = "step" /\ Set(t, f) /\ queue' = queue
      /\ ran' = ran /\ next' = next /\ returned' = returned
      /\ group' = [group EXCEPT ![g].ctr = n + 1]
  BY <1>1, <1>2 DEF Step, At, Claimed
<1>4. /\ Top(t) \in FrameType /\ Top(t).role \in {"owner", "helper"}
      /\ Top(t).role = "owner" => IsSliceTask(g)
  BY <1>1, <1>3, RoleOfPc, TopIs DEF PoolLoopInv, OwnerPcs, HelperPcs
<1>5. /\ f \in FrameType /\ f.role = Top(t).role /\ f.group = g /\ f.call = Top(t).call
      /\ n < group[g].to => f.pc = "run" /\ f.work[2] = n
      /\ ~(n < group[g].to) => f.pc = "end"
  <2>1. [Top(t).work EXCEPT ![2] = n] \in AnyCall \X Nat /\ [Top(t).work EXCEPT ![2] = n][2] = n
    BY <1>4, WorkOf DEF FrameType
  <2>2. QED
    BY <1>1, <1>4, <2>1 DEF FrameType, Pcs
<1>6. PICK x \in Places : x = TopPlace(t)
  BY <1>3, TopIs DEF PoolLoopInv
<1> HIDE DEF f
<1>7. /\ Places' = Places /\ frames[x] = Top(t) /\ frames'[x] = f
      /\ \A p \in Places : p # x => frames'[p] = frames[p]
  BY <1>3, <1>5, <1>6, AfterSet DEF PoolLoopInv
<1>8. /\ \A e \in Groups : e # g => group'[e] = group[e]
      /\ group'[g].ctr = n + 1 /\ group'[g].to = group[g].to /\ group'[g].func = group[g].func
      /\ group'[g].remaining = group[g].remaining
  BY <1>3 DEF PoolLoopInv, PoolInv, Types, GroupType
<1>9. PoolInv'
  BY StepPool DEF PoolLoopInv
<1>10. group[g].to \in Nat
  BY DEF PoolLoopInv, PoolInv, Types, GroupType
<1>11. CASE IsSliceTask(g) /\ ~(n < group[g].to)
  <2>1. ~(\E p \in Places : Owns(p, g) /\ frames[p].pc \in Preparing)
    BY <1>1, <1>3, <1>4, <1>7, NoneEarly DEF Preparing
  <2>2. QED
    BY <1>1, <1>2, <1>3, <1>4, <1>5, <1>8, <1>9, <1>10, <1>11, <2>1, SliceGoesOn DEF Preparing
<1>12. CASE IsSliceTask(g) /\ n < group[g].to
  <2>1. PICK y \in Places :
          /\ Owns(y, g) /\ OwnerInv(y) /\ frames[y].pc \notin Preparing /\ frames[y].group = g
          /\ frames[y].call \in Calls \ returned /\ Kind(frames[y].call) = "for"
          /\ ~Unstarted(frames[y].call)
          /\ Size(frames[y].call) \in Nat
          /\ Items[frames[y].call] = 0..(Size(frames[y].call) - 1)
    BY <1>1, <1>2, <1>3, <1>4, <1>7, <1>12, Worker DEF Preparing
  <2>2. /\ \A p : Owns(p, g)' <=> Owns(p, g)
        /\ \A p : Holds(p, g)' <=> Holds(p, g)
        /\ \A p : Works(p, g)' <=> Works(p, g) \/ p = x
        /\ \A p : Works(p, g) => p # x /\ p \in Places
    BY <1>1, <1>3, <1>4, <1>5, <1>7, <1>12 DEF Owns, Holds, Works
  <2>3. \A p, i : Claims(p, g, i)' <=> Claims(p, g, i) \/ (p = x /\ i = n)
    BY <1>5, <1>7, <1>12, <2>2 DEF Claims
  <2>4. \A p, i : Claims(p, g, i) => p # x /\ p \in Places
    BY <2>2 DEF Claims
  <2>5. \A i : Unrun(g, i)' <=> Unrun(g, i) \/ i = n
    <3>1. SUFFICES ASSUME NEW i PROVE Unrun(g, i)' <=> Unrun(g, i) \/ i = n
      OBVIOUS
    <3>2. Unrun(g, i)' <=> \E p \in Places : Claims(p, g, i)' /\ frames'[p].pc = "run"
      BY <1>7 DEF Unrun
    <3>3. QED
      BY <1>5, <1>7, <1>12, <2>3, <2>4, <3>2 DEF Unrun
  <2>6. Pending(g)' = Pending(g)
    <3>1. \A i : (\E p \in Places' : Claims(p, g, i)') <=> (\E p \in Places : Claims(p, g, i)) \/ i = n
      BY <1>7, <2>3
    <3>2. \A i \in 0..(group[g].to - 1) : i >= n + 1 \/ i = n <=> i >= n
      BY <1>10
    <3>3. QED
      BY <1>2, <1>7, <1>8, <3>1, <3>2 DEF Pending
  <2>7. Open(g)' /\ Open(g)
    <3>1. Owns(y, g)' /\ frames'[y].pc \notin Preparing /\ y \in Places'
      BY <1>5, <1>7, <1>12, <2>1, <2>2 DEF Preparing
    <3>2. QED
      BY <2>1, <3>1 DEF Open
  <2>8. SliceInv(g)
    BY <1>12 DEF PoolLoopInv, LoopInv
  <2>9. \A p : Works(p, g) => /\ frames[p].work[2] \in Nat /\ frames[p].work[2] < n /\ frames'[p] = frames[p]
                              /\ frames[p].work[2] < group[g].to
    BY <1>2, <1>7, <2>2, <2>8, FramesTyped DEF SliceInv, PoolLoopInv, PoolInv, Types, FrameType
  <2>10. SliceInv(g)'
    <3>1. ASSUME NEW p \in Places', Works(p, g)'
          PROVE  /\ Open(g)' /\ frames'[p].work[2] < group'[g].ctr /\ frames'[p].work[2] < group'[g].to
                 /\ frames'[p].pc # "run" => frames'[p].work[1] = group'[g].func
                 /\ frames'[p].pc = "inner" => HasNested(group'[g].func)
      <4>1. CASE p = x
        BY <1>5, <1>7, <1>8, <1>12, <2>7, <4>1
      <4>2. CASE Works(p, g)
        BY <1>8, <2>2, <2>7, <2>8, <2>9, <4>2 DEF SliceInv
      <4>3. QED
        BY <2>2, <3>1, <4>1, <4>2
    <3>2. ASSUME NEW p \in Places', NEW q \in Places', Works(p, g)', Works(q, g)',
                 frames'[p].work[2] = frames'[q].work[2]
          PROVE  p = q
      <4>1. frames'[x].work[2] = n
        BY <1>5, <1>7, <1>12
      <4>2. QED
        BY <2>2, <2>8, <2>9, <3>2, <4>1 DEF SliceInv
    <3>3. QED
      BY <2>7, <3>1, <3>2 DEF SliceInv
  <2>11. ASSUME NEW p \in Places', Owns(p, g)' PROVE OwnerInv(p)'
    <3>1. p = y /\ frames'[y].group = g /\ frames'[y].call = frames[y].call /\ frames'[y].pc \notin Preparing
      BY <1>1, <1>5, <1>7, <1>12, <2>1, <2>2, <2>11 DEF OwnerInv, Owns, Preparing
    <3>2. PICK c \in Calls : c = frames[y].call /\ Items[c] = 0..(Size(c) - 1) /\ Size(c) \in Nat
      BY <2>1
    <3>3. \A q \in Places' : Owns(q, g)' => q = y
      BY <1>7, <2>1, <2>2 DEF OwnerInv
    <3>4. /\ group'[g].func = c /\ group'[g].to = Size(c)
          /\ group'[g].remaining = Cardinality(Pending(g)')
      BY <1>8, <2>1, <2>6, <3>2 DEF OwnerInv
    <3>5. \A i \in Items[c] : ran'[c][i] = IF i >= group'[g].ctr \/ Unrun(g, i)' THEN 0 ELSE 1
      <4>1. \A i \in Items[c] : i >= n + 1 \/ i = n <=> i >= n
        BY <3>2
      <4>2. \A i \in Items[c] : ran[c][i] = IF i >= n \/ Unrun(g, i) THEN 0 ELSE 1
        BY <1>2, <2>1, <3>2 DEF OwnerInv
      <4>3. QED
        BY <1>3, <1>8, <2>5, <4>1, <4>2
    <3>6. QED
      BY <3>1, <3>2, <3>3, <3>4, <3>5 DEF OwnerInv
  <2>12. LoopOK(g)'
    BY <2>10, <2>11 DEF LoopOK
  <2>13. QED
    BY <1>1, <1>3, <1>4, <1>5, <1>8, <1>9, <1>12, <2>12, OnSlice
<1>13. CASE ~IsSliceTask(g)
  <2>1. Top(t).role = "helper" /\ Holds(x, g)
    BY <1>1, <1>4, <1>7, <1>13 DEF Holds
  <2>2. ASSUME NEW w \in Workers, g = Child(w) PROVE ChildAt(x, w)'
    <3>1. ChildAt(x, w) /\ <<0, 1>> \in Places /\ frames[<<0, 1>>].role = "parent"
      BY <2>1, <2>2, ChildIs DEF HoldsChild, PoolLoopInv, LoopInv
    <3>2. frames'[<<0, 1>>] = frames[<<0, 1>>]
      BY <1>7, <2>1, <3>1
    <3>3. QED
      BY <1>2, <1>3, <1>5, <1>7, <1>8, <2>2, <3>1, <3>2 DEF ChildAt
  <2>3. ASSUME NEW k \in 1..Len(Program), g = Async(k) PROVE FALSE
    <3>1. TaskAt(x, k)
      BY <2>1, <2>3, TaskIs DEF HoldsTask, PoolLoopInv, LoopInv
    <3>2. QED
      BY <1>3, <1>7, <3>1 DEF TaskAt
  <2>4. QED
    BY <1>1, <1>3, <1>5, <1>6, <1>8, <1>9, <1>13, <2>1, <2>2, <2>3, OnTask
<1>14. QED
  BY <1>11, <1>12, <1>13

LEMMA EndOfTaskLoop ==
  ASSUME PoolLoopInv, NEW t \in Threads, EndOfTask(t) PROVE LoopInv'
<1> DEFINE f == [Top(t) EXCEPT !.pc = "self"]
<1>1. PICK g \in Groups : g = Top(t).group
  BY TopIs DEF EndOfTask, At, PoolLoopInv
<1>2. /\ stack[t] # <<>> /\ Top(t).pc = "end" /\ Set(t, f) /\ queue' = queue /\ ~IsSliceTask(g)
      /\ ran' = ran /\ next' = next /\ returned' = returned
      /\ group' = [group EXCEPT ![g].inTaskQueue = FALSE]
  BY <1>1 DEF EndOfTask, At, Goto
<1>3. Top(t) \in FrameType /\ Top(t).role = "helper"
  BY <1>1, <1>2, RoleOfPc, TopIs DEF PoolLoopInv, OwnerPcs, HelperPcs
<1>4. /\ f \in FrameType /\ f.role = "helper" /\ f.group = g /\ f.call = Top(t).call /\ f.pc = "self"
  BY <1>1, <1>3 DEF FrameType, Pcs
<1>5. PICK x \in Places : x = TopPlace(t)
  BY <1>2, TopIs DEF PoolLoopInv
<1> HIDE DEF f
<1>6. /\ Places' = Places /\ frames[x] = Top(t) /\ frames'[x] = f
      /\ \A p \in Places : p # x => frames'[p] = frames[p]
  BY <1>2, <1>4, <1>5, AfterSet DEF PoolLoopInv
<1>7. /\ \A e \in Groups : e # g => group'[e] = group[e]
      /\ group'[g].ctr = group[g].ctr /\ group'[g].to = group[g].to /\ group'[g].func = group[g].func
      /\ group'[g].remaining = group[g].remaining
  BY <1>2 DEF PoolLoopInv, PoolInv, Types, GroupType
<1>8. Holds(x, g)
  BY <1>1, <1>3, <1>6 DEF Holds
<1>9. ASSUME NEW w \in Workers, g = Child(w) PROVE ChildAt(x, w)'
  <2>1. ChildAt(x, w) /\ <<0, 1>> \in Places /\ frames[<<0, 1>>].role = "parent"
    BY <1>8, <1>9, ChildIs DEF HoldsChild, PoolLoopInv, LoopInv
  <2>2. frames'[<<0, 1>>] = frames[<<0, 1>>]
    BY <1>3, <1>6, <2>1
  <2>3. QED
    BY <1>2, <1>4, <1>6, <1>7, <1>9, <2>1, <2>2 DEF ChildAt
<1>10. ASSUME NEW k \in 1..Len(Program), g = Async(k) PROVE TaskAt(x, k)'
  <2>1. TaskAt(x, k)
    BY <1>8, <1>10, TaskIs DEF HoldsTask, PoolLoopInv, LoopInv
  <2>2. QED
    BY <1>4, <1>6, <1>7, <1>10, <2>1 DEF TaskAt
<1>11. QED
  BY <1>1, <1>2, <1>3, <1>4, <1>5, <1>7, <1>9, <1>10, EndOfTaskPool, OnTask DEF PoolLoopInv

\* The end of a task: nobody has it any more.
LEMMA SelfDeleteLoop ==
  ASSUME PoolLoopInv, NEW t \in Threads, SelfDelete(t) PROVE LoopInv'
<1>1. /\ stack[t] # <<>> /\ Top(t).pc = "self" /\ Pop(t) /\ queue' = queue
      /\ ran' = ran /\ next' = next /\ returned' = returned
  BY DEF SelfDelete, At
<1>2. PICK g \in Groups : g = Top(t).group
  BY <1>1, TopIs DEF PoolLoopInv
<1>3. group' = [group EXCEPT ![g].execLoopDone = TRUE, ![g].deleted = (g[1] = "async")]
  BY <1>2 DEF SelfDelete
<1>4. Top(t).role = "helper" /\ ~IsSliceTask(g)
  BY <1>1, <1>2, RoleOfPc DEF PoolLoopInv
<1>5. PICK x : x = TopPlace(t)
  OBVIOUS
<1>6. /\ Stacks' /\ x \in Places /\ Places' = Places \ {x} /\ frames[x] = Top(t)
      /\ \A p \in Places' : frames'[p] = frames[p]
      /\ Changes(x, g)
  BY <1>1, <1>2, <1>5, AfterPop
<1>7. /\ \A e \in Groups : e # g => group'[e] = group[e]
      /\ group'[g].ctr = group[g].ctr /\ group'[g].to = group[g].to /\ group'[g].func = group[g].func
      /\ group'[g].remaining = group[g].remaining
  BY <1>3 DEF PoolLoopInv, PoolInv, Types, GroupType
<1>8. RanType' /\ CallersInv' /\ InnerInv'
  BY <1>1, <1>4, <1>6, SameCallers DEF InnerInv
<1>9. \A e \in Groups : IsSliceTask(e) => LoopOK(e)'
  BY <1>1, <1>4, <1>6, <1>7, OtherLoops DEF LoopOK
<1>10. /\ \A w \in Workers : Child(w) # g => ChildInv(w)'
       /\ \A k \in 1..Len(Program) : Async(k) # g => AsyncInv(k)'
  BY <1>1, <1>2, <1>4, <1>6, <1>7, OtherTasks
<1>11. Holds(x, g) /\ OneUser(g)
  BY <1>2, <1>4, <1>6 DEF Holds, PoolLoopInv, PoolInv, TaskInv
<1>12. (\A p : ~Holds(p, g)') /\ \A u \in Threads \ {0} : queue'[u][g] = 0
  <2>1. \A u \in Threads \ {0} : queue'[u][g] = 0
    BY <1>1, <1>6, <1>11 DEF OneUser
  <2>2. \A p : Holds(p, g)' => Holds(p, g) /\ p # x /\ p \in Places
    BY <1>6 DEF Holds
  <2>3. QED
    BY <1>6, <1>11, <2>1, <2>2 DEF OneUser
<1>13. ASSUME NEW w \in Workers, g = Child(w) PROVE ChildInv(w)'
  <2>1. ChildAt(x, w) /\ Active(w) /\ <<0, 1>> \in Places /\ frames[<<0, 1>>].role = "parent"
    BY <1>11, <1>13, ChildIs DEF HoldsChild, PoolLoopInv, LoopInv
  <2>2. frames'[<<0, 1>>] = frames[<<0, 1>>] /\ <<0, 1>> \in Places'
    BY <1>4, <1>6, <2>1
  <2>3. Active(w)'
    BY <2>1, <2>2 DEF Active
  <2>4. QED
    BY <1>1, <1>6, <1>7, <1>12, <1>13, <2>1, <2>2, <2>3 DEF ChildInv, ChildAt
<1>14. ASSUME NEW k \in 1..Len(Program), g = Async(k) PROVE AsyncInv(k)'
  BY <1>12, <1>14 DEF AsyncInv, InUse
<1>15. TasksOK'
  BY <1>10, <1>13, <1>14 DEF TasksOK
<1>16. QED
  BY <1>8, <1>9, <1>15, SelfDeletePool, AllLoops DEF PoolLoopInv

\* A loop within a loop is that of one of its items.
LEMMA NestedCalls ==
  /\ \A c \in Calls : Len(c) = 2 => /\ <<c[1]>> \in Calls /\ c[2] \in Items[<<c[1]>>] /\ c = <<c[1], c[2]>>
                                    /\ HasNested(<<c[1]>>)
  /\ \A c \in Calls : Len(c) \in {1, 2} /\ c[1] \in 1..Len(Program) /\ (Len(c) = 1 => c = <<c[1]>>)
  /\ \A c \in Calls : HasNested(c) => Kind(c) = "for" /\ \A i \in Items[c] : <<c[1], i>> \in Calls
  /\ \A k \in 1..Len(Program) : <<k>> \in Calls /\ Len(<<k>>) = 1 /\ <<k>>[1] = k
  /\ \A c \in Calls : Len(c) = 2 => Kind(c) = "for"
<1>1. \A k \in 1..Len(Program) : Program[k].inner > 0 => Program[k].kind = "for" /\ Program[k].inner \in Nat
  BY ProgramIs
<1>2. /\ \A k \in 1..Len(Program) : <<k>> \in Calls /\ Len(<<k>>) = 1 /\ <<k>>[1] = k
      /\ \A k, i : Len(<<k, i>>) = 2 /\ <<k, i>>[1] = k /\ <<k, i>>[2] = i
  BY DEF Calls
<1>3. \A c \in Calls : \/ \E k \in 1..Len(Program) : c = <<k>>
                       \/ \E k \in 1..Len(Program) : /\ Program[k].inner > 0
                                                     /\ \E i \in 0..(Program[k].size - 1) : c = <<k, i>>
  BY DEF Calls
<1>4. \A k \in 1..Len(Program) : Program[k].inner > 0 =>
        /\ Kind(<<k>>) = "for" /\ HasNested(<<k>>) /\ Size(<<k>>) = Program[k].size
        /\ Items[<<k>>] = 0..(Program[k].size - 1)
        /\ \A i \in 0..(Program[k].size - 1) : <<k, i>> \in Calls
  <2>1. SUFFICES ASSUME NEW k \in 1..Len(Program), Program[k].inner > 0
                 PROVE  /\ Kind(<<k>>) = "for" /\ HasNested(<<k>>) /\ Size(<<k>>) = Program[k].size
                        /\ Items[<<k>>] = 0..(Program[k].size - 1)
                        /\ \A i \in 0..(Program[k].size - 1) : <<k, i>> \in Calls
    OBVIOUS
  <2>2. Kind(<<k>>) = "for" /\ HasNested(<<k>>) /\ Size(<<k>>) = Program[k].size
    BY <1>1, <1>2, <2>1 DEF Kind, HasNested, Size
  <2>3. Items[<<k>>] = 0..(Program[k].size - 1)
    BY <1>2, <2>2 DEF Items
  <2>4. \A i \in 0..(Program[k].size - 1) : <<k, i>> \in Calls
    BY <2>1 DEF Calls
  <2>5. QED
    BY <2>2, <2>3, <2>4
<1>5. ASSUME NEW c \in Calls, Len(c) = 2
      PROVE  /\ <<c[1]>> \in Calls /\ c[2] \in Items[<<c[1]>>] /\ c = <<c[1], c[2]>>
             /\ HasNested(<<c[1]>>) /\ Kind(c) = "for" /\ c[1] \in 1..Len(Program)
  <2>1. PICK k \in 1..Len(Program) : /\ Program[k].inner > 0
                                     /\ \E i \in 0..(Program[k].size - 1) : c = <<k, i>>
    BY <1>2, <1>3, <1>5
  <2>2. PICK i \in 0..(Program[k].size - 1) : c = <<k, i>>
    BY <2>1
  <2>3. c[1] = k /\ c[2] = i
    BY <2>2
  <2>4. Kind(c) = "for"
    BY <1>1, <2>1, <2>3 DEF Kind
  <2>5. HasNested(<<k>>) /\ Items[<<k>>] = 0..(Program[k].size - 1)
    BY <1>4, <2>1
  <2>6. QED
    BY <1>2, <2>2, <2>3, <2>4, <2>5
<1>6. ASSUME NEW c \in Calls, Len(c) # 2
      PROVE  Len(c) = 1 /\ c[1] \in 1..Len(Program) /\ c = <<c[1]>>
  BY <1>2, <1>3, <1>6
<1>7. ASSUME NEW c \in Calls, HasNested(c)
      PROVE  Kind(c) = "for" /\ \A i \in Items[c] : <<c[1], i>> \in Calls
  <2>1. Len(c) = 1 /\ Program[c[1]].inner > 0 /\ c[1] \in 1..Len(Program) /\ c = <<c[1]>>
    BY <1>6, <1>7 DEF HasNested
  <2>2. QED
    BY <1>4, <2>1
<1>8. QED
  BY <1>2, <1>5, <1>6, <1>7

\* The item a thread is about to run: of a call that is under way, and not run before.
LEMMA RunIs ==
  ASSUME PoolLoopInv, NEW t \in Threads, stack[t] # <<>>, Top(t).pc = "run",
         NEW g, g = Top(t).group, NEW c, c = group[g].func, NEW i, i = RunItem(t)
  PROVE  /\ c \in Calls /\ i \in Items[c] /\ ran[c][i] = 0 /\ ~Unstarted(c)
         /\ Kind(c) # "async" => c \notin returned
         /\ IsSliceTask(g) => Kind(c) = "for" /\ i = Top(t).work[2]
         /\ \A w \in Workers : g = Child(w) => /\ Kind(c) = "parallel" /\ i = w /\ c = frames[<<0, 1>>].call
                                               /\ Top(t).role = "helper"
         /\ \A k \in 1..Len(Program) : g = Async(k) => Kind(c) = "async" /\ c = <<k>> /\ Top(t).role = "helper"
<1>1. PICK x \in Places : x = TopPlace(t) /\ frames[x] = Top(t) /\ frames[x] \in FrameType
  BY TopIs DEF PoolLoopInv
<1>2. g \in Groups /\ frames[x].group = g /\ frames[x].role \in {"owner", "helper"} /\ frames[x].pc = "run"
  BY <1>1, RoleOfPc, TopIs DEF PoolLoopInv, HelperPcs
<1>3. frames[x].role = "owner" => IsSliceTask(g)
  BY <1>1, RoleOfPc DEF PoolLoopInv
<1>4. CASE IsSliceTask(g)
  <2>1. Works(x, g) /\ SliceInv(g)
    BY <1>2, <1>4 DEF Works, PoolLoopInv, LoopInv
  <2>2. PICK y \in Places :
          /\ Owns(y, g) /\ OwnerInv(y) /\ frames[y].pc \notin Preparing /\ frames[y].group = g
          /\ frames[y].call \in Calls \ returned /\ Kind(frames[y].call) = "for"
          /\ ~Unstarted(frames[y].call)
          /\ Size(frames[y].call) \in Nat
          /\ Items[frames[y].call] = 0..(Size(frames[y].call) - 1)
    BY <1>2, <1>4, <2>1, Worker
  <2>3. c = frames[y].call /\ group[g].to = Size(c)
    BY <2>2 DEF OwnerInv
  <2>4. i = frames[x].work[2] /\ i \in Nat
    BY <1>1, <1>2, <2>2, <2>3 DEF RunItem, FrameType
  <2>5. i < group[g].to /\ Unrun(g, i)
    BY <1>2, <2>1, <2>4 DEF SliceInv, Unrun, Claims
  <2>6. i \in Items[c]
    BY <2>2, <2>3, <2>4, <2>5
  <2>7. ran[c][i] = 0
    BY <2>2, <2>3, <2>5, <2>6 DEF OwnerInv
  <2>8. QED
    BY <1>1, <1>4, <2>2, <2>3, <2>4, <2>6, <2>7, TaskGroups
<1>5. CASE ~IsSliceTask(g)
  <2>1. frames[x].role = "helper" /\ Holds(x, g)
    BY <1>2, <1>3, <1>5 DEF Holds
  <2>2. ASSUME NEW w \in Workers, g = Child(w)
        PROVE  /\ c \in Calls \ returned /\ i \in Items[c] /\ ran[c][i] = 0 /\ ~Unstarted(c)
               /\ Kind(c) = "parallel" /\ i = w /\ c = frames[<<0, 1>>].call
    <3>1. ChildAt(x, w) /\ <<0, 1>> \in Places /\ frames[<<0, 1>>].role = "parent"
      BY <2>1, <2>2, ChildIs DEF HoldsChild, PoolLoopInv, LoopInv
    <3>2. Caller(<<0, 1>>)
      BY <3>1 DEF Caller
    <3>3. c = frames[<<0, 1>>].call /\ ran[c][w] = 0
      BY <1>2, <2>2, <3>1 DEF ChildAt
    <3>4. c \in Calls \ returned /\ ~Unstarted(c) /\ Kind(c) = "parallel"
      BY <3>1, <3>2, <3>3 DEF PoolLoopInv, LoopInv, CallersInv, KindOf, Roles
    <3>5. Items[c] = Workers /\ i = w
      BY <1>1, <1>2, <2>2, <3>4, ForCalls, TaskGroups DEF RunItem
    <3>6. QED
      BY <3>3, <3>4, <3>5
  <2>3. ASSUME NEW k \in 1..Len(Program), g = Async(k)
        PROVE  /\ c \in Calls /\ i \in Items[c] /\ ran[c][i] = 0 /\ ~Unstarted(c)
               /\ Kind(c) = "async" /\ c = <<k>>
    <3>1. TaskAt(x, k) /\ k < next
      BY <2>1, <2>3, TaskIs DEF HoldsTask, PoolLoopInv, LoopInv
    <3>2. c = <<k>> /\ Kind(c) = "async" /\ ran[c][0] = 0 /\ frames[x].work[2] = 0
      BY <1>2, <2>3, <3>1 DEF TaskAt
    <3>3. c \in Calls /\ Len(c) = 1 /\ c[1] = k
      BY <3>2, NestedCalls
    <3>4. i = 0
      BY <1>1, <1>2, <2>3, <3>2 DEF RunItem
    <3>5. Items[c] = 0..(Size(c) - 1) /\ Size(c) = 1
      <4>1. Items[c] = 0..(Size(c) - 1)
        BY <3>2, <3>3, ForCalls
      <4>2. Program[k].kind = "async" => Program[k].size = 1
        BY ProgramIs
      <4>3. QED
        BY <3>2, <3>3, <4>1, <4>2 DEF Kind, Size
    <3>6. ~Unstarted(c)
      <4>1. next \in Int /\ k \in Int
        BY DEF PoolLoopInv, PoolInv, Types
      <4>2. QED
        BY <3>1, <3>3, <4>1 DEF Unstarted
    <3>7. QED
      BY <3>2, <3>3, <3>4, <3>5, <3>6
  <2>4. \/ \E w \in Workers : g = Child(w)
        \/ \E k \in 1..Len(Program) : g = Async(k)
    BY <1>2, <1>5, GroupsAre
  <2>5. (\A w \in Workers : g = Child(w) => \A k \in 1..Len(Program) : g # Async(k))
    BY TaskGroups
  <2>6. QED
    BY <1>1, <1>5, <2>1, <2>2, <2>3, <2>4, <2>5
<1>6. QED
  BY <1>4, <1>5

\* An item is run: the callers stay, and the loop within it is still to be started.
LEMMA ItemRuns ==
  ASSUME PoolLoopInv, NEW x \in Places, Places' = Places,
         \A p \in Places : p # x => frames'[p] = frames[p],
         frames'[x].role = frames[x].role, frames'[x].call = frames[x].call,
         frames[x].role # "owner" => frames[x].role = "helper",
         NEW c \in Calls, NEW i \in Items[c], ran[c][i] = 0, ~Unstarted(c),
         frames[x].pc # "inner",
         frames'[x].pc = "inner" => HasNested(c) /\ IsSliceTask(frames'[x].group),
         frames'[x].work = <<c, i>>,
         DOMAIN ran' = Calls, \A d \in Calls : d # c => ran'[d] = ran[d],
         ran'[c] \in [Items[c] -> {0, 1}], ran'[c][i] = 1,
         \A j \in Items[c] : j # i => ran'[c][j] = ran[c][j],
         next' = next, returned' = returned
  PROVE  RanType' /\ CallersInv' /\ InnerInv'
<1>1. RanType /\ CallersInv /\ InnerInv
  BY DEF PoolLoopInv, LoopInv, InnerInv
<1>2. RanType'
  BY <1>1 DEF RanType
<1>3. ASSUME NEW d \in Calls, Unstarted(d)' PROVE Unstarted(d)
  <2>1. CASE d[1] >= next
    BY <2>1 DEF Unstarted
  <2>2. CASE /\ Len(d) = 2 /\ <<d[1]>> \in Calls /\ d[2] \in Items[<<d[1]>>]
             /\ ran'[<<d[1]>>][d[2]] = 0
    <3>1. ~(<<d[1]>> = c /\ d[2] = i)
      BY <2>2
    <3>2. ran[<<d[1]>>][d[2]] = 0
      BY <2>2, <3>1
    <3>3. QED
      BY <2>2, <3>2 DEF Unstarted
  <2>3. CASE /\ Len(d) = 2
             /\ \E p \in Places' : frames'[p].pc = "inner" /\ frames'[p].work = <<<<d[1]>>, d[2]>>
    <3>1. PICK p \in Places : frames'[p].pc = "inner" /\ frames'[p].work = <<<<d[1]>>, d[2]>>
      BY <2>3
    <3>2. CASE p = x
      <4>1. c = <<d[1]>> /\ i = d[2]
        BY <3>1, <3>2
      <4>2. QED
        BY <2>3, <4>1 DEF Unstarted
    <3>3. CASE p # x
      BY <2>3, <3>1, <3>3 DEF Unstarted
    <3>4. QED
      BY <3>2, <3>3
  <2>4. QED
    BY <1>3, <2>1, <2>2, <2>3, NestedCalls DEF Unstarted
<1>4. \A p \in Places : frames'[p].role = frames[p].role /\ frames'[p].call = frames[p].call
  OBVIOUS
<1>5. ASSUME NEW p \in Places', Caller(p)'
      PROVE  (/\ frames[p].call \in Calls \ returned /\ ~Unstarted(frames[p].call)
              /\ Kind(frames[p].call) = KindOf[frames[p].role])'
  <2>1. p \in Places /\ Caller(p) /\ frames'[p].role = frames[p].role /\ frames'[p].call = frames[p].call
    BY <1>4, <1>5 DEF Caller
  <2>2. PICK d \in Calls : d = frames[p].call
    BY <1>1, <2>1 DEF CallersInv
  <2>3. d \notin returned /\ ~Unstarted(d) /\ Kind(d) = KindOf[frames[p].role]
    BY <1>1, <2>1, <2>2 DEF CallersInv
  <2>4. ~Unstarted(d)'
    BY <1>3, <2>3
  <2>5. ~Unstarted(frames[p].call)'
    BY <2>1, <2>2, <2>4 DEF Unstarted
  <2>6. QED
    BY <2>1, <2>2, <2>3, <2>5
<1>6. \A p, q \in Places' : Caller(p)' /\ Caller(q)' /\ frames'[p].call = frames'[q].call => p = q
  BY <1>1, <1>4 DEF CallersInv, Caller
<1>7. \A d \in Calls : Unstarted(d)' => d \notin returned' /\ \A j \in Items[d] : ran'[d][j] = 0
  <2>1. SUFFICES ASSUME NEW d \in Calls, Unstarted(d)'
                 PROVE  d \notin returned' /\ \A j \in Items[d] : ran'[d][j] = 0
    OBVIOUS
  <2>2. Unstarted(d) /\ d # c
    BY <1>3, <2>1
  <2>3. QED
    BY <1>1, <2>2 DEF CallersInv
<1>8. CallersInv'
  BY <1>5, <1>6, <1>7 DEF CallersInv
<1>9. QED
  BY <1>1, <1>2, <1>8 DEF InnerInv

\* An iteration is run,
LEMMA RunLoop ==
  ASSUME PoolLoopInv, NEW t \in Threads, Run(t) PROVE LoopInv'
<1>1. PICK g \in Groups : g = Top(t).group
  BY TopIs DEF Run, At, PoolLoopInv
<1>2. PICK c : c = group[g].func
  OBVIOUS
<1>3. PICK i : i = RunItem(t)
  OBVIOUS
<1> DEFINE f == [Top(t) EXCEPT !.pc = IF HasNested(c) THEN "inner" ELSE "done", !.work = <<c, i>>]
<1>4. /\ stack[t] # <<>> /\ Top(t).pc = "run" /\ Set(t, f) /\ queue' = queue /\ group' = group
      /\ next' = next /\ returned' = returned
      /\ ran' = [ran EXCEPT ![c][i] = ran[c][i] + 1]
  BY <1>1, <1>2, <1>3 DEF Run, At, RunItem
<1>5. /\ c \in Calls /\ i \in Items[c] /\ ran[c][i] = 0 /\ ~Unstarted(c)
      /\ IsSliceTask(g) => Kind(c) = "for" /\ i = Top(t).work[2]
      /\ \A w \in Workers : g = Child(w) => /\ Kind(c) = "parallel" /\ i = w /\ c = frames[<<0, 1>>].call
                                            /\ Top(t).role = "helper"
      /\ \A k \in 1..Len(Program) : g = Async(k) => Kind(c) = "async" /\ c = <<k>> /\ Top(t).role = "helper"
  BY <1>1, <1>2, <1>3, <1>4, RunIs
<1>6. /\ DOMAIN ran' = Calls /\ \A d \in Calls : d # c => ran'[d] = ran[d]
      /\ ran'[c] \in [Items[c] -> {0, 1}] /\ ran'[c][i] = 1
      /\ \A j \in Items[c] : j # i => ran'[c][j] = ran[c][j]
  <2>1. DOMAIN ran = Calls /\ ran[c] \in [Items[c] -> {0, 1}]
    BY <1>5 DEF PoolLoopInv, LoopInv, RanType
  <2>2. ran' = [ran EXCEPT ![c] = [ran[c] EXCEPT ![i] = 1]]
    BY <1>4, <1>5
  <2>3. DOMAIN ran' = Calls /\ ran'[c] = [ran[c] EXCEPT ![i] = 1] /\ \A d \in Calls : d # c => ran'[d] = ran[d]
    BY <1>5, <2>1, <2>2
  <2>4. QED
    BY <1>5, <2>1, <2>3
<1>7. /\ Top(t) \in FrameType /\ Top(t).role \in {"owner", "helper"}
      /\ Top(t).role = "owner" => IsSliceTask(g)
  BY <1>1, <1>4, RoleOfPc, TopIs DEF PoolLoopInv, OwnerPcs, HelperPcs
<1>8. HasNested(c) => IsSliceTask(g)
  BY <1>5, NestedCalls, GroupsAre
<1>9. /\ f \in FrameType /\ f.role = Top(t).role /\ f.group = g /\ f.call = Top(t).call
      /\ f.pc = IF HasNested(c) THEN "inner" ELSE "done"
      /\ f.work = <<c, i>>
  <2>1. c \in AnyCall /\ i \in Nat
    <3>1. \A w \in Workers : w \in Nat
      BY ThreadsAssumption DEF Workers
    <3>2. QED
      BY <1>5, <3>1, ForCalls
  <2>2. QED
    BY <1>1, <1>7, <2>1 DEF FrameType, Pcs
<1>10. PICK x \in Places : x = TopPlace(t)
  BY <1>4, TopIs DEF PoolLoopInv
<1> HIDE DEF f
<1>11. /\ Places' = Places /\ frames[x] = Top(t) /\ frames'[x] = f /\ Stacks'
       /\ \A p \in Places : p # x => frames'[p] = frames[p]
  BY <1>4, <1>9, <1>10, AfterSet DEF PoolLoopInv
<1>12. RanType' /\ CallersInv' /\ InnerInv'
  BY <1>1, <1>4, <1>5, <1>6, <1>7, <1>8, <1>9, <1>11, ItemRuns
<1>13. Changes(x, g)
  BY <1>1, <1>9, <1>11 DEF Changes
<1>14. ASSUME NEW p \in Places, frames[p].role = "owner", frames[p].group # g
       PROVE  ran'[frames[p].call] = ran[frames[p].call]
  <2>1. Caller(p) /\ frames[p].call \in Calls /\ Kind(frames[p].call) = "for" /\ CallersInv
    BY <1>14 DEF PoolLoopInv, LoopInv, CallersInv, Caller, KindOf, Roles
  <2>2. frames[p].call # c
    <3>1. CASE IsSliceTask(g)
      <4>1. Works(x, g)
        BY <1>1, <1>4, <1>7, <1>11 DEF Works
      <4>2. PICK y \in Places : Owns(y, g) /\ OwnerInv(y) /\ frames[y].pc \notin Preparing /\ frames[y].group = g
        BY <1>1, <1>11, <3>1, <4>1, Worker
      <4>3. frames[y].call = c /\ Caller(y)
        BY <1>2, <4>2 DEF OwnerInv, Owns, Caller
      <4>4. QED
        BY <1>14, <2>1, <4>2, <4>3 DEF CallersInv
    <3>2. CASE ~IsSliceTask(g)
      BY <1>5, <2>1, <3>2, GroupsAre
    <3>3. QED
      BY <3>1, <3>2
  <2>3. QED
    BY <1>6, <2>1, <2>2
<1>15. \A e \in Groups : e # g /\ IsSliceTask(e) => LoopOK(e)'
  BY <1>4, <1>11, <1>13, <1>14, OtherLoops DEF LoopOK
<1>16. ASSUME NEW w \in Workers, Child(w) # g, <<0, 1>> \in Places, frames[<<0, 1>>].role = "parent"
       PROVE  ran'[frames[<<0, 1>>].call][w] = ran[frames[<<0, 1>>].call][w]
  <2>1. Caller(<<0, 1>>)
    BY <1>16 DEF Caller
  <2>2. frames[<<0, 1>>].call \in Calls /\ Kind(frames[<<0, 1>>].call) = "parallel"
    BY <1>16, <2>1 DEF PoolLoopInv, LoopInv, CallersInv, KindOf, Roles
  <2>3. Items[frames[<<0, 1>>].call] = Workers
    BY <2>2, ForCalls
  <2>4. CASE \E v \in Workers : g = Child(v)
    BY <1>5, <1>6, <1>16, <2>2, <2>3, <2>4
  <2>5. CASE ~(\E v \in Workers : g = Child(v))
    BY <1>5, <1>6, <2>2, <2>5, GroupsAre
  <2>6. QED
    BY <2>4, <2>5
<1>17. ASSUME NEW k \in 1..Len(Program), Async(k) # g, InUse(Async(k)) PROVE ran'[<<k>>] = ran[<<k>>]
  <2>1. Kind(<<k>>) = "async" /\ <<k>> \in Calls
    BY <1>17, NestedCalls DEF PoolLoopInv, LoopInv, AsyncInv
  <2>2. CASE \E j \in 1..Len(Program) : g = Async(j)
    BY <1>5, <1>6, <1>17, <2>1, <2>2, NestedCalls
  <2>3. CASE ~(\E j \in 1..Len(Program) : g = Async(j))
    BY <1>5, <1>6, <2>1, <2>3, GroupsAre
  <2>4. QED
    BY <2>2, <2>3
<1>18. /\ \A w \in Workers : Child(w) # g => ChildInv(w)'
       /\ \A k \in 1..Len(Program) : Async(k) # g => AsyncInv(k)'
  BY <1>4, <1>7, <1>9, <1>11, <1>13, <1>16, <1>17, OtherTasks
<1>19. PoolInv'
  BY RunPool DEF PoolLoopInv
<1>20. ASSUME NEW w \in Workers, g = Child(w) PROVE ChildInv(w)'
  <2>1. Holds(x, g) /\ Holds(x, g)'
    BY <1>1, <1>5, <1>9, <1>11, <1>20 DEF Holds
  <2>2. ChildAt(x, w) /\ <<0, 1>> \in Places /\ frames[<<0, 1>>].role = "parent"
    BY <1>20, <2>1, ChildIs DEF HoldsChild, PoolLoopInv, LoopInv
  <2>3. frames'[<<0, 1>>] = frames[<<0, 1>>]
    BY <1>5, <1>11, <1>20, <2>2
  <2>4. f.pc = "done"
    BY <1>8, <1>9, <1>20, TaskGroups
  <2>5. ChildAt(x, w)'
    BY <1>4, <1>5, <1>6, <1>11, <1>20, <2>2, <2>3, <2>4 DEF ChildAt
  <2>6. HoldsChild'
    BY ChildIs, PTL
  <2>7. QED
    BY <1>19, <1>20, <2>1, <2>5, <2>6 DEF HoldsChild
<1>21. ASSUME NEW k \in 1..Len(Program), g = Async(k) PROVE AsyncInv(k)'
  <2>1. Holds(x, g) /\ Holds(x, g)'
    BY <1>1, <1>5, <1>9, <1>11, <1>21 DEF Holds
  <2>2. TaskAt(x, k)
    BY <1>21, <2>1, TaskIs DEF HoldsTask, PoolLoopInv, LoopInv
  <2>4. f.pc = "done"
    BY <1>8, <1>9, <1>21, TaskGroups
  <2>5. TaskAt(x, k)'
    BY <1>4, <1>11, <2>2, <2>4 DEF TaskAt
  <2>6. HoldsTask'
    BY TaskIs, PTL
  <2>7. QED
    BY <1>19, <1>21, <2>1, <2>5, <2>6 DEF HoldsTask
<1>22. TasksOK'
  BY <1>18, <1>20, <1>21 DEF TasksOK
<1>23. ASSUME IsSliceTask(g) PROVE LoopOK(g)'
  <2>1. Works(x, g)
    BY <1>1, <1>4, <1>7, <1>11 DEF Works
  <2>2. PICK y \in Places :
          /\ Owns(y, g) /\ OwnerInv(y) /\ frames[y].pc \notin Preparing /\ frames[y].group = g
          /\ frames[y].call \in Calls \ returned /\ Kind(frames[y].call) = "for"
          /\ ~Unstarted(frames[y].call)
          /\ Size(frames[y].call) \in Nat
          /\ Items[frames[y].call] = 0..(Size(frames[y].call) - 1)
    BY <1>1, <1>11, <1>23, <2>1, Worker
  <2>3. frames[y].call = c /\ SliceInv(g)
    BY <1>2, <1>23, <2>2 DEF OwnerInv, PoolLoopInv, LoopInv
  <2>4. /\ \A p : Owns(p, g)' <=> Owns(p, g)
        /\ \A p : Holds(p, g)' <=> Holds(p, g)
        /\ \A p : Works(p, g)' <=> Works(p, g)
        /\ \A p \in Places : frames'[p].work[2] = frames[p].work[2]
        /\ \A p \in Places : frames'[p].pc = frames[p].pc \/ p = x
    BY <1>1, <1>4, <1>5, <1>7, <1>9, <1>11, <1>23 DEF Owns, Holds, Works
  <2>5. \A p, j : (Claims(p, g, j)' <=> Claims(p, g, j)) /\ (Claims(p, g, j) => p \in Places)
    BY <2>4 DEF Claims, Works
  <2>6. \A j : Unrun(g, j)' <=> Unrun(g, j) /\ j # i
    <3>1. \A p : Claims(p, g, i) => p = x
      BY <1>5, <1>11, <1>23, <2>1, <2>3, <2>5 DEF Claims, SliceInv
    <3>2. f.pc # "run" /\ \A j : Claims(x, g, j) => j = i
      BY <1>5, <1>9, <1>11, <1>23 DEF Claims
    <3>3. SUFFICES ASSUME NEW j PROVE Unrun(g, j)' <=> Unrun(g, j) /\ j # i
      OBVIOUS
    <3>4. Unrun(g, j)' <=> \E p \in Places : Claims(p, g, j) /\ p # x /\ frames[p].pc = "run"
      BY <1>11, <2>5, <3>2 DEF Unrun
    <3>5. QED
      BY <1>11, <3>1, <3>2, <3>4 DEF Unrun
  <2>7. Pending(g)' = Pending(g)
    <3>1. \A j : (\E p \in Places' : Claims(p, g, j)') <=> (\E p \in Places : Claims(p, g, j))
      BY <1>11, <2>5
    <3>2. QED
      BY <1>4, <3>1 DEF Pending
  <2>8. Open(g)'
    <3>1. Owns(y, g)' /\ frames'[y].pc \notin Preparing
      BY <1>9, <1>11, <2>2, <2>4 DEF Preparing
    <3>2. QED
      BY <1>11, <3>1 DEF Open
  <2>9. SliceInv(g)'
    <3>1. ASSUME NEW p \in Places', Works(p, g)'
          PROVE  /\ Open(g)' /\ frames'[p].work[2] < group'[g].ctr /\ frames'[p].work[2] < group'[g].to
                 /\ frames'[p].pc # "run" => frames'[p].work[1] = group'[g].func
                 /\ frames'[p].pc = "inner" => HasNested(group'[g].func)
      <4>1. Works(p, g) /\ p \in Places /\ frames'[p].work[2] = frames[p].work[2]
        BY <1>11, <2>4, <3>1
      <4>2. CASE p = x
        BY <1>2, <1>4, <1>9, <1>11, <2>3, <2>8, <4>1, <4>2 DEF SliceInv
      <4>3. CASE p # x
        BY <1>4, <1>11, <2>3, <2>8, <4>1, <4>3 DEF SliceInv
      <4>4. QED
        BY <4>2, <4>3
    <3>2. \A p, q \in Places' : Works(p, g)' /\ Works(q, g)' /\ frames'[p].work[2] = frames'[q].work[2] => p = q
      BY <1>11, <2>3, <2>4 DEF SliceInv
    <3>3. QED
      BY <2>8, <3>1, <3>2 DEF SliceInv
  <2>10. ASSUME NEW p \in Places', Owns(p, g)' PROVE OwnerInv(p)'
    <3>1. p = y /\ frames'[y].group = g /\ frames'[y].call = c /\ frames'[y].pc \notin Preparing
      BY <1>1, <1>9, <1>11, <2>2, <2>3, <2>4, <2>10 DEF OwnerInv, Owns, Preparing
    <3>2. \A q \in Places' : Owns(q, g)' => q = y
      BY <1>11, <2>2, <2>4 DEF OwnerInv
    <3>3. /\ group'[g].func = c /\ group'[g].to = Size(c)
          /\ group'[g].remaining = Cardinality(Pending(g)')
      BY <1>4, <2>2, <2>3, <2>7 DEF OwnerInv
    <3>4. \A j \in Items[c] : ran'[c][j] = IF j >= group'[g].ctr \/ Unrun(g, j)' THEN 0 ELSE 1
      <4>1. ~(i >= group[g].ctr)
        <5>1. frames[x].work[2] = i /\ frames[x].work[2] < group[g].ctr
          BY <1>5, <1>11, <1>23, <2>1, <2>3 DEF SliceInv
        <5>2. i \in Nat /\ group[g].ctr \in Nat
          BY <1>5, <2>2, <2>3 DEF PoolLoopInv, PoolInv, Types, GroupType
        <5>3. QED
          BY <5>1, <5>2
      <4>2. \A j \in Items[c] : ran[c][j] = IF j >= group[g].ctr \/ Unrun(g, j) THEN 0 ELSE 1
        BY <2>2, <2>3 DEF OwnerInv
      <4>3. QED
        BY <1>4, <1>6, <2>6, <4>1, <4>2
    <3>5. QED
      BY <3>1, <3>2, <3>3, <3>4 DEF OwnerInv
  <2>11. QED
    BY <2>9, <2>10 DEF LoopOK
<1>24. QED
  BY <1>12, <1>15, <1>19, <1>22, <1>23, AllLoops

\* and counted.
LEMMA DoneLoop ==
  ASSUME PoolLoopInv, NEW t \in Threads, Done(t) PROVE LoopInv'
<1>1. PICK g \in Groups : g = Top(t).group
  BY TopIs DEF Done, At, PoolLoopInv
<1> DEFINE f == [Top(t) EXCEPT !.pc = IF g[1] = "async" THEN "end" ELSE "step"]
<1>2. /\ stack[t] # <<>> /\ Top(t).pc = "done" /\ Set(t, f) /\ queue' = queue
      /\ ran' = ran /\ next' = next /\ returned' = returned
      /\ group' = [group EXCEPT ![g].remaining = group[g].remaining - 1]
  BY <1>1 DEF Done, At, Goto
<1>3. /\ Top(t) \in FrameType /\ Top(t).role \in {"owner", "helper"}
      /\ Top(t).role = "owner" => IsSliceTask(g)
  BY <1>1, <1>2, RoleOfPc, TopIs DEF PoolLoopInv, OwnerPcs, HelperPcs
<1>4. /\ f \in FrameType /\ f.role = Top(t).role /\ f.group = g /\ f.call = Top(t).call
      /\ f.pc = (IF g[1] = "async" THEN "end" ELSE "step") /\ f.work = Top(t).work
  BY <1>1, <1>3 DEF FrameType, Pcs
<1>5. PICK x \in Places : x = TopPlace(t)
  BY <1>2, TopIs DEF PoolLoopInv
<1> HIDE DEF f
<1>6. /\ Places' = Places /\ frames[x] = Top(t) /\ frames'[x] = f
      /\ \A p \in Places : p # x => frames'[p] = frames[p]
  BY <1>2, <1>4, <1>5, AfterSet DEF PoolLoopInv
<1>7. /\ \A e \in Groups : e # g => group'[e] = group[e]
      /\ group'[g].ctr = group[g].ctr /\ group'[g].to = group[g].to /\ group'[g].func = group[g].func
      /\ group'[g].remaining = group[g].remaining - 1
  BY <1>2 DEF PoolLoopInv, PoolInv, Types, GroupType
<1>8. PoolInv'
  BY DonePool DEF PoolLoopInv
<1>9. CASE ~IsSliceTask(g)
  <2>1. Top(t).role = "helper" /\ Holds(x, g)
    BY <1>1, <1>3, <1>6, <1>9 DEF Holds
  <2>2. ASSUME NEW w \in Workers, g = Child(w) PROVE ChildAt(x, w)'
    <3>1. ChildAt(x, w) /\ <<0, 1>> \in Places /\ frames[<<0, 1>>].role = "parent"
      BY <2>1, <2>2, ChildIs DEF HoldsChild, PoolLoopInv, LoopInv
    <3>2. frames'[<<0, 1>>] = frames[<<0, 1>>] /\ f.pc = "step"
      BY <1>4, <1>6, <2>1, <2>2, <3>1, TaskGroups
    <3>3. group[g].ctr # 0
      BY <1>2, <1>6, <2>2, <3>1 DEF ChildAt, PoolLoopInv, PoolInv, Types, GroupType
    <3>4. QED
      BY <1>2, <1>6, <1>7, <2>2, <3>1, <3>2, <3>3 DEF ChildAt
  <2>3. ASSUME NEW k \in 1..Len(Program), g = Async(k) PROVE TaskAt(x, k)'
    <3>1. TaskAt(x, k)
      BY <2>1, <2>3, TaskIs DEF HoldsTask, PoolLoopInv, LoopInv
    <3>2. f.pc = "end"
      BY <1>4, <2>3, TaskGroups
    <3>3. QED
      BY <1>6, <1>7, <2>3, <3>1, <3>2 DEF TaskAt
  <2>4. QED
    BY <1>1, <1>2, <1>3, <1>4, <1>5, <1>7, <1>8, <1>9, <2>1, <2>2, <2>3, OnTask
<1>10. CASE IsSliceTask(g)
  <2>1. Works(x, g) /\ SliceInv(g) /\ f.pc = "step"
    <3>1. g[1] # "async"
      BY <1>10, GroupsAre
    <3>2. QED
      BY <1>1, <1>2, <1>3, <1>4, <1>6, <1>10, <3>1 DEF Works, PoolLoopInv, LoopInv
  <2>2. PICK y \in Places :
          /\ Owns(y, g) /\ OwnerInv(y) /\ frames[y].pc \notin Preparing /\ frames[y].group = g
          /\ frames[y].call \in Calls \ returned /\ Kind(frames[y].call) = "for"
          /\ ~Unstarted(frames[y].call)
          /\ Size(frames[y].call) \in Nat
          /\ Items[frames[y].call] = 0..(Size(frames[y].call) - 1)
    BY <1>1, <1>6, <1>10, <2>1, Worker
  <2>3. PICK c \in Calls : c = frames[y].call
    BY <2>2
  <2>4. PICK i \in Nat : i = frames[x].work[2]
    BY <1>3, <1>6 DEF FrameType
  <2>5. /\ \A p : Owns(p, g)' <=> Owns(p, g)
        /\ \A p : Holds(p, g)' <=> Holds(p, g)
        /\ \A p : Works(p, g)' <=> Works(p, g) /\ p # x
        /\ \A p : Works(p, g) => p \in Places
    BY <1>1, <1>2, <1>3, <1>4, <1>6, <2>1 DEF Owns, Holds, Works
  <2>6. /\ \A p, j : Claims(p, g, j)' <=> Claims(p, g, j) /\ j # i
        /\ \A p, j : Claims(p, g, j) => p \in Places
        /\ Claims(x, g, i)
    <3>1. \A p, j : Claims(p, g, j)' <=> Claims(p, g, j) /\ p # x
      BY <1>6, <2>5 DEF Claims
    <3>2. \A p, j : Claims(p, g, j) => (p = x <=> j = i)
      BY <2>1, <2>4, <2>5 DEF Claims, SliceInv
    <3>3. Claims(x, g, i)
      BY <2>1, <2>4 DEF Claims
    <3>4. QED
      BY <2>5, <3>1, <3>2, <3>3 DEF Claims
  <2>7. \A j : Unrun(g, j)' <=> Unrun(g, j)
    <3>1. \A p, j : Claims(p, g, j) /\ frames[p].pc = "run" => p # x
      BY <1>2, <1>6
    <3>2. \A p, j : Claims(p, g, j) /\ p # x => j # i
      BY <2>1, <2>4, <2>5 DEF Claims, SliceInv
    <3>3. \A p, j : (Claims(p, g, j)' /\ frames'[p].pc = "run") <=> (Claims(p, g, j) /\ frames[p].pc = "run")
      BY <1>6, <2>1, <2>6, <3>1, <3>2
    <3>4. QED
      BY <1>6, <3>3 DEF Unrun
  <2>8. i < group[g].ctr /\ i < group[g].to /\ group[g].ctr \in Nat /\ group[g].to \in Nat
    BY <2>1, <2>4 DEF SliceInv, PoolLoopInv, PoolInv, Types, GroupType
  <2>9. Pending(g)' = Pending(g) \ {i} /\ i \in Pending(g)
    <3>1. \A j : (\E p \in Places' : Claims(p, g, j)') <=> (\E p \in Places : Claims(p, g, j)) /\ j # i
      BY <1>6, <2>6
    <3>2. i \in 0..(group[g].to - 1) /\ ~(i >= group[g].ctr)
      BY <2>8
    <3>3. QED
      BY <1>7, <2>6, <3>1, <3>2 DEF Pending
  <2>10. Cardinality(Pending(g)') = group[g].remaining - 1
    <3>1. Pending(g) \subseteq 0..(group[g].to - 1)
      BY DEF Pending
    <3>2. IsFiniteSet(0..(group[g].to - 1))
      <4>1. 0 \in Int /\ group[g].to - 1 \in Int
        BY <2>8
      <4>2. QED
        BY <4>1, FS_Interval
    <3>3. IsFiniteSet(Pending(g))
      BY <3>1, <3>2, FS_Subset
    <3>4. Cardinality(Pending(g) \ {i}) = Cardinality(Pending(g)) - 1
      BY <2>9, <3>3, FS_RemoveElement
    <3>5. group[g].remaining = Cardinality(Pending(g))
      BY <2>2 DEF OwnerInv
    <3>6. QED
      BY <2>9, <3>4, <3>5
  <2>11. Open(g)'
    <3>1. Owns(y, g)' /\ frames'[y].pc \notin Preparing
      BY <1>6, <2>1, <2>2, <2>5 DEF Preparing
    <3>2. QED
      BY <1>6, <3>1 DEF Open
  <2>12. SliceInv(g)'
    <3>1. ASSUME NEW p \in Places', Works(p, g)'
          PROVE  /\ Open(g)' /\ frames'[p].work[2] < group'[g].ctr /\ frames'[p].work[2] < group'[g].to
                 /\ frames'[p].pc # "run" => frames'[p].work[1] = group'[g].func
                 /\ frames'[p].pc = "inner" => HasNested(group'[g].func)
      <4>1. Works(p, g) /\ p \in Places /\ frames'[p] = frames[p]
        BY <1>6, <2>5, <3>1
      <4>2. QED
        BY <1>7, <2>1, <2>11, <4>1 DEF SliceInv
    <3>2. \A p, q \in Places' : Works(p, g)' /\ Works(q, g)' /\ frames'[p].work[2] = frames'[q].work[2] => p = q
      BY <1>6, <2>1, <2>5 DEF SliceInv
    <3>3. QED
      BY <2>11, <3>1, <3>2 DEF SliceInv
  <2>13. ASSUME NEW p \in Places', Owns(p, g)' PROVE OwnerInv(p)'
    <3>1. p = y /\ frames'[y].group = g /\ frames'[y].call = c /\ frames'[y].pc \notin Preparing
      BY <1>1, <1>4, <1>6, <2>1, <2>2, <2>3, <2>5, <2>13 DEF OwnerInv, Owns, Preparing
    <3>2. \A q \in Places' : Owns(q, g)' => q = y
      BY <1>6, <2>2, <2>5 DEF OwnerInv
    <3>3. /\ group'[g].func = c /\ group'[g].to = Size(c)
          /\ group'[g].remaining = Cardinality(Pending(g)')
      BY <1>7, <2>2, <2>3, <2>10 DEF OwnerInv
    <3>4. \A j \in Items[c] : ran'[c][j] = IF j >= group'[g].ctr \/ Unrun(g, j)' THEN 0 ELSE 1
      BY <1>2, <1>7, <2>2, <2>3, <2>7 DEF OwnerInv
    <3>5. QED
      BY <3>1, <3>2, <3>3, <3>4 DEF OwnerInv
  <2>14. LoopOK(g)'
    BY <2>12, <2>13 DEF LoopOK
  <2>15. QED
    BY <1>1, <1>2, <1>3, <1>4, <1>7, <1>8, <1>10, <2>1, <2>14, OnSlice
<1>11. QED
  BY <1>9, <1>10

\* A thread takes a task: the queue had it, so that it is open, over, or new.
LEMMA DoTaskLoop ==
  ASSUME PoolLoopInv, NEW t \in Threads, DoTask(t) PROVE LoopInv'
<1>1. PICK g \in Groups :
        /\ queue[t][g] > 0
        /\ queue' = [queue EXCEPT ![t][g] = @ - 1]
        /\ stack' = [stack EXCEPT ![t] =
             <<Frame("helper", IF g[1] = "async" THEN "run" ELSE "step", g, group[g].func)>> \o @]
  BY DEF DoTask
<1> DEFINE f == Frame("helper", IF g[1] = "async" THEN "run" ELSE "step", g, group[g].func)
<1>2. t \in Threads \ {0} /\ group' = group /\ next' = next /\ ran' = ran /\ returned' = returned
  BY DEF DoTask
<1>3. /\ f \in FrameType /\ f.role = "helper" /\ f.group = g /\ f.work[2] = 0
      /\ f.pc = IF g[1] = "async" THEN "run" ELSE "step"
  BY DEF PoolLoopInv, PoolInv, Types, GroupType, FrameType, Frame, Roles, Pcs
<1> HIDE DEF f
<1>4. PICK x : x = Above(t)
  OBVIOUS
<1>5. /\ Stacks' /\ x \notin Places /\ Places' = Places \cup {x}
      /\ frames'[x] = f /\ \A p \in Places : frames'[p] = frames[p]
  BY <1>1, <1>3, <1>4, PushFrames DEF PoolLoopInv, PoolInv, Types, f
<1>6. /\ \A u \in Threads \ {0}, e \in Groups : e # g => queue'[u][e] = queue[u][e]
      /\ \A u \in Threads \ {0} : queue'[u][g] = (IF u = t THEN queue[u][g] - 1 ELSE queue[u][g])
      /\ \A u \in Threads \ {0} : queue[u][g] \in Nat
      /\ PoolInv'
  <2>1. queue[t] \in [Groups -> Nat] /\ queue[t][g] - 1 \in Nat
    BY <1>1, <1>2 DEF PoolLoopInv, PoolInv, Types
  <2>2. queue' = [queue EXCEPT ![t] = [queue[t] EXCEPT ![g] = queue[t][g] - 1]]
    BY <1>1
  <2>3. QED
    BY <1>2, <2>1, <2>2, DoTaskPool DEF PoolLoopInv, PoolInv, Types
<1>7. \A u \in Threads \ {0} : queue'[u][g] > 0 => queue[u][g] > 0
  BY <1>6
<1>8. Changes(x, g)
  BY <1>3, <1>5 DEF Changes
<1>9. RanType' /\ CallersInv' /\ InnerInv'
  BY <1>2, <1>3, <1>5, <1>8, SameCallers DEF InnerInv
<1>10. \A e \in Groups : e # g /\ IsSliceTask(e) => LoopOK(e)'
  BY <1>2, <1>5, <1>6, <1>8, OtherLoops DEF LoopOK
<1>11. /\ \A w \in Workers : Child(w) # g => ChildInv(w)'
       /\ \A k \in 1..Len(Program) : Async(k) # g => AsyncInv(k)'
  BY <1>2, <1>3, <1>5, <1>6, <1>8, OtherTasks
<1>12. Holds(x, g)' /\ InUse(g)
  BY <1>1, <1>2, <1>3, <1>5 DEF Holds, InUse
<1>13. ASSUME NEW w \in Workers, g = Child(w) PROVE ChildInv(w)'
  <2>1. OneUser(g) /\ Active(w)
    BY <1>12, <1>13, TaskGroups DEF PoolLoopInv, PoolInv, TaskInv, Alive
  <2>2. \A p \in Places : ~Holds(p, g)
    BY <1>1, <1>2, <2>1 DEF OneUser
  <2>3. ChildInv(w) /\ <<0, 1>> \in Places /\ frames[<<0, 1>>].role = "parent"
    BY <2>1 DEF PoolLoopInv, LoopInv, Active
  <2>4. group[g].ctr = 0
    BY <1>1, <1>2, <1>13, <2>1, <2>3 DEF ChildInv
  <2>5. /\ group[g].func = frames[<<0, 1>>].call /\ group[g].to = 1
        /\ group[g].remaining = 1 /\ ran[frames[<<0, 1>>].call][w] = 0
    BY <1>13, <2>1, <2>3, <2>4 DEF ChildInv
  <2>6. f.pc = "step" /\ frames'[<<0, 1>>] = frames[<<0, 1>>]
    BY <1>3, <1>5, <1>13, <2>3, TaskGroups
  <2>7. ChildAt(x, w)'
    BY <1>2, <1>5, <1>13, <2>4, <2>5, <2>6 DEF ChildAt
  <2>8. HoldsChild'
    BY ChildIs, PTL
  <2>9. QED
    BY <1>6, <1>12, <1>13, <2>7, <2>8 DEF HoldsChild
<1>14. ASSUME NEW k \in 1..Len(Program), g = Async(k) PROVE AsyncInv(k)'
  <2>1. AsyncInv(k)
    BY DEF PoolLoopInv, LoopInv
  <2>2. group[g].func = <<k>> /\ Kind(<<k>>) = "async" /\ ran[<<k>>][0] = 0
    BY <1>1, <1>2, <1>12, <1>14, <2>1 DEF AsyncInv
  <2>3. f.pc = "run"
    BY <1>3, <1>14, TaskGroups
  <2>4. TaskAt(x, k)'
    BY <1>2, <1>3, <1>5, <1>14, <2>2, <2>3 DEF TaskAt
  <2>5. HoldsTask'
    BY TaskIs, PTL
  <2>6. QED
    BY <1>6, <1>12, <1>14, <2>4, <2>5 DEF HoldsTask
<1>15. TasksOK'
  BY <1>11, <1>13, <1>14 DEF TasksOK
<1>16. ASSUME IsSliceTask(g) PROVE LoopOK(g)'
  <2>1. /\ SliceInv(g)
        /\ \A p : Owns(p, g) => OwnerInv(p) /\ frames[p].group = g
    BY <1>1, <1>2, <1>16 DEF PoolLoopInv, LoopInv, SliceInv, Owns
  <2>2. f.pc = "step"
    BY <1>3, <1>16, GroupsAre
  <2>3. /\ \A p : Owns(p, g)' <=> Owns(p, g)
        /\ \A p : Owns(p, g) => /\ p \in Places' /\ frames'[p] = frames[p] /\ frames[p].group = g
                                /\ frames[p].pc \notin Preparing
        /\ \A p : Works(p, g)' <=> Works(p, g)
        /\ \A p : Works(p, g) => p \in Places' /\ frames'[p] = frames[p]
        /\ \A p : Holds(p, g)' => Holds(p, g) \/ p = x
    <3>1. \A p : Owns(p, g) => frames[p].pc \notin Preparing
      BY <1>1, <1>2, <2>1 DEF OwnerInv
    <3>2. QED
      BY <1>3, <1>5, <2>2, <3>1 DEF Owns, Works, Holds
  <2>4. Open(g) \/ group[g].ctr >= group[g].to
    BY <1>1, <1>2, <2>1 DEF SliceInv
  <2>5. QED
    BY <1>2, <1>7, <1>16, <2>3, <2>4, LoopGoesOn
<1>17. QED
  BY <1>6, <1>9, <1>10, <1>15, <1>16, AllLoops

-----------------------------------------------------------------------------
(* The calls of the main thread, and those within loops *)

\* No thread comes to the loop within its item: what is started stays so.
LEMMA StaysUnstarted ==
  ASSUME PoolInv, ran' = ran, next' \in {next, next + 1},
         \A p \in Places' : frames'[p].pc = "inner" => p \in Places /\ frames'[p] = frames[p]
  PROVE  \A c \in Calls : Unstarted(c)' => Unstarted(c)
<1>1. SUFFICES ASSUME NEW c \in Calls, Unstarted(c)' PROVE Unstarted(c)
  OBVIOUS
<1>2. c[1] >= next' => c[1] >= next
  BY NestedCalls DEF PoolInv, Types
<1>3. (\E p \in Places' : frames'[p].pc = "inner" /\ frames'[p].work = <<<<c[1]>>, c[2]>>) =>
      (\E p \in Places : frames[p].pc = "inner" /\ frames[p].work = <<<<c[1]>>, c[2]>>)
  OBVIOUS
<1>4. QED
  BY <1>1, <1>2, <1>3 DEF Unstarted

\* A call is made that was to be started.
LEMMA NewCaller ==
  ASSUME PoolLoopInv, NEW x, x \notin Places, Places' = Places \cup {x},
         \A p \in Places :
           \/ frames'[p] = frames[p]
           \/ frames[p].pc = "inner" /\ frames'[p] = [frames[p] EXCEPT !.pc = "done"],
         NEW c \in Calls, frames'[x].call = c, Unstarted(c), ~Unstarted(c)',
         Kind(c) = KindOf[frames'[x].role], frames'[x].pc # "inner",
         next' \in {next, next + 1}, ran' = ran, returned' = returned
  PROVE  RanType' /\ CallersInv' /\ InnerInv'
<1>1. RanType /\ CallersInv /\ InnerInv /\ next \in Nat
  BY DEF PoolLoopInv, LoopInv, InnerInv, PoolInv, Types
<1>2. \A p \in Places : /\ frames'[p].role = frames[p].role /\ frames'[p].call = frames[p].call
                        /\ frames'[p].pc = "inner" => frames'[p] = frames[p]
                        /\ frames'[p].group = frames[p].group
  <2>1. SUFFICES ASSUME NEW p \in Places
                 PROVE  /\ frames'[p].role = frames[p].role /\ frames'[p].call = frames[p].call
                        /\ frames'[p].pc = "inner" => frames'[p] = frames[p]
                        /\ frames'[p].group = frames[p].group
    OBVIOUS
  <2>2. frames[p] \in FrameType
    BY FramesTyped DEF PoolLoopInv, PoolInv, Types
  <2>3. QED
    BY <2>2 DEF FrameType
<1>3. \A p \in Places' : frames'[p].pc = "inner" => p \in Places /\ frames'[p] = frames[p]
  BY <1>2
<1>4. \A d \in Calls : Unstarted(d)' => Unstarted(d)
  BY <1>3, StaysUnstarted DEF PoolLoopInv
<1>5. ASSUME NEW p \in Places', Caller(p)', p # x
      PROVE  /\ Caller(p) /\ p \in Places /\ frames'[p].call = frames[p].call /\ frames[p].call # c
             /\ frames[p].call \in Calls /\ ~Unstarted(frames[p].call) /\ frames[p].call \notin returned
             /\ Kind(frames[p].call) = KindOf[frames'[p].role]
  BY <1>1, <1>2, <1>5 DEF Caller, CallersInv
<1>6. ASSUME NEW p \in Places', Caller(p)'
      PROVE  (/\ frames[p].call \in Calls \ returned /\ ~Unstarted(frames[p].call)
              /\ Kind(frames[p].call) = KindOf[frames[p].role])'
  <2>1. CASE p = x
    <3>1. c \notin returned
      BY <1>1 DEF CallersInv
    <3>2. ~Unstarted(frames[x].call)'
      BY DEF Unstarted
    <3>3. QED
      BY <2>1, <3>1, <3>2
  <2>2. CASE p # x
    <3>1. PICK d \in Calls : d = frames[p].call /\ ~Unstarted(d) /\ frames'[p].call = d
      BY <1>5, <1>6, <2>2
    <3>2. ~Unstarted(d)'
      BY <1>4, <3>1
    <3>3. ~Unstarted(frames[p].call)'
      BY <3>1, <3>2 DEF Unstarted
    <3>4. QED
      BY <1>5, <1>6, <2>2, <3>1, <3>3
  <2>3. QED
    BY <2>1, <2>2
<1>7. ASSUME NEW p \in Places', NEW q \in Places', Caller(p)', Caller(q)', frames'[p].call = frames'[q].call
      PROVE  p = q
  <2>1. CASE p = x \/ q = x
    BY <1>5, <1>7, <2>1
  <2>2. CASE p # x /\ q # x
    BY <1>1, <1>5, <1>7, <2>2 DEF CallersInv
  <2>3. QED
    BY <2>1, <2>2
<1>8. \A d \in Calls : Unstarted(d)' => d \notin returned' /\ \A i \in Items[d] : ran'[d][i] = 0
  BY <1>1, <1>4 DEF CallersInv
<1>9. CallersInv'
  BY <1>6, <1>7, <1>8 DEF CallersInv
<1>10. InnerInv'
  BY <1>1, <1>3 DEF InnerInv
<1>11. QED
  BY <1>1, <1>9, <1>10 DEF RanType

\* A loop begins with a group of the pool that nobody has.
LEMMA NewLoop ==
  ASSUME PoolLoopInv, PoolInv', NEW x, x \notin Places, Places' = Places \cup {x}, Stacks',
         \A p \in Places :
           \/ frames'[p] = frames[p]
           \/ frames[p].pc = "inner" /\ frames'[p] = [frames[p] EXCEPT !.pc = "done"],
         NEW c \in Calls, Unstarted(c), ~Unstarted(c)', Kind(c) = "for",
         NEW g \in Groups, IsSliceTask(g), ~Referenced(g),
         frames'[x] = Frame("owner", "count", g, c),
         group' = [group EXCEPT ![g].remaining = 0, ![g].inTaskQueue = TRUE],
         next' \in {next, next + 1}, ran' = ran, returned' = returned, queue' = queue
  PROVE  LoopInv'
<1>1. /\ frames'[x].role = "owner" /\ frames'[x].pc = "count" /\ frames'[x].group = g /\ frames'[x].call = c
  BY DEF Frame
<1>2. RanType' /\ CallersInv' /\ InnerInv'
  <2>1. Kind(c) = KindOf[frames'[x].role]
    BY <1>1 DEF KindOf, Roles
  <2>2. QED
    BY <1>1, <2>1, NewCaller
<1>3. Changes(x, g)
  BY <1>1 DEF Changes
<1>4. \A e \in Groups : e # g => group'[e] = group[e]
  BY DEF PoolLoopInv, PoolInv, Types
<1>5. \A e \in Groups : e # g /\ IsSliceTask(e) => LoopOK(e)'
  BY ONLY PoolLoopInv, Stacks', <1>3, <1>4, queue' = queue, ran' = ran, OtherLoops DEF LoopOK
<1>6. TasksOK'
  <2>1. \A w \in Workers : Child(w) # g
    BY TaskGroups
  <2>2. \A k \in 1..Len(Program) : Async(k) # g
    BY TaskGroups
  <2>3. /\ \A w \in Workers : Child(w) # g => ChildInv(w)'
        /\ \A k \in 1..Len(Program) : Async(k) # g => AsyncInv(k)'
    BY ONLY PoolLoopInv, Stacks', x \notin Places, <1>1, <1>3, <1>4, queue' = queue, ran' = ran, OtherTasks
  <2>4. QED
    BY <2>1, <2>2, <2>3 DEF TasksOK
<1>7. /\ \A t \in Threads \ {0} : queue'[t][g] = 0
      /\ \A p \in Places' : frames'[p].group = g => p = x
  <2>1. \A t \in Threads \ {0} : queue[t][g] = 0
    BY DEF Referenced, PoolLoopInv, PoolInv, Types
  <2>2. \A p \in Places : frames[p] \in FrameType /\ frames[p].group # g
    BY FramesTyped DEF Referenced, PoolLoopInv, PoolInv, Types
  <2>3. \A p \in Places : frames'[p].group = frames[p].group
    <3>1. SUFFICES ASSUME NEW p \in Places PROVE frames'[p].group = frames[p].group
      OBVIOUS
    <3>2. QED
      BY <2>2 DEF FrameType
  <2>4. QED
    BY <2>1, <2>2, <2>3
<1>8. (\A p : ~Holds(p, g)') /\ (\A p : ~Works(p, g)') /\ (\A p : Owns(p, g)' => p = x)
  BY <1>1, <1>7 DEF Holds, Works, Owns
<1>9. SliceInv(g)'
  BY <1>7, <1>8 DEF SliceInv
<1>10. ASSUME NEW p \in Places', Owns(p, g)' PROVE OwnerInv(p)'
  <2>1. p = x
    BY <1>8, <1>10
  <2>2. \A i \in Items[c] : ran'[c][i] = 0
    BY DEF PoolLoopInv, LoopInv, CallersInv
  <2>3. QED
    BY <1>1, <1>7, <1>8, <2>1, <2>2 DEF OwnerInv, Preparing
<1>11. LoopOK(g)'
  BY <1>9, <1>10 DEF LoopOK
<1>12. QED
  BY <1>2, <1>5, <1>6, <1>11, AllLoops

\* What the group of a new loop is, when reuse is safe.
LEMMA FreshGroup ==
  ASSUME PoolLoopInv, SafeStep, NEW t, NEW c \in AnyCall, NEW below, GetTaskGroup(t, c, below),
         NEW g, g = <<PoolOf(c), pos[PoolOf(c)] % PoolSize>>
  PROVE  /\ g \in Groups /\ IsSliceTask(g) /\ ~Referenced(g)
         /\ group' = [group EXCEPT ![g].remaining = 0, ![g].inTaskQueue = TRUE]
         /\ queue' = queue /\ ran' = ran /\ returned' = returned
<1>1. PoolOf(c) \in {"outer", "inner"} /\ pos[PoolOf(c)] \in Nat /\ PoolSize \in Nat \ {0}
  BY CallsAre, ThreadsAssumption DEF PoolLoopInv, PoolInv, Types
<1>2. g \in Groups /\ IsSliceTask(g)
  BY <1>1 DEF Groups, IsSliceTask
<1>3. pos'[PoolOf(c)] # pos[PoolOf(c)]
  <2>1. pos' = [pos EXCEPT ![PoolOf(c)] = pos[PoolOf(c)] + 1]
    BY DEF GetTaskGroup
  <2>2. QED
    BY <1>1, <2>1 DEF PoolLoopInv, PoolInv, Types
<1>4. QED
  BY <1>1, <1>2, <1>3 DEF SafeStep, GetTaskGroup

\* The main thread's next call, before it is made.
LEMMA NextCall ==
  ASSUME PoolLoopInv, NEW kind, Call(kind)
  PROVE  /\ <<next>> \in Calls /\ <<next>> \in AnyCall /\ Kind(<<next>>) = kind /\ next \in 1..Len(Program)
         /\ Unstarted(<<next>>) /\ next' = next + 1 /\ (\A c : c = <<next>> => ~Unstarted(c)')
         /\ 0 \in Threads /\ stack[0] = <<>> /\ Above(0) = <<0, 1>>
<1>1. /\ 0 \in Threads /\ <<next>> \in AnyCall /\ next \in 1..Len(Program) /\ next' = next + 1
      /\ stack[0] = <<>> /\ Above(0) = <<0, 1>>
  BY CallIs DEF PoolLoopInv
<1>2. <<next>> \in Calls /\ Len(<<next>>) = 1 /\ <<next>>[1] = next
  BY <1>1, NestedCalls
<1>3. Kind(<<next>>) = kind
  BY <1>2 DEF Kind, Call
<1>4. Unstarted(<<next>>)
  BY <1>1, <1>2 DEF Unstarted
<1>5. ASSUME NEW c, c = <<next>> PROVE ~Unstarted(c)'
  <2>1. ~(c[1] >= next') /\ Len(c) = 1
    BY <1>1, <1>2, <1>5
  <2>2. QED
    BY <2>1 DEF Unstarted
<1>6. QED
  BY <1>1, <1>2, <1>3, <1>4, <1>5

LEMMA ForMTLoop ==
  ASSUME PoolLoopInv, SafeStep, ForMT PROVE LoopInv'
<1>1. PICK c : c = <<next>>
  OBVIOUS
<1>2. GetTaskGroup(0, c, <<>>) /\ Call("for")
  BY <1>1 DEF ForMT
<1>3. /\ c \in Calls /\ c \in AnyCall /\ Kind(c) = "for" /\ Unstarted(c) /\ ~Unstarted(c)'
      /\ next' = next + 1 /\ 0 \in Threads /\ stack[0] = <<>>
  BY <1>1, <1>2, NextCall
<1>4. PICK g \in Groups : g = <<PoolOf(c), pos[PoolOf(c)] % PoolSize>>
  BY <1>2, <1>3, FreshGroup
<1>5. /\ IsSliceTask(g) /\ ~Referenced(g)
      /\ group' = [group EXCEPT ![g].remaining = 0, ![g].inTaskQueue = TRUE]
      /\ queue' = queue /\ ran' = ran /\ returned' = returned
  BY <1>2, <1>3, <1>4, FreshGroup
<1> DEFINE f == Frame("owner", "count", g, c)
<1>6. f \in FrameType
  BY <1>3 DEF FrameType, Frame, Roles, Pcs
<1>7. stack' = [stack EXCEPT ![0] = <<f>> \o @]
  BY <1>2, <1>3, <1>4 DEF GetTaskGroup, PoolLoopInv, PoolInv, Types, Stacks
<1> HIDE DEF f
<1>8. PICK x : x = Above(0)
  OBVIOUS
<1>9. /\ Stacks' /\ x \notin Places /\ Places' = Places \cup {x}
      /\ frames'[x] = f /\ \A p \in Places : frames'[p] = frames[p]
  BY <1>3, <1>6, <1>7, <1>8, PushFrames DEF PoolLoopInv, PoolInv, Types
<1>10. PoolInv'
  BY ForMTPool DEF PoolLoopInv
<1>11. QED
  BY <1>3, <1>5, <1>9, <1>10, NewLoop DEF f

\* A loop within a loop: the item it is for has just been run, by this thread.
LEMMA NestedIs ==
  ASSUME PoolLoopInv, NEW x \in Places, frames[x].pc = "inner",
         NEW c, c = <<frames[x].work[1][1], frames[x].work[2]>>
  PROVE  /\ c \in Calls /\ Len(c) = 2 /\ Kind(c) = "for" /\ Unstarted(c) /\ c[1] < next
         /\ frames[x].work = <<<<c[1]>>, c[2]>> /\ ran[<<c[1]>>][c[2]] = 1
         /\ \A p \in Places : frames[p].pc = "inner" /\ frames[p].work = frames[x].work => p = x
<1>1. \A p \in Places : frames[p] \in FrameType /\ FrameOK(p) /\ frames[p].group \in Groups
  BY FramesTyped DEF PoolLoopInv, PoolInv, Types, FramesInv, FrameType
<1>2. \A p \in Places : frames[p].pc = "inner" =>
        IsSliceTask(frames[p].group) /\ Works(p, frames[p].group)
  <2>1. SUFFICES ASSUME NEW p \in Places, frames[p].pc = "inner"
                 PROVE  IsSliceTask(frames[p].group) /\ Works(p, frames[p].group)
    OBVIOUS
  <2>2. frames[p].role \in {"owner", "helper"}
    BY <1>1, <2>1 DEF FrameOK, FrameType, Roles
  <2>3. QED
    BY <2>1, <2>2 DEF Works, PoolLoopInv, LoopInv
<1>3. PICK g \in Groups : g = frames[x].group /\ IsSliceTask(g) /\ Works(x, g) /\ SliceInv(g)
  BY <1>1, <1>2 DEF PoolLoopInv, LoopInv
<1>4. PICK y \in Places :
        /\ Owns(y, g) /\ OwnerInv(y) /\ frames[y].pc \notin Preparing /\ frames[y].group = g
        /\ frames[y].call \in Calls \ returned /\ Kind(frames[y].call) = "for"
        /\ ~Unstarted(frames[y].call)
        /\ Size(frames[y].call) \in Nat
        /\ Items[frames[y].call] = 0..(Size(frames[y].call) - 1)
  BY <1>3, Worker
<1>5. PICK d \in Calls : d = frames[y].call /\ group[g].func = d /\ group[g].to = Size(d)
  BY <1>4 DEF OwnerInv
<1>6. PICK i \in Nat : i = frames[x].work[2]
  BY <1>1 DEF FrameType
<1>7. /\ frames[x].work[1] = d /\ HasNested(d) /\ i < group[g].ctr /\ i < Size(d)
      /\ frames[x].work = <<d, i>>
  <2>1. frames[x].work[1] = d /\ HasNested(d) /\ i < group[g].ctr /\ i < Size(d)
    BY <1>3, <1>5, <1>6 DEF SliceInv
  <2>2. QED
    BY <1>1, <1>6, <2>1 DEF FrameType
<1>8. i \in Items[d] /\ d = <<d[1]>> /\ d[1] \in 1..Len(Program)
  <2>1. i \in Items[d]
    BY <1>4, <1>5, <1>7
  <2>2. Len(d) = 1
    BY <1>7 DEF HasNested
  <2>3. QED
    BY <2>1, <2>2, NestedCalls
<1>9. c = <<d[1], i>> /\ c[1] = d[1] /\ c[2] = i /\ Len(c) = 2
  BY <1>6, <1>7
<1>10. c \in Calls /\ Kind(c) = "for"
  BY <1>7, <1>8, <1>9, NestedCalls DEF Kind
<1>11. frames[x].work = <<<<c[1]>>, c[2]>> /\ Unstarted(c)
  <2>1. frames[x].work = <<<<c[1]>>, c[2]>>
    BY <1>7, <1>8, <1>9
  <2>2. QED
    BY <1>9, <2>1 DEF Unstarted
<1>12. c[1] < next
  <2>1. ~(d[1] >= next)
    BY <1>4, <1>5 DEF Unstarted
  <2>2. next \in Int /\ d[1] \in Int
    BY <1>8 DEF PoolLoopInv, PoolInv, Types
  <2>3. QED
    BY <1>9, <2>1, <2>2
<1>13. ran[d][i] = 1
  <2>1. ~Unrun(g, i)
    <3>1. SUFFICES ASSUME NEW p \in Places, Claims(p, g, i), frames[p].pc = "run" PROVE FALSE
      BY DEF Unrun
    <3>2. p = x
      BY <1>3, <1>6, <3>1 DEF SliceInv, Claims
    <3>3. QED
      BY <3>1, <3>2
  <2>2. ~(i >= group[g].ctr)
    BY <1>7 DEF PoolLoopInv, PoolInv, Types, GroupType
  <2>3. QED
    BY <1>4, <1>5, <1>8, <2>1, <2>2 DEF OwnerInv
<1>14. ASSUME NEW p \in Places, frames[p].pc = "inner", frames[p].work = frames[x].work PROVE p = x
  <2>1. PICK e \in Groups : e = frames[p].group /\ IsSliceTask(e) /\ Works(p, e) /\ SliceInv(e)
    BY <1>1, <1>2, <1>14 DEF PoolLoopInv, LoopInv
  <2>2. PICK z \in Places : Owns(z, e) /\ OwnerInv(z) /\ frames[z].pc \notin Preparing /\ frames[z].group = e
    BY <2>1, Worker
  <2>3. frames[z].call = d
    BY <1>7, <1>14, <2>1, <2>2 DEF SliceInv, OwnerInv
  <2>4. z = y
    BY <1>4, <1>5, <2>2, <2>3 DEF PoolLoopInv, LoopInv, CallersInv, Caller, Owns
  <2>5. e = g
    BY <1>4, <2>2, <2>4
  <2>6. QED
    BY <1>3, <1>14, <2>1, <2>5 DEF SliceInv
<1>15. QED
  BY <1>8, <1>9, <1>10, <1>11, <1>12, <1>13, <1>14

LEMMA NestedLoop ==
  ASSUME PoolLoopInv, SafeStep, NEW t \in Threads, NestedForMT(t) PROVE LoopInv'
<1>1. PICK y \in Places : y = TopPlace(t) /\ frames[y] = Top(t) /\ Top(t) \in FrameType
  BY TopIs DEF NestedForMT, At, PoolLoopInv
<1>2. PICK c : c = <<Top(t).work[1][1], Top(t).work[2]>>
  OBVIOUS
<1> DEFINE e == [Top(t) EXCEPT !.pc = "done"]
<1>3. /\ stack[t] # <<>> /\ Top(t).pc = "inner" /\ next' = next
      /\ GetTaskGroup(t, c, <<e>> \o Tail(stack[t]))
  BY <1>2 DEF NestedForMT, At
<1>4. /\ c \in Calls /\ Len(c) = 2 /\ Kind(c) = "for" /\ Unstarted(c) /\ c[1] < next
      /\ frames[y].work = <<<<c[1]>>, c[2]>> /\ ran[<<c[1]>>][c[2]] = 1
      /\ \A p \in Places : frames[p].pc = "inner" /\ frames[p].work = frames[y].work => p = y
  BY <1>1, <1>2, <1>3, NestedIs
<1>5. c \in AnyCall
  BY <1>4, ForCalls
<1>6. PICK g \in Groups : g = <<PoolOf(c), pos[PoolOf(c)] % PoolSize>>
  BY <1>3, <1>5, FreshGroup
<1>7. /\ IsSliceTask(g) /\ ~Referenced(g)
      /\ group' = [group EXCEPT ![g].remaining = 0, ![g].inTaskQueue = TRUE]
      /\ queue' = queue /\ ran' = ran /\ returned' = returned
  BY <1>3, <1>5, <1>6, FreshGroup
<1> DEFINE f == Frame("owner", "count", g, c)
<1>8. f \in FrameType /\ e \in FrameType /\ f.pc = "count" /\ e.pc = "done"
  BY <1>1, <1>5 DEF FrameType, Frame, Roles, Pcs
<1>9. stack' = [stack EXCEPT ![t] = <<f>> \o (<<e>> \o Tail(stack[t]))]
  BY <1>3, <1>6 DEF GetTaskGroup
<1> HIDE DEF e, f
<1>10. PICK x : x = Above(t)
  OBVIOUS
<1>11. /\ Stacks' /\ x \notin Places /\ Places' = Places \cup {x}
       /\ frames'[x] = f /\ frames'[y] = e
       /\ \A p \in Places : p # y => frames'[p] = frames[p]
  BY <1>1, <1>3, <1>8, <1>9, <1>10, NestedFrames DEF PoolLoopInv, PoolInv, Types
<1>12. \A p \in Places :
           \/ frames'[p] = frames[p]
           \/ frames[p].pc = "inner" /\ frames'[p] = [frames[p] EXCEPT !.pc = "done"]
  BY <1>1, <1>3, <1>11 DEF e
<1>13. ~Unstarted(c)'
  <2>1. ~(c[1] >= next')
    BY <1>3, <1>4, NestedCalls DEF PoolLoopInv, PoolInv, Types
  <2>2. ~(\E p \in Places' : frames'[p].pc = "inner" /\ frames'[p].work = <<<<c[1]>>, c[2]>>)
    BY <1>4, <1>8, <1>11
  <2>3. QED
    BY <1>4, <1>7, <2>1, <2>2 DEF Unstarted
<1>14. PoolInv'
  BY NestedPool DEF PoolLoopInv
<1>15. next' \in {next, next + 1} /\ Stacks' /\ frames'[x] = Frame("owner", "count", g, c)
       /\ x \notin Places /\ Places' = Places \cup {x}
  BY <1>3, <1>11 DEF f
<1>16. QED
  BY ONLY PoolLoopInv, <1>4, <1>7, <1>12, <1>13, <1>14, <1>15, NewLoop

\* The main thread comes or goes, or pushes children: loops stay as they were.
LEMMA MainStep ==
  ASSUME PoolLoopInv, Stacks', ran' = ran, NEW x,
         \A p : p # x => (p \in Places' <=> p \in Places),
         \A p \in Places : p # x => frames'[p] = frames[p],
         x \in Places => frames[x].role \in {"parent", "pusher"},
         x \in Places' => frames'[x].role \in {"parent", "pusher"}
  PROVE  /\ \A p, e : Holds(p, e)' <=> Holds(p, e)
         /\ \A p, e : Holds(p, e) => p \in Places' /\ frames'[p] = frames[p]
         /\ (\A e \in Groups : IsSliceTask(e) =>
               group'[e] = group[e] /\ \A u \in Threads \ {0} : queue'[u][e] = queue[u][e])
            => \A e \in Groups : IsSliceTask(e) => LoopOK(e)'
         /\ \A k \in 1..Len(Program) :
              (/\ group'[Async(k)] = group[Async(k)]
               /\ \A u \in Threads \ {0} : queue'[u][Async(k)] = queue[u][Async(k)])
              => AsyncInv(k)'
<1>1. \A p, e : Holds(p, e)' <=> Holds(p, e)
  BY DEF Holds
<1>2. \A p, e : Holds(p, e) => p \in Places' /\ p \in Places /\ frames'[p] = frames[p]
  BY DEF Holds
<1>3. ASSUME \A e \in Groups : IsSliceTask(e) =>
               group'[e] = group[e] /\ \A u \in Threads \ {0} : queue'[u][e] = queue[u][e]
      PROVE  \A e \in Groups : IsSliceTask(e) => LoopOK(e)'
  <2>1. PICK g : g = Child(1) /\ ~IsSliceTask(g)
    <3>1. 1 \in Workers
      BY ThreadsAssumption DEF Workers
    <3>2. QED
      BY <3>1, TaskGroups
  <2>2. Changes(x, g)
    BY DEF Changes
  <2>3. QED
    BY ONLY PoolLoopInv, Stacks', ran' = ran, <1>3, <2>1, <2>2, OtherLoops DEF LoopOK
<1>4. ASSUME NEW k \in 1..Len(Program), group'[Async(k)] = group[Async(k)],
             \A u \in Threads \ {0} : queue'[u][Async(k)] = queue[u][Async(k)]
      PROVE  AsyncInv(k)'
  <2>1. PICK g : g = Async(k)
    OBVIOUS
  <2>2. AsyncInv(k)
    BY DEF PoolLoopInv, LoopInv
  <2>3. InUse(g)' => InUse(g)
    BY <1>1, <1>2, <1>4, <2>1 DEF InUse
  <2>4. \A p : Holds(p, g)' => p \in Places /\ Holds(p, g) /\ frames'[p] = frames[p]
    BY <1>1, <1>2
  <2>5. QED
    BY <1>4, <2>1, <2>2, <2>3, <2>4 DEF AsyncInv
<1>5. QED
  BY <1>1, <1>2, <1>3, <1>4

LEMMA ParallelLoop ==
  ASSUME PoolLoopInv, Parallel PROVE LoopInv'
<1>1. PICK c : c = <<next>>
  OBVIOUS
<1>2. Call("parallel") /\ group' = group /\ queue' = queue /\ ran' = ran /\ returned' = returned
  BY DEF Parallel
<1>3. /\ c \in Calls /\ c \in AnyCall /\ Kind(c) = "parallel" /\ Unstarted(c) /\ ~Unstarted(c)'
      /\ next' = next + 1 /\ 0 \in Threads /\ stack[0] = <<>> /\ Above(0) = <<0, 1>>
  BY <1>1, <1>2, NextCall
<1> DEFINE f == Frame("parent", "children", Child(1), c)
<1>4. 1 \in Workers /\ Child(1) \in Groups /\ Child(1)[2] = 1
  <2>1. 1 \in Workers
    BY ThreadsAssumption DEF Workers
  <2>2. QED
    BY <2>1, TaskGroups
<1>5. /\ f \in FrameType /\ f.role = "parent" /\ f.pc = "children" /\ f.group = Child(1) /\ f.call = c
  BY <1>3, <1>4 DEF FrameType, Frame, Roles, Pcs
<1>6. stack' = [stack EXCEPT ![0] = <<f>> \o @]
  <2>1. stack' = [stack EXCEPT ![0] = <<f>>] /\ stack[0] = <<>>
    BY <1>1, <1>3 DEF Parallel
  <2>2. <<f>> \o <<>> = <<f>>
    <3>1. <<f>> \in Seq(FrameType)
      BY <1>5
    <3>2. QED
      BY <3>1, ConcatEmptySeq
  <2>3. QED
    BY <2>1, <2>2
<1> HIDE DEF f
<1>7. /\ Stacks' /\ <<0, 1>> \notin Places /\ Places' = Places \cup {<<0, 1>>}
      /\ frames'[<<0, 1>>] = f /\ \A p \in Places : frames'[p] = frames[p]
  BY <1>3, <1>5, <1>6, PushFrames DEF PoolLoopInv, PoolInv, Types
<1>8. RanType' /\ CallersInv' /\ InnerInv'
  <2>1. PICK x : x = <<0, 1>>
    OBVIOUS
  <2>2. /\ x \notin Places /\ Places' = Places \cup {x} /\ frames'[x].call = c /\ frames'[x].pc # "inner"
        /\ Kind(c) = KindOf[frames'[x].role] /\ next' \in {next, next + 1}
        /\ \A p \in Places : frames'[p] = frames[p]
    BY <1>3, <1>5, <1>7, <2>1 DEF KindOf, Roles
  <2>3. QED
    BY ONLY PoolLoopInv, <1>2, <1>3, <2>2, NewCaller
<1>9. /\ \A e \in Groups : IsSliceTask(e) => LoopOK(e)'
      /\ \A k \in 1..Len(Program) : AsyncInv(k)'
  BY <1>2, <1>5, <1>7, MainStep
<1>10. ASSUME NEW w \in Workers PROVE ChildInv(w)'
  <2>1. ~Active(w)'
    <3>1. ~(w < 1)
      BY ThreadsAssumption DEF Workers
    <3>2. QED
      BY <1>4, <1>5, <1>7, <3>1 DEF Active
  <2>2. ran'[c][w] = 0
    <3>1. Items[c] = Workers
      BY <1>3, ForCalls
    <3>2. QED
      BY <1>2, <1>3, <3>1 DEF PoolLoopInv, LoopInv, CallersInv
  <2>3. QED
    BY <1>5, <1>7, <2>1, <2>2 DEF ChildInv
<1>11. TasksOK'
  BY <1>9, <1>10 DEF TasksOK
<1>12. QED
  BY <1>8, <1>9, <1>11, ParallelPool, AllLoops DEF PoolLoopInv

LEMMA EnqueueLoop ==
  ASSUME PoolLoopInv, Enqueue PROVE LoopInv'
<1>1. PICK c, k : c = <<next>> /\ k = next
  OBVIOUS
<1>2. Call("async") /\ ran' = ran /\ returned' = returned
  BY DEF Enqueue
<1>3. /\ c \in Calls /\ c \in AnyCall /\ Kind(c) = "async" /\ Unstarted(c) /\ ~Unstarted(c)'
      /\ next' = next + 1 /\ 0 \in Threads /\ stack[0] = <<>> /\ Above(0) = <<0, 1>>
      /\ k \in 1..Len(Program) /\ c = <<k>>
  BY <1>1, <1>2, NextCall
<1>4. PICK g \in Groups : g = Async(k) /\ ~IsSliceTask(g) /\ g[1] = "async" /\ g[2] = k
  BY <1>3, TaskGroups
<1> DEFINE f == Frame("pusher", "pushed", g, c)
<1>5. f \in FrameType /\ f.role = "pusher" /\ f.pc = "pushed" /\ f.call = c
  BY <1>3 DEF FrameType, Frame, Roles, Pcs
<1>6. stack' = [stack EXCEPT ![0] = <<f>> \o @]
  <2>1. stack' = [stack EXCEPT ![0] = <<f>>] /\ stack[0] = <<>>
    BY <1>1, <1>3, <1>4 DEF Enqueue
  <2>2. <<f>> \o <<>> = <<f>>
    <3>1. <<f>> \in Seq(FrameType)
      BY <1>5
    <3>2. QED
      BY <3>1, ConcatEmptySeq
  <2>3. QED
    BY <2>1, <2>2
<1>7. PICK w \in AsyncWorkers : queue' = Enqueued(w, g)
  BY <1>1, <1>4 DEF Enqueue
<1>8. group' = [group EXCEPT ![g] = NewGroup(c)]
  BY <1>1, <1>4 DEF Enqueue
<1> HIDE DEF f
<1>9. /\ Stacks' /\ <<0, 1>> \notin Places /\ Places' = Places \cup {<<0, 1>>}
      /\ frames'[<<0, 1>>] = f /\ \A p \in Places : frames'[p] = frames[p]
  BY <1>3, <1>5, <1>6, PushFrames DEF PoolLoopInv, PoolInv, Types
<1>10. w \in Threads \ {0}
  BY ThreadsAssumption DEF AsyncWorkers, Threads
<1>11. /\ \A e \in Groups : e # g => group'[e] = group[e]
       /\ group'[g].func = c
       /\ \A u \in Threads \ {0}, e \in Groups : e # g => queue'[u][e] = queue[u][e]
  <2>1. \A u \in Threads \ {0}, e \in Groups : e # g => queue'[u][e] = queue[u][e]
    BY <1>7, <1>10, EnqueuedIs DEF PoolLoopInv, PoolInv, Types
  <2>2. QED
    BY <1>8, <2>1 DEF PoolLoopInv, PoolInv, Types, NewGroup
<1>12. RanType' /\ CallersInv' /\ InnerInv'
  <2>1. PICK x : x = <<0, 1>>
    OBVIOUS
  <2>2. /\ x \notin Places /\ Places' = Places \cup {x} /\ frames'[x].call = c /\ frames'[x].pc # "inner"
        /\ Kind(c) = KindOf[frames'[x].role] /\ next' \in {next, next + 1}
        /\ \A p \in Places : frames'[p] = frames[p]
    BY <1>3, <1>5, <1>9, <2>1 DEF KindOf, Roles
  <2>3. QED
    BY ONLY PoolLoopInv, <1>2, <1>3, <2>2, NewCaller
<1>13. /\ \A e \in Groups : IsSliceTask(e) => LoopOK(e)'
       /\ \A j \in 1..Len(Program) : j # k => AsyncInv(j)'
       /\ \A p, e : Holds(p, e)' <=> Holds(p, e)
  <2>1. \A e \in Groups : IsSliceTask(e) => e # g
    BY <1>4
  <2>2. \A j \in 1..Len(Program) : j # k => Async(j) # g /\ Async(j) \in Groups
    BY <1>4, TaskGroups
  <2>3. PICK x : x = <<0, 1>>
    OBVIOUS
  <2>4. /\ \A p : p # x => (p \in Places' <=> p \in Places)
        /\ \A p \in Places : p # x => frames'[p] = frames[p]
        /\ x \notin Places /\ frames'[x].role = "pusher"
    BY <1>5, <1>9, <2>3
  <2>5. QED
    BY <1>2, <1>9, <1>11, <2>1, <2>2, <2>4, MainStep
<1>14. AsyncInv(k)'
  <2>1. ~InUse(g)
    BY <1>1, <1>4 DEF PoolLoopInv, PoolInv, TaskInv, Alive, Types
  <2>2. \A p : ~Holds(p, g)'
    BY <1>13, <2>1 DEF InUse, Holds
  <2>3. ran'[<<k>>][0] = 0
    <3>1. 0 \in Items[c]
      <4>1. Items[c] = 0..(Size(c) - 1) /\ Len(c) = 1 /\ c[1] = k
        BY <1>3, ForCalls, NestedCalls
      <4>2. Size(c) = 1
        BY <1>3, <4>1, ProgramIs DEF Kind, Size
      <4>3. QED
        BY <4>1, <4>2
    <3>2. QED
      BY <1>2, <1>3, <3>1 DEF PoolLoopInv, LoopInv, CallersInv
  <2>4. QED
    BY <1>3, <1>4, <1>11, <2>2, <2>3 DEF AsyncInv
<1>15. \A v \in Workers : ChildInv(v)'
  BY <1>5, <1>9 DEF ChildInv
<1>16. TasksOK'
  BY <1>13, <1>14, <1>15 DEF TasksOK
<1>17. QED
  BY <1>12, <1>13, <1>16, EnqueuePool, AllLoops DEF PoolLoopInv

LEMMA PushedLoop ==
  ASSUME PoolLoopInv, Pushed PROVE LoopInv'
<1>0. 0 \in Threads
  BY DEF Threads
<1>1. /\ stack[0] # <<>> /\ Top(0).pc = "pushed" /\ Pop(0) /\ returned' = returned \cup {Top(0).call}
      /\ group' = group /\ queue' = queue /\ ran' = ran /\ next' = next
  BY DEF Pushed, At
<1>2. PICK x : x = <<0, 1>>
  OBVIOUS
<1>3. TopPlace(0) = x /\ Top(0).role = "pusher"
  BY <1>0, <1>1, <1>2, TopIs, RoleOfPc DEF PoolLoopInv, FrameOK
<1>4. /\ Stacks' /\ x \in Places /\ Places' = Places \ {x} /\ frames[x] = Top(0)
      /\ \A p \in Places' : frames'[p] = frames[p]
  BY <1>0, <1>1, <1>3, PopFrames, TopFrame DEF PoolLoopInv, PoolInv, Types
<1>5. RanType' /\ CallersInv' /\ InnerInv'
  BY <1>1, <1>3, <1>4, CallerReturns DEF Caller
<1>6. /\ \A e \in Groups : IsSliceTask(e) => LoopOK(e)'
      /\ \A k \in 1..Len(Program) : AsyncInv(k)'
  BY <1>1, <1>3, <1>4, MainStep
<1>7. \A w \in Workers : ChildInv(w)'
  BY <1>2, <1>4 DEF ChildInv
<1>8. TasksOK'
  BY <1>6, <1>7 DEF TasksOK
<1>9. QED
  BY <1>5, <1>6, <1>8, PushedPool, AllLoops DEF PoolLoopInv

LEMMA SpinLoop ==
  ASSUME PoolLoopInv, Spin PROVE LoopInv'
<1>0. 0 \in Threads
  BY DEF Threads
<1>1. /\ stack[0] # <<>> /\ Top(0).pc = "spin" /\ Pop(0) /\ returned' = returned \cup {Top(0).call}
      /\ queue' = queue /\ ran' = ran /\ next' = next
      /\ \A g \in Groups : g[1] # "child" => group'[g] = group[g]
  BY DEF Spin, At
<1>2. PICK x : x = <<0, 1>>
  OBVIOUS
<1>3. TopPlace(0) = x /\ Top(0).role = "parent"
  BY <1>0, <1>1, <1>2, TopIs, RoleOfPc DEF PoolLoopInv, FrameOK
<1>4. /\ Stacks' /\ x \in Places /\ Places' = Places \ {x} /\ frames[x] = Top(0)
      /\ \A p \in Places' : frames'[p] = frames[p]
  BY <1>0, <1>1, <1>3, PopFrames, TopFrame DEF PoolLoopInv, PoolInv, Types
<1>5. RanType' /\ CallersInv' /\ InnerInv'
  BY <1>1, <1>3, <1>4, CallerReturns DEF Caller
<1>6. /\ \A e \in Groups : IsSliceTask(e) => LoopOK(e)'
      /\ \A k \in 1..Len(Program) : AsyncInv(k)'
  <2>1. \A e \in Groups : IsSliceTask(e) => group'[e] = group[e]
    BY <1>1, GroupsAre
  <2>2. \A k \in 1..Len(Program) : group'[Async(k)] = group[Async(k)]
    BY <1>1, TaskGroups
  <2>3. QED
    BY <1>1, <1>3, <1>4, <2>1, <2>2, MainStep
<1>7. \A w \in Workers : ChildInv(w)'
  BY <1>2, <1>4 DEF ChildInv
<1>8. TasksOK'
  BY <1>6, <1>7 DEF TasksOK
<1>9. QED
  BY <1>5, <1>6, <1>8, SpinPool, AllLoops DEF PoolLoopInv

LEMMA PushChildLoop ==
  ASSUME PoolLoopInv, PushChild PROVE LoopInv'
<1>1. PICK w \in Workers, f \in FrameType : ChildPushed(w, f)
  BY PushChildIs DEF PoolLoopInv
<1>2. PICK x, g : x = <<0, 1>> /\ g = Child(w)
  OBVIOUS
<1>3. /\ g \in Groups /\ ~IsSliceTask(g) /\ g[1] = "child" /\ g[2] = w /\ w \in Nat
      /\ next' = next /\ ran' = ran /\ returned' = returned
      /\ f.role = "parent" /\ f.pc # "inner"
      /\ Stacks' /\ Places' = Places /\ x \in Places /\ DOMAIN frames = Places
      /\ frames' = [frames EXCEPT ![x] = f] /\ f.call = frames[x].call
      /\ frames[x].role = "parent" /\ frames[x].pc = "children"
      /\ \A p, e : Holds(p, e)' <=> Holds(p, e)
  BY <1>1, <1>2 DEF ChildPushed
<1>4. /\ frames'[x] = f /\ \A p \in Places : p # x => frames'[p] = frames[p]
      /\ Changes(x, g)
  BY <1>3 DEF Changes
<1>5. PICK c : c = frames[x].call
  OBVIOUS
<1>6. /\ \A e \in Groups : e # g => group'[e] = group[e]
      /\ \A u \in Threads \ {0}, e \in Groups : e # g => queue'[u][e] = queue[u][e]
      /\ group' = [group EXCEPT ![g] = NewGroup(c)]
  BY <1>1, <1>2, <1>3, <1>5 DEF ChildPushed
<1>7. RanType' /\ CallersInv' /\ InnerInv'
  BY <1>3, <1>4, SameCallers DEF InnerInv
<1>8. /\ \A e \in Groups : IsSliceTask(e) => LoopOK(e)'
      /\ \A k \in 1..Len(Program) : AsyncInv(k)'
  <2>1. \A e \in Groups : IsSliceTask(e) =>
          group'[e] = group[e] /\ \A u \in Threads \ {0} : queue'[u][e] = queue[u][e]
    BY <1>3, <1>6
  <2>2. \A k \in 1..Len(Program) :
          /\ group'[Async(k)] = group[Async(k)]
          /\ \A u \in Threads \ {0} : queue'[u][Async(k)] = queue[u][Async(k)]
    BY <1>3, <1>6, TaskGroups
  <2>3. QED
    BY <1>3, <1>4, <2>1, <2>2, MainStep
<1>9. ChildInv(w)'
  <2>1. ~Active(w) /\ Active(w)'
    BY <1>1, <1>3 DEF ChildPushed
  <2>2. ran[c][w] = 0
    BY <1>2, <1>3, <1>5, <2>1 DEF PoolLoopInv, LoopInv, ChildInv
  <2>3. ~InUse(g)
    BY <1>3, <2>1 DEF PoolLoopInv, PoolInv, TaskInv, Alive
  <2>4. \A p \in Places' : ~Holds(p, g)'
    BY <1>3, <2>3 DEF InUse
  <2>5. /\ group'[g].func = c /\ group'[g].to = 1 /\ group'[g].remaining = 1 /\ group'[g].ctr = 0
    BY <1>3, <1>6 DEF NewGroup, PoolLoopInv, PoolInv, Types
  <2>6. frames'[<<0, 1>>].call = c
    BY <1>2, <1>3, <1>4, <1>5
  <2>7. QED
    BY <1>2, <1>3, <2>1, <2>2, <2>4, <2>5, <2>6 DEF ChildInv
<1>10. ASSUME NEW v \in Workers, v # w PROVE ChildInv(v)'
  <2>1. Active(v)' <=> Active(v)
    <3>1. v \in Nat
      BY ThreadsAssumption DEF Workers
    <3>2. QED
      BY <1>1, <1>10, <3>1 DEF ChildPushed
  <2>2. PICK e \in Groups : e = Child(v) /\ e # g
    BY <1>3, <1>10, TaskGroups
  <2>3. \A pcs : (\E p \in Places' : Holds(p, e)' /\ frames'[p].pc \in pcs) <=>
                (\E p \in Places : Holds(p, e) /\ frames[p].pc \in pcs)
    <3>1. \A p : Holds(p, e) => p # x
      BY <1>3 DEF Holds
    <3>2. QED
      BY <1>3, <1>4, <3>1
  <2>4. group'[e] = group[e] /\ \A u \in Threads \ {0} : queue'[u][e] = queue[u][e]
    BY <1>6, <2>2
  <2>5. ChildInv(v) /\ frames[<<0, 1>>].call = c /\ frames'[<<0, 1>>].call = c
    BY <1>2, <1>3, <1>4, <1>5 DEF PoolLoopInv, LoopInv
  <2>6. QED
    BY ZenonT(60), <1>2, <1>3, <2>1, <2>2, <2>3, <2>4, <2>5 DEF ChildInv
<1>11. TasksOK'
  BY <1>8, <1>9, <1>10 DEF TasksOK
<1>12. QED
  BY <1>7, <1>8, <1>11, PushChildPool, AllLoops DEF PoolLoopInv

\* The first state: nothing has begun.
LEMMA InitLoop ==
  Init => PoolLoopInv
<1> SUFFICES ASSUME Init PROVE PoolLoopInv
  OBVIOUS
<1>1. PoolInv
  BY InitPool
<1>2. Places = {} /\ next = 1 /\ returned = {} /\ \A t \in Threads \ {0}, g \in Groups : queue[t][g] = 0
  <2>1. \A t \in Threads : stack[t] = <<>> /\ Len(stack[t]) = 0
    BY DEF Init
  <2>2. QED
    BY <2>1 DEF Init, Places
<1>3. RanType /\ \A c \in Calls : \A i \in Items[c] : ran[c][i] = 0
  BY DEF Init, RanType
<1>4. CallersInv
  BY <1>2, <1>3 DEF CallersInv, Caller
<1>5. \A g \in Groups : IsSliceTask(g) => SliceInv(g)
  BY <1>2 DEF SliceInv
<1>6. \A w \in Workers : ChildInv(w)
  BY <1>2 DEF ChildInv
<1>7. \A k \in 1..Len(Program) : AsyncInv(k)
  BY <1>2, TaskGroups DEF AsyncInv, InUse
<1>8. QED
  BY <1>1, <1>2, <1>3, <1>4, <1>5, <1>6, <1>7 DEF PoolLoopInv, LoopInv

\* A step that changes nothing.
LEMMA StutterLoop ==
  ASSUME PoolLoopInv, UNCHANGED vars PROVE LoopInv'
<1>1. /\ group' = group /\ queue' = queue /\ stack' = stack /\ next' = next
      /\ ran' = ran /\ returned' = returned
  BY DEF vars
<1>2. Places' = Places /\ frames' = frames
  <2>1. Places' = Places
    BY <1>1 DEF Places
  <2>2. QED
    BY <1>1, <2>1 DEF frames
<1>3. /\ \A p, g : (Holds(p, g)' <=> Holds(p, g)) /\ (Owns(p, g)' <=> Owns(p, g)) /\ (Works(p, g)' <=> Works(p, g))
      /\ \A w : Active(w)' <=> Active(w)
  BY <1>2 DEF Holds, Owns, Works, Active
<1>4. /\ \A p, g, i : Claims(p, g, i)' <=> Claims(p, g, i)
      /\ \A c : Unstarted(c)' <=> Unstarted(c)
  BY <1>1, <1>2, <1>3 DEF Claims, Unstarted
<1>5. \A g : /\ Open(g)' <=> Open(g)
             /\ InUse(g)' <=> InUse(g)
             /\ Pending(g)' = Pending(g)
  BY <1>1, <1>2, <1>3, <1>4 DEF Open, InUse, Pending
<1>6. \A g, i : Unrun(g, i)' <=> Unrun(g, i)
  BY <1>2, <1>4 DEF Unrun
<1>7. RanType' /\ (\A p \in Places' : frames'[p].pc = "inner" => IsSliceTask(frames'[p].group))
  BY <1>1, <1>2 DEF PoolLoopInv, LoopInv, RanType
<1>8. CallersInv'
  BY <1>1, <1>2, <1>4 DEF PoolLoopInv, LoopInv, CallersInv, Caller
<1>9. \A p \in Places' : frames'[p].role = "owner" => OwnerInv(p)'
  BY <1>1, <1>2, <1>3, <1>5, <1>6 DEF PoolLoopInv, LoopInv, OwnerInv
<1>10. \A g \in Groups : IsSliceTask(g) => SliceInv(g)'
  BY <1>1, <1>2, <1>3, <1>5 DEF PoolLoopInv, LoopInv, SliceInv
<1>11. \A w \in Workers : ChildInv(w)'
  BY <1>1, <1>2, <1>3 DEF PoolLoopInv, LoopInv, ChildInv
<1>12. \A k \in 1..Len(Program) : AsyncInv(k)'
  BY <1>1, <1>2, <1>3, <1>5 DEF PoolLoopInv, LoopInv, AsyncInv
<1>13. QED
  BY <1>7, <1>8, <1>9, <1>10, <1>11, <1>12 DEF LoopInv

-----------------------------------------------------------------------------
(* The loops are carried out *)

\* Every step that reuses no group in use keeps the invariants.
LEMMA NextLoop ==
  PoolLoopInv /\ [Next]_vars /\ [SafeStep]_vars => PoolLoopInv'
<1> SUFFICES ASSUME PoolLoopInv, [Next]_vars, [SafeStep]_vars PROVE LoopInv'
  BY NextPool DEF PoolLoopInv
<1>1. CASE UNCHANGED vars
  BY <1>1, StutterLoop
<1>2. ASSUME ~UNCHANGED vars, Main PROVE LoopInv'
  BY <1>2, ForMTLoop, ParallelLoop, EnqueueLoop, PushedLoop, PushChildLoop, SpinLoop DEF Main
<1>3. ASSUME ~UNCHANGED vars, NEW t \in Threads, Thread(t) PROVE LoopInv'
  BY <1>3, NestedLoop, CountLoop, ZeroLoop, FuncLoop, PushTaskGroupLoop, StepLoop, RunLoop, DoneLoop,
     EndOfSliceLoop, EndOfTaskLoop, SelfDeleteLoop, DoTaskLoop, DrainedLoop, WaitLoop DEF Thread
<1>4. QED
  BY <1>1, <1>2, <1>3 DEF Next

\* Every reachable state satisfies the invariants of the pool and of the loops,
\* as long as no call is given a group of the pool that is still referenced:
\* GetTaskGroup counts on that, and checks nothing (ThreadPool.h:646).
THEOREM LoopInvariance == Spec /\ ReuseIsSafe => []PoolLoopInv
<1>1. QED
  BY InitLoop, NextLoop, PTL DEF Spec, ReuseIsSafe

\* To run an iteration is a step of ParallelLoops: it was not run before.
LEMMA RunMaps ==
  ASSUME PoolLoopInv, NEW t \in Threads, Run(t) PROVE Loops!Run
<1>1. PICK c, i : c = group[Top(t).group].func /\ i = RunItem(t)
  OBVIOUS
<1>2. stack[t] # <<>> /\ Top(t).pc = "run" /\ returned' = returned /\ ran' = [ran EXCEPT ![c][i] = ran[c][i] + 1]
  BY <1>1 DEF Run, At, RunItem
<1>3. c \in Calls /\ i \in Items[c] /\ ran[c][i] = 0 /\ (Kind(c) # "async" => c \notin returned)
  BY <1>1, <1>2, RunIs
<1>4. ran' = [ran EXCEPT ![c][i] = 1]
  BY <1>2, <1>3
<1>5. QED
  BY <1>2, <1>3, <1>4 DEF Loops!Run

\* So is the return of for_mt: its iterations were all run.
LEMMA WaitMaps ==
  ASSUME PoolLoopInv, NEW t \in Threads, WaitForFinished(t)
  PROVE  Loops!Return \/ UNCHANGED <<ran, returned>>
<1>1. stack[t] # <<>> /\ Top(t).pc = "check" /\ ran' = ran
  BY DEF WaitForFinished, At
<1>2. CASE ~Finished(Top(t).group)
  BY <1>1, <1>2 DEF WaitForFinished
<1>3. CASE Finished(Top(t).group)
  <2>1. PICK x \in Places : x = TopPlace(t) /\ frames[x] = Top(t)
    BY <1>1, TopIs DEF PoolLoopInv
  <2>2. PICK g, c : g = frames[x].group /\ c = frames[x].call
    OBVIOUS
  <2>3. frames[x].role = "owner" /\ frames[x].pc \notin Preparing
    BY <1>1, <2>1, RoleOfPc DEF PoolLoopInv, OwnerPcs, HelperPcs, Preparing
  <2>4. group[g].remaining = 0 /\ returned' = returned \cup {c}
    BY <1>3, <2>1, <2>2 DEF WaitForFinished, Finished, IsFinished
  <2>5. \A i \in Items[c] : ran[c][i] = 1
    BY <2>2, <2>3, <2>4, CountedDown
  <2>6. c \in Calls \ returned
    BY <2>2, <2>3 DEF PoolLoopInv, LoopInv, CallersInv, Caller
  <2>7. QED
    BY <1>1, <2>4, <2>5, <2>6 DEF Loops!Return
<1>4. QED
  BY <1>2, <1>3

\* So are the returns of parallel and of Enqueue.
LEMMA MainMaps ==
  ASSUME PoolLoopInv, Spin \/ Pushed PROVE Loops!Return
<1>1. PICK x : x = <<0, 1>>
  OBVIOUS
<1>2. /\ stack[0] # <<>> /\ 0 \in Threads /\ ran' = ran /\ returned' = returned \cup {Top(0).call}
      /\ \/ Spin /\ Top(0).pc = "spin"
         \/ Pushed /\ Top(0).pc = "pushed"
  BY DEF Spin, Pushed, At, Threads
<1>3. /\ x \in Places /\ frames[x] = Top(0) /\ frames[x].role \in {"parent", "pusher"}
      /\ frames[x].pc = "spin" => frames[x].role = "parent"
      /\ frames[x].pc = "pushed" => frames[x].role = "pusher"
  BY <1>1, <1>2, TopIs, RoleOfPc DEF PoolLoopInv, FrameOK
<1>4. PICK c : c = frames[x].call
  OBVIOUS
<1>5. c \in Calls \ returned /\ Kind(c) = KindOf[frames[x].role]
  BY <1>3, <1>4 DEF PoolLoopInv, LoopInv, CallersInv, Caller
<1>6. CASE Pushed
  <2>1. Kind(c) = "async"
    <3>1. Top(0).pc = "pushed"
      BY <1>6 DEF Pushed, At
    <3>2. frames[x].role = "pusher" /\ frames[x].role \in Roles
      BY <1>3, <3>1 DEF Roles
    <3>3. QED
      BY <1>5, <3>2 DEF KindOf
  <2>2. QED
    BY <1>2, <1>3, <1>4, <1>5, <2>1 DEF Loops!Return
<1>7. CASE Spin
  <2>1. Kind(c) = "parallel" /\ frames[x].role = "parent" /\ frames[x].pc = "spin"
    <3>1. Top(0).pc = "spin"
      BY <1>7 DEF Spin, At
    <3>2. frames[x].role = "parent" /\ frames[x].role \in Roles
      BY <1>3, <3>1 DEF Roles
    <3>3. QED
      BY <1>3, <1>5, <3>1, <3>2 DEF KindOf
  <2>2. Items[c] = Workers
    BY <1>5, <2>1, ForCalls
  <2>3. ASSUME NEW w \in Workers PROVE ran[c][w] = 1
    <3>1. group[Child(w)].remaining = 0
      BY <1>7 DEF Spin, AllowDelete, IsFinished
    <3>2. Active(w) /\ ChildInv(w)
      BY <1>1, <1>3, <2>1 DEF Active, PoolLoopInv, LoopInv
    <3>3. /\ ~(group[Child(w)].ctr = 0)
          /\ ~(\E p \in Places : Holds(p, Child(w)) /\ frames[p].pc \in {"run", "done"})
      BY <1>1, <1>3, <2>1, <3>1, <3>2 DEF ChildInv
    <3>4. ~(\E p \in Places : Holds(p, Child(w)) /\ frames[p].pc \in {"run"})
      BY <3>3
    <3>5. QED
      BY <1>1, <1>3, <1>4, <2>1, <3>2, <3>3, <3>4 DEF ChildInv
  <2>4. QED
    BY <1>2, <1>3, <1>4, <1>5, <2>2, <2>3 DEF Loops!Return
<1>8. QED
  BY <1>2, <1>6, <1>7

\* All the other steps are none that ParallelLoops sees.
LEMMA StepMaps ==
  PoolLoopInv /\ [Next]_vars => [Loops!Run \/ Loops!Return]_<<ran, returned>>
<1> SUFFICES ASSUME PoolLoopInv, [Next]_vars
             PROVE  Loops!Run \/ Loops!Return \/ UNCHANGED <<ran, returned>>
  OBVIOUS
<1>1. CASE UNCHANGED vars
  BY <1>1 DEF vars
<1>2. CASE Spin \/ Pushed
  BY <1>2, MainMaps
<1>3. CASE ForMT \/ Parallel \/ Enqueue \/ PushChild
  BY <1>3 DEF ForMT, GetTaskGroup, Parallel, Enqueue, PushChild
<1>4. ASSUME NEW t \in Threads, Thread(t) PROVE Loops!Run \/ Loops!Return \/ UNCHANGED <<ran, returned>>
  <2>1. CASE Run(t)
    BY <2>1, RunMaps
  <2>2. CASE WaitForFinished(t)
    BY <2>2, WaitMaps
  <2>3. CASE ~Run(t) /\ ~WaitForFinished(t)
    BY <1>4, <2>3 DEF Thread, NestedForMT, GetTaskGroup, Count, Zero, Func, PushTaskGroup, Step, Done,
       EndOfSlice, EndOfTask, SelfDelete, DoTask, Drained
  <2>4. QED
    BY <2>1, <2>2, <2>3
<1>5. QED
  BY <1>1, <1>2, <1>3, <1>4 DEF Next, Main

\* The pool carries out the loops of the program as ParallelLoops says, each
\* iteration once and before its call returns, whatever the number of threads
\* and the order they run in, as long as groups are handed out again only when
\* nothing refers to them any more.
THEOREM EachItemRunsOnce == Spec /\ ReuseIsSafe => ImplementsLoops
<1>1. Init => Loops!Init
  BY DEF Init, Loops!Init
<1>2. QED
  BY <1>1, StepMaps, LoopInvariance, PTL DEF Spec, ImplementsLoops, Loops!Spec
=============================================================================
