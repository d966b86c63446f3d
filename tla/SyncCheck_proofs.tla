--------------------------- MODULE SyncCheck_proofs ---------------------------
(***************************************************************************)
(* Proofs about SyncCheck, for any players, host, timeouts and word size.  *)
(***************************************************************************)
EXTENDS SyncCheck, SequenceTheorems, FiniteSetTheorems, WellFoundedInduction, TLAPS

-----------------------------------------------------------------------------
(* The invariant holds initially, and each action keeps it *)

LEMMA MessagesAssociative ==
  ASSUME NEW r \in Seq(Message), NEW s \in Seq(Message), NEW t \in Seq(Message)
  PROVE  (r \o s) \o t = r \o (s \o t)
BY ConcatAssociative

LEMMA InitSync == Init => SyncInv
<1> SUFFICES ASSUME Init PROVE SyncInv
  OBVIOUS
<1>1. DOMAIN NoResponses = {}
  BY DEF NoResponses
<1>2. /\ serverFrameNum \in Int /\ simFrame \in [Players -> Int]
      /\ clientLink \in [Players -> BOOLEAN] /\ desynced \in [Players -> BOOLEAN]
      /\ simState \in [Players -> Checksums] /\ inbox \in [Players -> Seq(Message)]
      /\ DOMAIN syncResponse = Players
  BY TimeoutAssumption, ChecksumAssumption, EmptySeq DEF Init
<1>3. \A p \in Players : syncResponse[p] = NoResponses /\ inbox[p] = <<>> /\ clientLink[p]
  BY DEF Init
<1>4. \A p \in Players : Honest(p)
  BY <1>1, <1>3 DEF Honest
<1>5. QED
  BY <1>1, <1>2, <1>3, <1>4 DEF SyncInv, ResponsesOutstanding

LEMMA SimulateSync ==
  ASSUME SyncInv, NEW p \in Players, Simulate(p)
  PROVE  SyncInv'
<1> DEFINE f == simFrame[p] + 1
           key == IF f % KeyframeInterval = 0 THEN <<[kind |-> "keyframe", frame |-> f]>> ELSE <<>>
           response == [kind |-> "response", frame |-> f, checksum |-> simState[p]]
           sent == key \o <<response>>
<1>1. /\ f \in Int /\ simState[p] \in Checksums
      /\ [kind |-> "keyframe", frame |-> f] \in Message /\ response \in Message
  BY DEF SyncInv, Message
<1>2. key \in Seq(Message) /\ <<response>> \in Seq(Message)
  BY <1>1
<1>3. /\ sent \in Seq(Message)
      /\ \A i \in 1..Len(sent) : sent[i].kind = "response" => sent[i].checksum = simState[p]
  <2>1. CASE key = <<>>
    BY <1>1, <2>1
  <2>2. CASE key = <<[kind |-> "keyframe", frame |-> f]>>
    BY <1>1, <2>2
  <2>3. QED
    BY <2>1, <2>2
<1>4. /\ clientLink[p] /\ simFrame' = [simFrame EXCEPT ![p] = f]
      /\ inbox' = [inbox EXCEPT ![p] = @ \o key \o <<response>>]
      /\ UNCHANGED <<server, player, simState, joined>>
  BY DEF Simulate
<1>5. (inbox[p] \o key) \o <<response>> = inbox[p] \o sent /\ inbox[p] \in Seq(Message)
  <2> HIDE DEF key, response
  <2>1. inbox[p] \in Seq(Message)
    BY DEF SyncInv
  <2>2. QED
    BY <1>2, <2>1, MessagesAssociative
<1>6. /\ inbox[p] \o sent \in Seq(Message) /\ Len(inbox[p] \o sent) = Len(inbox[p]) + Len(sent)
      /\ \A i \in 1..(Len(inbox[p]) + Len(sent)) :
           (inbox[p] \o sent)[i] = IF i <= Len(inbox[p]) THEN inbox[p][i] ELSE sent[i - Len(inbox[p])]
      /\ Len(inbox[p]) \in Nat /\ Len(sent) \in Nat
  <2> HIDE DEF sent
  <2>1. QED
    BY <1>3, <1>5, ConcatProperties, LenProperties
<1> HIDE DEF sent
<1>7. inbox' \in [Players -> Seq(Message)] /\ simFrame' \in [Players -> Int]
  BY <1>1, <1>4, <1>5, <1>6 DEF SyncInv
<1>8. /\ inbox'[p] = inbox[p] \o sent /\ \A q \in Players : q # p => inbox'[q] = inbox[q]
      /\ UNCHANGED <<serverFrameNum, outstandingSyncFrames, clientLink, syncResponse, desynced, simState>>
  BY <1>4, <1>5 DEF SyncInv, server, player
<1>9. ASSUME NEW q \in Players, clientLink[q], simState[q] = InSync
      PROVE  Honest(q)'
  <2>1. Honest(q)
    BY <1>9 DEF SyncInv
  <2>2. CASE q # p
    BY <1>8, <2>1, <2>2 DEF Honest
  <2>3. CASE q = p
    <3>1. ASSUME NEW i \in 1..(Len(inbox[p]) + Len(sent)), (inbox[p] \o sent)[i].kind = "response"
          PROVE  (inbox[p] \o sent)[i].checksum = InSync
      <4>1. CASE i <= Len(inbox[p])
        BY <1>6, <2>1, <2>3, <3>1, <4>1 DEF Honest
      <4>2. CASE ~(i <= Len(inbox[p]))
        <5>1. i - Len(inbox[p]) \in 1..Len(sent)
          BY <1>6, <4>2
        <5>2. QED
          BY <1>3, <1>6, <1>9, <2>3, <3>1, <4>2, <5>1
      <4>3. QED
        BY <4>1, <4>2
    <3>2. QED
      BY <1>6, <1>8, <2>1, <2>3, <3>1 DEF Honest
  <2>4. QED
    BY <2>2, <2>3
<1>10. ResponsesOutstanding'
  BY <1>8 DEF SyncInv, ResponsesOutstanding
<1>11. \A q \in Players : ~clientLink'[q] => inbox'[q] = <<>>
  BY <1>4, <1>8 DEF SyncInv
<1>12. QED
  BY <1>7, <1>8, <1>9, <1>10, <1>11 DEF SyncInv

LEMMA ProcessPacketSync ==
  ASSUME SyncInv, NEW p \in Players, ProcessPacket(p)
  PROVE  SyncInv'
<1> DEFINE m == Head(inbox[p])
           rest == Tail(inbox[p])
<1>1. /\ clientLink[p] /\ inbox[p] # <<>> /\ inbox[p] \in Seq(Message)
      /\ inbox' = [inbox EXCEPT ![p] = rest]
      /\ UNCHANGED <<server, clientLink, desynced, simFrame, simState>>
      /\ syncResponse' =
           IF m.kind = "response" /\ m.frame \in outstandingSyncFrames
           THEN [syncResponse EXCEPT ![p] =
                   [f \in DOMAIN @ \cup {m.frame} |-> IF f = m.frame THEN m.checksum ELSE @[f]]]
           ELSE syncResponse
  BY DEF ProcessPacket, SyncInv
<1>2. UNCHANGED <<serverFrameNum, outstandingSyncFrames>>
  BY <1>1 DEF server
<1>3. /\ rest \in Seq(Message) /\ Len(rest) = Len(inbox[p]) - 1 /\ Len(inbox[p]) \in Nat \ {0}
      /\ \A i \in 1..Len(rest) : rest[i] = inbox[p][i + 1]
      /\ m = inbox[p][1]
  BY <1>1, HeadTailProperties, EmptySeq
<1> HIDE DEF rest, m
<1>4. /\ inbox' \in [Players -> Seq(Message)] /\ inbox'[p] = rest
      /\ \A q \in Players : q # p => inbox'[q] = inbox[q]
  BY <1>1, <1>3 DEF SyncInv
<1>5. /\ DOMAIN syncResponse' = Players
      /\ \A q \in Players : q # p => syncResponse'[q] = syncResponse[q]
  BY <1>1 DEF SyncInv
<1>6. \/ syncResponse'[p] = syncResponse[p]
      \/ /\ m.kind = "response" /\ m.frame \in outstandingSyncFrames
         /\ syncResponse'[p] = [f \in DOMAIN syncResponse[p] \cup {m.frame} |->
              IF f = m.frame THEN m.checksum ELSE syncResponse[p][f]]
  BY <1>1 DEF SyncInv
<1>7. ResponsesOutstanding'
  BY <1>1, <1>2, <1>5, <1>6 DEF SyncInv, ResponsesOutstanding
<1>8. ASSUME NEW q \in Players, clientLink[q], simState[q] = InSync
      PROVE  Honest(q)'
  <2>1. Honest(q)
    BY <1>8 DEF SyncInv
  <2>2. CASE q # p
    BY <1>4, <1>5, <2>1, <2>2 DEF Honest
  <2>3. CASE q = p
    <3>1. \A f \in DOMAIN syncResponse'[p] : syncResponse'[p][f] = InSync
      <4>1. m.kind = "response" => m.checksum = InSync
        BY <1>3, <2>1, <2>3 DEF Honest
      <4>2. QED
        BY <1>6, <2>1, <2>3, <4>1 DEF Honest
    <3>2. \A i \in 1..Len(rest) : rest[i].kind = "response" => rest[i].checksum = InSync
      <4>1. SUFFICES ASSUME NEW i \in 1..Len(rest), rest[i].kind = "response"
                     PROVE  rest[i].checksum = InSync
        OBVIOUS
      <4>2. i + 1 \in 1..Len(inbox[p]) /\ rest[i] = inbox[p][i + 1]
        BY <1>3
      <4>3. QED
        BY <2>1, <2>3, <4>1, <4>2 DEF Honest
    <3>3. QED
      BY <1>4, <2>3, <3>1, <3>2 DEF Honest
  <2>4. QED
    BY <2>2, <2>3
<1>9. \A q \in Players : ~clientLink'[q] => inbox'[q] = <<>>
  BY <1>1, <1>4 DEF SyncInv
<1>10. QED
  BY <1>1, <1>2, <1>4, <1>5, <1>7, <1>8, <1>9 DEF SyncInv

LEMMA KillSync ==
  ASSUME SyncInv, NEW p \in Players, Kill(p)
  PROVE  SyncInv'
<1>1. DOMAIN NoResponses = {}
  BY DEF NoResponses
<1>2. /\ clientLink' = [clientLink EXCEPT ![p] = FALSE]
      /\ syncResponse' = [syncResponse EXCEPT ![p] = NoResponses]
      /\ inbox' = [inbox EXCEPT ![p] = <<>>]
      /\ UNCHANGED <<serverFrameNum, outstandingSyncFrames, desynced, simFrame, simState>>
  BY DEF Kill, server
<1>3. /\ clientLink' \in [Players -> BOOLEAN] /\ inbox' \in [Players -> Seq(Message)]
      /\ DOMAIN syncResponse' = Players
      /\ ~clientLink'[p] /\ syncResponse'[p] = NoResponses /\ inbox'[p] = <<>>
      /\ \A q \in Players : q # p => /\ clientLink'[q] = clientLink[q] /\ inbox'[q] = inbox[q]
                                     /\ syncResponse'[q] = syncResponse[q]
  BY <1>2, EmptySeq DEF SyncInv
<1>4. ResponsesOutstanding'
  BY <1>1, <1>2, <1>3 DEF SyncInv, ResponsesOutstanding
<1>5. ASSUME NEW q \in Players, clientLink'[q], simState'[q] = InSync
      PROVE  Honest(q)'
  <2>1. q # p /\ Honest(q)
    BY <1>2, <1>3, <1>5 DEF SyncInv
  <2>2. QED
    BY <1>3, <2>1 DEF Honest
<1>6. \A q \in Players : ~clientLink'[q] => inbox'[q] = <<>>
  BY <1>3 DEF SyncInv
<1>7. QED
  BY <1>2, <1>3, <1>4, <1>5, <1>6 DEF SyncInv

LEMMA ConnectSync ==
  ASSUME SyncInv, NEW p \in Players, Connect(p)
  PROVE  SyncInv'
<1>1. /\ ~clientLink[p] /\ clientLink' = [clientLink EXCEPT ![p] = TRUE]
      /\ simFrame' = [simFrame EXCEPT ![p] = FirstFrame]
      /\ simState' = [simState EXCEPT ![p] = InSync]
      /\ UNCHANGED <<serverFrameNum, outstandingSyncFrames, syncResponse, desynced, inbox>>
  BY DEF Connect, server
<1>2. /\ clientLink' \in [Players -> BOOLEAN] /\ simState' \in [Players -> Checksums]
      /\ simFrame' \in [Players -> Int]
      /\ \A q \in Players : q # p => clientLink'[q] = clientLink[q] /\ simState'[q] = simState[q]
  BY <1>1, TimeoutAssumption, ChecksumAssumption DEF SyncInv
<1>3. DOMAIN syncResponse[p] = {} /\ inbox[p] = <<>>
  BY <1>1 DEF SyncInv, ResponsesOutstanding
<1>4. Honest(p)'
  BY <1>1, <1>3 DEF Honest
<1>5. ASSUME NEW q \in Players, clientLink'[q], simState'[q] = InSync, q # p
      PROVE  Honest(q)'
  <2>1. Honest(q)
    BY <1>2, <1>5 DEF SyncInv
  <2>2. QED
    BY <1>1, <2>1 DEF Honest
<1>6. ResponsesOutstanding'
  BY <1>1, <1>2, <1>3 DEF SyncInv, ResponsesOutstanding
<1>7. \A q \in Players : ~clientLink'[q] => inbox'[q] = <<>>
  BY <1>1, <1>2, <1>3 DEF SyncInv
<1>8. QED
  BY <1>1, <1>2, <1>4, <1>5, <1>6, <1>7 DEF SyncInv

LEMMA CreateNewFrameSync ==
  ASSUME SyncInv, NEW n \in 0..Burst, CreateNewFrame(n)
  PROVE  SyncInv'
<1>1. /\ serverFrameNum' = serverFrameNum + n /\ CheckSync
      /\ outstandingSyncFrames' = Incomplete \cup NewFrames(n)
      /\ UNCHANGED <<clientLink, simFrame, simState, inbox>>
  BY DEF CreateNewFrame, client
<1>2. /\ desynced' = [p \in Players |-> Verdict(p)]
      /\ syncResponse' = [p \in Players |->
           [f \in DOMAIN syncResponse[p] \cap Incomplete |-> syncResponse[p][f]]]
  BY <1>1 DEF CheckSync
<1>3. \A p \in Players : /\ DOMAIN syncResponse'[p] = DOMAIN syncResponse[p] \cap Incomplete
                         /\ \A f \in DOMAIN syncResponse'[p] : syncResponse'[p][f] = syncResponse[p][f]
  BY <1>2
<1>4. desynced' \in [Players -> BOOLEAN]
  <2>1. \A p \in Players : Verdict(p) \in BOOLEAN
    BY DEF Verdict, SyncInv
  <2>2. QED
    BY <1>2, <2>1
<1>5. serverFrameNum' \in Int /\ DOMAIN syncResponse' = Players
  BY <1>1, <1>2, TimeoutAssumption DEF SyncInv
<1>6. ResponsesOutstanding'
  BY <1>1, <1>3 DEF SyncInv, ResponsesOutstanding
<1>7. ASSUME NEW q \in Players, clientLink[q], simState[q] = InSync
      PROVE  Honest(q)'
  <2>1. Honest(q)
    BY <1>7 DEF SyncInv
  <2>2. QED
    BY <1>1, <1>3, <2>1 DEF Honest
<1>8. QED
  BY <1>1, <1>4, <1>5, <1>6, <1>7 DEF SyncInv

LEMMA NextSync == SyncInv /\ [Next]_vars => SyncInv'
<1> SUFFICES ASSUME SyncInv, [Next]_vars PROVE SyncInv'
  OBVIOUS
<1>1. ASSUME NEW p \in Players, Simulate(p) PROVE SyncInv'
  BY <1>1, SimulateSync
<1>2. ASSUME NEW p \in Players, ProcessPacket(p) PROVE SyncInv'
  BY <1>2, ProcessPacketSync
<1>3. ASSUME NEW p \in Players, Kill(p) PROVE SyncInv'
  BY <1>3, KillSync
<1>4. ASSUME NEW p \in Players, Connect(p) PROVE SyncInv'
  BY <1>4, ConnectSync
<1>5. ASSUME NEW p \in Players, NEW c \in Checksums, Diverge(p, c) PROVE SyncInv'
  <2>1. /\ simState' = [simState EXCEPT ![p] = c] /\ c # InSync
        /\ UNCHANGED <<serverFrameNum, outstandingSyncFrames, clientLink, syncResponse,
                       desynced, simFrame, inbox>>
    BY <1>5 DEF Diverge, server, player
  <2>2. simState' \in [Players -> Checksums]
    BY <2>1 DEF SyncInv
  <2>3. ASSUME NEW q \in Players, clientLink[q], simState'[q] = InSync PROVE Honest(q)'
    <3>1. Honest(q)
      BY <2>1, <2>3 DEF SyncInv
    <3>2. QED
      BY <2>1, <3>1 DEF Honest
  <2>4. ResponsesOutstanding'
    BY <2>1 DEF SyncInv, ResponsesOutstanding
  <2>5. QED
    BY <2>1, <2>2, <2>3, <2>4 DEF SyncInv
<1>6. ASSUME NEW n \in 0..Burst, CreateNewFrame(n) PROVE SyncInv'
  BY <1>6, CreateNewFrameSync
<1>7. ASSUME \/ UNCHANGED vars
             \/ \E p \in Players, on \in BOOLEAN : Pause(p, on)
      PROVE  SyncInv'
  <2>1. UNCHANGED <<serverFrameNum, outstandingSyncFrames, player, client>>
    BY <1>7 DEF Pause, vars, server
  <2>2. QED
    BY <2>1 DEF SyncInv, ResponsesOutstanding, Honest, player, client
<1>8. QED
  BY <1>1, <1>2, <1>3, <1>4, <1>5, <1>6, <1>7 DEF Next

\* Checksums are kept for outstanding frames and connected players only, and what a
\* client in sync has given over its connection was in sync (CheckSync, Kill, Connect).
THEOREM Invariance == Spec => []SyncInv
<1>1. Init => SyncInv
  BY InitSync
<1>2. SyncInv /\ [Next]_vars => SyncInv'
  BY NextSync
<1>3. QED
  BY <1>1, <1>2, PTL DEF Spec

\* Checksums are kept for outstanding frames and connected players only.
THEOREM Bookkeeping == Spec => []ResponsesOutstanding
<1>1. SyncInv => ResponsesOutstanding
  BY DEF SyncInv
<1>2. QED
  BY <1>1, Invariance, PTL

-----------------------------------------------------------------------------
(* Verdicts *)

\* The checksum that decides is an answer, and the host's if there is a host.
LEMMA CorrectIsAnAnswer ==
  ASSUME SyncInv, NEW f, NEW c \in CorrectChecksum(f)
  PROVE  \E r \in Answered(f) : c = syncResponse[r][f] /\ (Host # NoHost => r = Host)
<1>1. CASE Host # NoHost
  <2>1. Host \in Players /\ f \in DOMAIN syncResponse[Host] /\ c = syncResponse[Host][f]
    BY <1>1, HostAssumption DEF CorrectChecksum
  <2>2. Host \in Answered(f)
    BY <2>1 DEF Answered, Connected, SyncInv, ResponsesOutstanding
  <2>3. QED
    BY <2>1, <2>2
<1>2. CASE Host = NoHost
  BY <1>2 DEF CorrectChecksum
<1>3. QED
  BY <1>1, <1>2

\* Whoever is accused differs in the last frame it has answered.
LEMMA AccusedByVerdict ==
  ASSUME SyncInv, [Next]_vars, NEW p \in Accused
  PROVE  \E f \in outstandingSyncFrames :
           /\ p \in Answered(f) /\ Differs(p, f)
           /\ \A g \in outstandingSyncFrames : p \in Answered(g) => g <= f
<1>1. p \in Players /\ desynced'[p] /\ ~desynced[p]
  BY DEF Accused, Connected
<1>2. desynced' # desynced
  BY <1>1
<1>3. PICK n \in 0..Burst : CreateNewFrame(n)
  BY <1>2 DEF Next, Simulate, ProcessPacket, Kill, Connect, Diverge, Pause, vars, player
<1>4. Verdict(p)
  BY <1>1, <1>3 DEF CreateNewFrame, CheckSync
<1>5. QED
  BY <1>1, <1>4 DEF Verdict

\* Whoever is accused has answered a frame otherwise than another client.
LEMMA AccusedDiffers ==
  ASSUME SyncInv, [Next]_vars, NEW p \in Accused
  PROVE  \E f, r : /\ {p, r} \subseteq Answered(f)
                   /\ syncResponse[p][f] # syncResponse[r][f]
                   /\ Host # NoHost => r = Host
<1>1. PICK f \in outstandingSyncFrames : p \in Answered(f) /\ Differs(p, f)
  BY AccusedByVerdict
<1>2. PICK c \in CorrectChecksum(f) : syncResponse[p][f] # c
  BY <1>1 DEF Differs
<1>3. PICK r \in Answered(f) : c = syncResponse[r][f] /\ (Host # NoHost => r = Host)
  BY CorrectIsAnAnswer
<1>4. QED
  BY <1>1, <1>2, <1>3

\* Nobody is said to be out of sync while all clients are in sync, whoever came
\* back meanwhile and in whatever order answers arrive (CheckSync, Kill).
THEOREM InnocentsAreSafe == Spec => NoFalseAlarm
<1>1. ASSUME SyncInv, [Next]_vars
      PROVE  Accused # {} => InSyncPlayers # Connected
  <2>1. SUFFICES ASSUME NEW p \in Accused, InSyncPlayers = Connected PROVE FALSE
    OBVIOUS
  <2>2. PICK f, r : /\ {p, r} \subseteq Answered(f)
                    /\ syncResponse[p][f] # syncResponse[r][f]
    BY <1>1, AccusedDiffers
  <2>3. \A q \in Answered(f) : syncResponse[q][f] = InSync
    BY <1>1, <2>1 DEF SyncInv, Honest, Answered, Connected, InSyncPlayers
  <2>4. QED
    BY <2>2, <2>3
<1>2. QED
  BY <1>1, Invariance, PTL DEF Spec, NoFalseAlarm

\* "dictatorship; all player checksums must match the local client's" (605): a
\* client is accused only if it, or the host, has gone out of sync.
THEOREM DictatorshipOfTheHost ==
  ASSUME Host # NoHost
  PROVE  Spec => HostDecides
<1>1. ASSUME SyncInv, [Next]_vars
      PROVE  \A p \in Accused : simState[p] # InSync \/ simState[Host] # InSync
  <2>1. SUFFICES ASSUME NEW p \in Accused, simState[p] = InSync, simState[Host] = InSync
                 PROVE  FALSE
    OBVIOUS
  <2>2. PICK f, r : /\ {p, r} \subseteq Answered(f)
                    /\ syncResponse[p][f] # syncResponse[r][f]
                    /\ r = Host
    BY <1>1, AccusedDiffers
  <2>3. syncResponse[p][f] = InSync /\ syncResponse[Host][f] = InSync
    BY <1>1, <2>1, <2>2 DEF SyncInv, Honest, Answered, Connected
  <2>4. QED
    BY <2>2, <2>3
<1>2. QED
  BY <1>1, Invariance, PTL DEF Spec, HostDecides

-----------------------------------------------------------------------------
(* Which frames are outstanding *)

LEMMA UnsignedIs ==
  ASSUME NEW n \in Int, 0 - WordSize <= n, n < WordSize
  PROVE  Unsigned(n) = IF n >= 0 THEN n ELSE n + WordSize
BY TimeoutAssumption DEF Unsigned

\* A frame is removed for its age only if it is older than the timeout, or in the
\* first frames of a game, when the difference is negative, whatever its age.
LEMMA TimedOutIs ==
  ASSUME NEW f \in 0..LastFrame, serverFrameNum \in -1..LastFrame
  PROVE  TimedOut(f) <=> f < serverFrameNum - SyncCheckTimeout
                         \/ serverFrameNum < SyncCheckTimeout
<1>1. /\ LastFrame \in Nat /\ SyncCheckTimeout \in Nat /\ WordSize \in Nat
      /\ WordSize > 2 * (LastFrame + SyncCheckTimeout + 1)
  BY TimeoutAssumption
<1>2. Unsigned(f) = f
  BY <1>1, UnsignedIs
<1>3. Unsigned(serverFrameNum - SyncCheckTimeout) =
        IF serverFrameNum >= SyncCheckTimeout THEN serverFrameNum - SyncCheckTimeout
        ELSE serverFrameNum - SyncCheckTimeout + WordSize
  <2>1. /\ serverFrameNum - SyncCheckTimeout \in Int
        /\ 0 - WordSize <= serverFrameNum - SyncCheckTimeout
        /\ serverFrameNum - SyncCheckTimeout < WordSize
    BY <1>1
  <2>2. QED
    BY <1>1, <2>1, UnsignedIs
<1>4. QED
  BY <1>1, <1>2, <1>3 DEF TimedOut

\* The only step that removes outstanding frames, or adds any.
LEMMA OnlyNewFrames ==
  ASSUME [Next]_vars
  PROVE  \/ UNCHANGED <<serverFrameNum, outstandingSyncFrames>>
         \/ \E n \in 0..Burst : CreateNewFrame(n)
BY DEF Next, Simulate, ProcessPacket, Kill, Connect, Diverge, Pause, vars, server

\* Frames are numbers the server has reached.
FramesInv ==
  /\ serverFrameNum \in -1..LastFrame
  /\ outstandingSyncFrames \subseteq 0..LastFrame
  /\ OutstandingRecent

LEMMA NewFramesRecent ==
  ASSUME FramesInv, NEW n \in 0..Burst, CreateNewFrame(n)
  PROVE  FramesInv'
<1>1. /\ LastFrame \in Nat /\ SyncCheckTimeout \in Nat /\ Burst \in Nat
      /\ serverFrameNum \in -1..LastFrame
  BY TimeoutAssumption DEF FramesInv
<1>2. /\ serverFrameNum' = serverFrameNum + n /\ serverFrameNum + n <= LastFrame
      /\ outstandingSyncFrames' = Incomplete \cup NewFrames(n)
  BY DEF CreateNewFrame
<1>3. ASSUME NEW f \in Incomplete
      PROVE  f \in 0..LastFrame /\ serverFrameNum - SyncCheckTimeout <= f /\ f <= serverFrameNum
  <2>1. f \in 0..LastFrame /\ ~TimedOut(f)
    BY <1>3 DEF Incomplete, CompleteResponseSet, FramesInv
  <2>2. f \in (serverFrameNum - SyncCheckTimeout - Burst)..serverFrameNum
    BY <1>3 DEF Incomplete, FramesInv, OutstandingRecent
  <2>3. QED
    BY <1>1, <2>1, <2>2, TimedOutIs
<1>4. ASSUME NEW f \in NewFrames(n)
      PROVE  f \in 0..LastFrame /\ serverFrameNum < f /\ f <= serverFrameNum + n
  BY <1>1, <1>2, <1>4 DEF NewFrames
<1>5. serverFrameNum' \in -1..LastFrame /\ outstandingSyncFrames' \subseteq 0..LastFrame
  BY <1>1, <1>2, <1>3, <1>4
<1>6. ASSUME NEW f \in outstandingSyncFrames'
      PROVE  f \in (serverFrameNum' - SyncCheckTimeout - Burst)..serverFrameNum'
  BY <1>1, <1>2, <1>3, <1>4, <1>6
<1>7. QED
  BY <1>5, <1>6 DEF FramesInv, OutstandingRecent

\* The outstanding frames are recent ones, however the server's frames come in bursts.
THEOREM FramesInvariance == Spec => []FramesInv
<1>1. Init => FramesInv
  BY TimeoutAssumption DEF Init, FramesInv, OutstandingRecent
<1>2. FramesInv /\ [Next]_vars => FramesInv'
  <2>1. ASSUME FramesInv, UNCHANGED <<serverFrameNum, outstandingSyncFrames>> PROVE FramesInv'
    BY <2>1 DEF FramesInv, OutstandingRecent
  <2>2. QED
    BY <2>1, NewFramesRecent, OnlyNewFrames
<1>3. QED
  BY <1>1, <1>2, PTL DEF Spec

\* No frame stays outstanding for longer than the timeout and one burst of new
\* frames, whoever does not answer (CheckSync 676, 752).
THEOREM NothingStaysOutstanding == Spec => []OutstandingRecent
<1>1. FramesInv => OutstandingRecent
  BY DEF FramesInv
<1>2. QED
  BY <1>1, FramesInvariance, PTL

\* A frame that some connected client has not answered is given up only when it
\* is older than the timeout (CheckSync 752).
THEOREM FramesWaitForAnswers == Spec => Patient
<1>1. ASSUME FramesInv, [Next]_vars
      PROVE  \A f \in outstandingSyncFrames \ outstandingSyncFrames' :
               serverFrameNum >= SyncCheckTimeout =>
                 Connected \subseteq Answered(f) \/ f < serverFrameNum - SyncCheckTimeout
  <2>1. SUFFICES ASSUME NEW f \in outstandingSyncFrames \ outstandingSyncFrames',
                        serverFrameNum >= SyncCheckTimeout
                 PROVE  Connected \subseteq Answered(f) \/ f < serverFrameNum - SyncCheckTimeout
    OBVIOUS
  <2>2. PICK n \in 0..Burst : CreateNewFrame(n)
    BY <1>1, <2>1, OnlyNewFrames
  <2>3. CompleteResponseSet(f)
    BY <2>1, <2>2 DEF CreateNewFrame, Incomplete
  <2>4. f \in 0..LastFrame /\ serverFrameNum \in -1..LastFrame
    BY <1>1, <2>1 DEF FramesInv
  <2>5. CASE TimedOut(f)
    <3>1. f < serverFrameNum - SyncCheckTimeout \/ serverFrameNum < SyncCheckTimeout
      BY <2>4, <2>5, TimedOutIs
    <3>2. QED
      BY <2>1, <2>4, <3>1, TimeoutAssumption
  <2>6. QED
    BY <2>3, <2>5 DEF CompleteResponseSet
<1>2. QED
  BY <1>1, FramesInvariance, PTL DEF Spec, Patient

-----------------------------------------------------------------------------
(* The frames of the last messages.  The function in LastMessage is recursive; *)
(* that it exists, and what it yields, is shown by its least counterexample.   *)

LEMMA LeastNumber ==
  ASSUME NEW T, T \subseteq Nat, T # {}
  PROVE  \E m \in T : \A k \in T : m <= k
<1>1. PICK m \in T : \A k \in T : <<k, m>> \notin OpToRel(<, Nat)
  BY WFMin, NatLessThanWellFounded, Zenon
<1>2. \A k \in T : ~(k < m)
  <2>1. SUFFICES ASSUME NEW k \in T, k < m PROVE FALSE
    OBVIOUS
  <2>2. k \in Nat /\ m \in Nat
    OBVIOUS
  <2>3. <<k, m>> \in OpToRel(<, Nat)
    BY <2>1, <2>2, Zenon DEF OpToRel
  <2>4. QED
    BY <1>1, <2>3
<1>3. QED
  BY <1>2

\* one frame's step of the fold, g being the frames of the last messages
Upto(g, n, S, last) ==
  IF n = -1 THEN last
  ELSE IF n \in S /\ (g[n - 1] = 0 \/ Unsigned(n - g[n - 1]) > MsgTimeout) THEN n ELSE g[n - 1]

IsUpto(g, N, S, last) == g = [n \in -1..N |-> Upto(g, n, S, last)]

LEMMA MessagesExist ==
  ASSUME NEW S, NEW last, NEW N \in Nat
  PROVE  \E g : IsUpto(g, N - 1, S, last)
<1> DEFINE Exists(k) == \E g : IsUpto(g, k - 1, S, last)
           Bad == {k \in Nat : ~Exists(k)}
<1>1. SUFFICES ASSUME Bad # {} PROVE FALSE
  OBVIOUS
<1>2. PICK k \in Bad : \A j \in Bad : k <= j
  <2> HIDE DEF Bad
  <2>1. Bad \subseteq Nat
    BY DEF Bad
  <2>2. QED
    BY <1>1, <2>1, LeastNumber
<1>3. k \in Nat /\ ~Exists(k)
  OBVIOUS
<1>4. CASE k = 0
  <2> DEFINE g == [n \in -1..-1 |-> last]
  <2>1. IsUpto(g, k - 1, S, last)
    BY <1>4 DEF IsUpto, Upto
  <2>2. QED
    BY <1>3, <2>1
<1>5. CASE k > 0
  <2>1. k - 1 \in Nat /\ Exists(k - 1)
    BY <1>2, <1>3, <1>5
  <2>2. PICK g : g = [n \in -1..(k - 2) |-> Upto(g, n, S, last)]
    BY <1>3, <2>1 DEF IsUpto
  <2> DEFINE h == [n \in -1..(k - 1) |-> IF n = k - 1 THEN Upto(g, n, S, last) ELSE g[n]]
  <2>3. ASSUME NEW n \in -1..(k - 1)
        PROVE  h[n] = Upto(g, n, S, last) /\ Upto(h, n, S, last) = Upto(g, n, S, last)
    <3>1. h[n] = Upto(g, n, S, last)
      <4>1. CASE n = k - 1
        BY <4>1
      <4>2. CASE n # k - 1
        <5>1. n \in -1..(k - 2) /\ h[n] = g[n]
          BY <1>3, <1>5, <4>2
        <5>2. QED
          BY <2>2, <5>1
      <4>3. QED
        BY <4>1, <4>2
    <3>2. n = -1 \/ h[n - 1] = g[n - 1]
      BY <1>3, <1>5
    <3>3. QED
      BY <3>1, <3>2 DEF Upto
  <2>4. h = [n \in -1..(k - 1) |-> h[n]]
    OBVIOUS
  <2>5. h = [n \in -1..(k - 1) |-> Upto(h, n, S, last)]
    <3> HIDE DEF h
    <3>1. QED
      BY <2>3, <2>4
  <2>6. QED
    BY <1>3, <2>5 DEF IsUpto
<1>6. QED
  BY <1>3, <1>4, <1>5

\* The frame of the last message is that of a message there was before, or one
\* of the frames with a message now.
LEMMA LastMessageIs ==
  ASSUME NEW S, NEW last, serverFrameNum \in Nat \cup {-1}
  PROVE  LastMessage(S, last) \in S \cup {last}
<1> DEFINE N == serverFrameNum
           upto == CHOOSE g : g = [n \in -1..N |-> Upto(g, n, S, last)]
           Bad == {k \in Nat : k - 1 <= N /\ upto[k - 1] \notin S \cup {last}}
<1>1. LastMessage(S, last) = upto[N]
  BY DEF LastMessage, Upto
<1>2. upto = [n \in -1..N |-> Upto(upto, n, S, last)]
  <2>1. N + 1 \in Nat /\ (N + 1) - 1 = N
    OBVIOUS
  <2>2. PICK M \in Nat : M - 1 = N
    BY <2>1
  <2>3. PICK g : IsUpto(g, M - 1, S, last)
    BY MessagesExist
  <2>4. g = [n \in -1..N |-> Upto(g, n, S, last)]
    BY <2>2, <2>3 DEF IsUpto
  <2>5. QED
    BY <2>4
<1> HIDE DEF upto
<1>3. Bad = {}
  <2>1. SUFFICES ASSUME Bad # {} PROVE FALSE
    OBVIOUS
  <2>2. PICK k \in Bad : \A j \in Bad : k <= j
    <3>1. Bad \subseteq Nat
      OBVIOUS
    <3>2. QED
      BY <2>1, <3>1, LeastNumber
  <2>3. k \in Nat /\ k - 1 \in -1..N /\ upto[k - 1] \notin S \cup {last}
    OBVIOUS
  <2>4. upto[k - 1] = Upto(upto, k - 1, S, last)
    BY <1>2, <2>3
  <2>5. CASE k = 0
    BY <2>3, <2>4, <2>5 DEF Upto
  <2>6. CASE k > 0
    <3>1. k - 1 \in Nat /\ (k - 1) - 1 <= N /\ k - 1 \notin Bad
      BY <2>2, <2>3, <2>6
    <3>2. upto[(k - 1) - 1] \in S \cup {last}
      BY <3>1
    <3>3. QED
      BY <2>3, <2>4, <3>1, <3>2 DEF Upto
  <2>7. QED
    BY <2>3, <2>5, <2>6
<1>4. ~(N + 1 \in Nat /\ (N + 1) - 1 <= N /\ upto[(N + 1) - 1] \notin S \cup {last})
  BY <1>3
<1>5. N + 1 \in Nat /\ (N + 1) - 1 = N /\ N <= N
  OBVIOUS
<1>6. QED
  BY <1>1, <1>4, <1>5

-----------------------------------------------------------------------------
(* Types *)

LEMMA InitTypes == Init => TypeOK
<1> SUFFICES ASSUME Init PROVE TypeOK
  OBVIOUS
<1>1. FirstFrame \in -1..LastFrame /\ LastFrame \in Nat
  BY TimeoutAssumption
<1>2. DOMAIN syncResponse = Players /\ \A p \in Players : syncResponse[p] = NoResponses
  BY DEF Init
<1>3. NoResponses \in [DOMAIN NoResponses -> Checksums]
  BY DEF NoResponses
<1>4. \A p \in Players : syncResponse[p] \in [DOMAIN syncResponse[p] -> Checksums]
  BY <1>2, <1>3
<1>5. /\ lastFrameResponse \in [Players -> 0..LastFrame] /\ simFrame \in [Players -> -1..LastFrame]
  BY <1>1 DEF Init
<1>6. /\ serverFrameNum \in -1..LastFrame /\ outstandingSyncFrames \subseteq 0..LastFrame
      /\ syncErrorFrame \in 0..LastFrame /\ syncWarningFrame \in 0..LastFrame
  BY <1>1 DEF Init
<1>7. /\ clientLink \in [Players -> BOOLEAN] /\ desynced \in [Players -> BOOLEAN]
      /\ isPaused \in BOOLEAN /\ simState \in [Players -> Checksums]
  BY ChecksumAssumption DEF Init
<1>8. QED
  BY <1>2, <1>4, <1>5, <1>6, <1>7 DEF TypeOK

LEMMA SimulateTypes ==
  ASSUME TypeOK, SyncInv, NEW p \in Players, Simulate(p)
  PROVE  TypeOK'
<1>1. /\ simFrame' = [simFrame EXCEPT ![p] = simFrame[p] + 1]
      /\ simFrame[p] < serverFrameNum
      /\ UNCHANGED <<server, player, simState>>
  BY DEF Simulate
<1>2. simFrame[p] + 1 \in -1..LastFrame
  BY <1>1, TimeoutAssumption DEF TypeOK
<1>3. simFrame' \in [Players -> -1..LastFrame]
  BY <1>1, <1>2 DEF TypeOK
<1>4. QED
  BY <1>1, <1>3 DEF TypeOK, server, player

LEMMA ProcessPacketTypes ==
  ASSUME TypeOK, SyncInv, NEW p \in Players, ProcessPacket(p)
  PROVE  TypeOK'
<1> DEFINE m == Head(inbox[p])
<1>1. /\ inbox[p] # <<>> /\ inbox[p] \in Seq(Message) /\ FrameResponse(p, m.frame)
      /\ UNCHANGED <<server, clientLink, desynced, simFrame, simState>>
      /\ syncResponse' =
           IF m.kind = "response" /\ m.frame \in outstandingSyncFrames
           THEN [syncResponse EXCEPT ![p] =
                   [f \in DOMAIN @ \cup {m.frame} |-> IF f = m.frame THEN m.checksum ELSE @[f]]]
           ELSE syncResponse
  BY DEF ProcessPacket, SyncInv
<1>2. m \in Message
  BY <1>1, HeadTailProperties
<1> HIDE DEF m
<1>3. m.frame \in Int /\ (m.kind = "response" => m.checksum \in Checksums)
  BY <1>2 DEF Message
<1>4. lastFrameResponse' \in [Players -> 0..LastFrame]
  <2> DEFINE r == IF m.frame <= serverFrameNum /\ m.frame > lastFrameResponse[p]
                  THEN m.frame ELSE lastFrameResponse[p]
  <2>1. serverFrameNum \in -1..LastFrame /\ lastFrameResponse[p] \in 0..LastFrame /\ LastFrame \in Nat
    BY TimeoutAssumption DEF TypeOK
  <2>2. r \in 0..LastFrame
    BY <1>3, <2>1
  <2>3. lastFrameResponse' = [lastFrameResponse EXCEPT ![p] = r]
    BY <1>1 DEF FrameResponse
  <2> HIDE DEF r
  <2>4. QED
    BY <2>2, <2>3 DEF TypeOK
<1>5. /\ DOMAIN syncResponse' = Players
      /\ \A q \in Players : syncResponse'[q] \in [DOMAIN syncResponse'[q] -> Checksums]
  <2>1. CASE syncResponse' = syncResponse
    BY <2>1 DEF TypeOK
  <2>2. CASE m.kind = "response" /\ m.frame \in outstandingSyncFrames
    <3> DEFINE r == [f \in DOMAIN syncResponse[p] \cup {m.frame} |->
                       IF f = m.frame THEN m.checksum ELSE syncResponse[p][f]]
    <3>1. r \in [DOMAIN r -> Checksums]
      BY <1>3, <2>2 DEF TypeOK
    <3>2. DOMAIN syncResponse' = Players /\ syncResponse'[p] = r
          /\ \A q \in Players : q # p => syncResponse'[q] = syncResponse[q]
      BY <1>1, <2>2 DEF TypeOK
    <3> HIDE DEF r
    <3>3. QED
      BY <3>1, <3>2 DEF TypeOK
  <2>3. QED
    BY <1>1, <2>1, <2>2
<1>6. QED
  BY <1>1, <1>4, <1>5 DEF TypeOK, server

LEMMA CreateNewFrameTypes ==
  ASSUME TypeOK, NEW n \in 0..Burst, CreateNewFrame(n)
  PROVE  TypeOK'
<1>1. /\ serverFrameNum' = serverFrameNum + n /\ serverFrameNum + n <= LastFrame /\ CheckSync
      /\ outstandingSyncFrames' = Incomplete \cup NewFrames(n)
      /\ UNCHANGED <<isPaused, clientLink, lastFrameResponse, simFrame, simState>>
  BY DEF CreateNewFrame, client
<1>2. serverFrameNum' \in -1..LastFrame /\ outstandingSyncFrames' \subseteq 0..LastFrame
  <2>1. LastFrame \in Nat /\ Burst \in Nat /\ serverFrameNum \in -1..LastFrame /\ n \in Nat
    BY TimeoutAssumption DEF TypeOK
  <2>2. Incomplete \subseteq 0..LastFrame
    BY DEF TypeOK, Incomplete
  <2>3. NewFrames(n) \subseteq 0..LastFrame
    BY <1>1, <2>1 DEF NewFrames
  <2>4. serverFrameNum + n \in -1..LastFrame
    BY <1>1, <2>1
  <2>5. Incomplete \cup NewFrames(n) \subseteq 0..LastFrame
    BY <2>2, <2>3
  <2>6. QED
    BY <1>1, <2>4, <2>5
<1>3. /\ DOMAIN syncResponse' = Players
      /\ \A p \in Players : syncResponse'[p] \in [DOMAIN syncResponse'[p] -> Checksums]
  <2> DEFINE kept(p) == [f \in DOMAIN syncResponse[p] \cap Incomplete |-> syncResponse[p][f]]
  <2>1. \A p \in Players : kept(p) \in [DOMAIN kept(p) -> Checksums]
    BY DEF TypeOK
  <2>2. syncResponse' = [p \in Players |-> kept(p)]
    BY <1>1 DEF CheckSync
  <2> HIDE DEF kept
  <2>3. QED
    BY <2>1, <2>2
<1>4. desynced' \in [Players -> BOOLEAN]
  <2>1. \A p \in Players : Verdict(p) \in BOOLEAN
    BY DEF Verdict, TypeOK
  <2>2. QED
    BY <1>1, <2>1 DEF CheckSync
<1>5. syncErrorFrame' \in 0..LastFrame /\ syncWarningFrame' \in 0..LastFrame
  <2>1. serverFrameNum \in Nat \cup {-1}
    BY TimeoutAssumption DEF TypeOK
  <2>2. /\ DesyncFrames \cup {syncErrorFrame} \subseteq 0..LastFrame
        /\ SilentFrames \cup {syncWarningFrame} \subseteq 0..LastFrame
    BY DEF TypeOK, DesyncFrames, SilentFrames
  <2>3. /\ LastMessage(DesyncFrames, syncErrorFrame) \in DesyncFrames \cup {syncErrorFrame}
        /\ LastMessage(SilentFrames, syncWarningFrame) \in SilentFrames \cup {syncWarningFrame}
    BY <2>1, LastMessageIs
  <2>4. QED
    BY <1>1, <2>2, <2>3 DEF CheckSync
<1>6. QED
  BY <1>1, <1>2, <1>3, <1>4, <1>5 DEF TypeOK

LEMMA NextTypes == TypeOK /\ SyncInv /\ [Next]_vars => TypeOK'
<1> SUFFICES ASSUME TypeOK, SyncInv, [Next]_vars PROVE TypeOK'
  OBVIOUS
<1>1. ASSUME NEW p \in Players, Simulate(p) PROVE TypeOK'
  BY <1>1, SimulateTypes
<1>2. ASSUME NEW p \in Players, ProcessPacket(p) PROVE TypeOK'
  BY <1>2, ProcessPacketTypes
<1>3. ASSUME NEW p \in Players, Kill(p) PROVE TypeOK'
  <2>1. NoResponses \in [DOMAIN NoResponses -> Checksums]
    BY DEF NoResponses
  <2>2. /\ DOMAIN syncResponse' = Players /\ syncResponse'[p] = NoResponses
        /\ \A q \in Players : q # p => syncResponse'[q] = syncResponse[q]
    BY <1>3 DEF Kill, TypeOK
  <2>3. \A q \in Players : syncResponse'[q] \in [DOMAIN syncResponse'[q] -> Checksums]
    BY <2>1, <2>2 DEF TypeOK
  <2>4. QED
    BY <1>3, <2>2, <2>3 DEF Kill, TypeOK, server
<1>4. ASSUME NEW p \in Players, Connect(p) PROVE TypeOK'
  <2>1. FirstFrame \in -1..LastFrame /\ 0 \in 0..LastFrame /\ InSync \in Checksums
    BY TimeoutAssumption, ChecksumAssumption
  <2>2. QED
    BY <1>4, <2>1 DEF Connect, TypeOK, server
<1>5. ASSUME NEW p \in Players, NEW c \in Checksums, Diverge(p, c) PROVE TypeOK'
  BY <1>5 DEF Diverge, TypeOK, server, player
<1>6. ASSUME NEW p \in Players, NEW on \in BOOLEAN, Pause(p, on) PROVE TypeOK'
  BY <1>6, TimeoutAssumption DEF Pause, TypeOK, player, client
<1>7. ASSUME NEW n \in 0..Burst, CreateNewFrame(n) PROVE TypeOK'
  BY <1>7, CreateNewFrameTypes
<1>8. ASSUME UNCHANGED vars PROVE TypeOK'
  BY <1>8 DEF vars, server, player, client, TypeOK
<1>9. QED
  BY <1>1, <1>2, <1>3, <1>4, <1>5, <1>6, <1>7, <1>8 DEF Next

\* All variables have their types; the frames of the last messages are frames.
THEOREM TypeCorrect == Spec => []TypeOK
<1>1. Init => TypeOK
  BY InitTypes
<1>2. TypeOK /\ SyncInv /\ [Next]_vars => TypeOK'
  BY NextTypes
<1>3. QED
  BY <1>1, <1>2, Invariance, PTL DEF Spec

-----------------------------------------------------------------------------
(* The vote *)

LEMMA FiniteSetHasMax ==
  ASSUME NEW S \in SUBSET Nat, IsFiniteSet(S), S # {}
  PROVE  \E m \in S : \A k \in S : k <= m
<1> DEFINE HasMax(U) == \E m \in U : \A k \in U : k <= m
           Bad == {n \in Nat : \E U \in SUBSET S : U # {} /\ Cardinality(U) = n /\ ~HasMax(U)}
<1>1. SUFFICES ASSUME Bad # {} PROVE FALSE
  <2>1. S \in SUBSET S /\ Cardinality(S) \in Nat
    BY FS_CardinalityType
  <2>2. QED
    BY <1>1, <2>1
<1>2. PICK n \in Bad : \A j \in Bad : n <= j
  <2>1. Bad \subseteq Nat
    OBVIOUS
  <2> HIDE DEF Bad
  <2>2. QED
    BY <1>1, <2>1, LeastNumber
<1>3. PICK U \in SUBSET S : U # {} /\ Cardinality(U) = n /\ ~HasMax(U)
  OBVIOUS
<1>4. PICK x \in U : TRUE
  BY <1>3
<1>5. /\ IsFiniteSet(U \ {x}) /\ Cardinality(U \ {x}) = n - 1 /\ n - 1 \in Nat
  <2>1. IsFiniteSet(U)
    BY <1>3, FS_Subset
  <2>2. IsFiniteSet(U \ {x}) /\ Cardinality(U \ {x}) = Cardinality(U) - 1
    BY <1>4, <2>1, FS_RemoveElement
  <2>3. Cardinality(U \ {x}) \in Nat
    BY <2>2, FS_CardinalityType
  <2>4. QED
    BY <1>3, <2>2, <2>3
<1>6. CASE U \ {x} = {}
  BY <1>3, <1>4, <1>6
<1>7. CASE U \ {x} # {}
  <2>1. HasMax(U \ {x})
    BY <1>2, <1>5, <1>7
  <2>2. PICK m \in U \ {x} : \A k \in U \ {x} : k <= m
    BY <2>1
  <2>3. m \in Nat /\ x \in Nat /\ U \subseteq Nat
    BY <1>3, <1>4
  <2>4. CASE x <= m
    <3>1. \A k \in U : k <= m
      BY <2>2, <2>4
    <3>2. QED
      BY <1>3, <3>1
  <2>5. CASE m < x
    <3>1. \A k \in U : k <= x
      BY <2>2, <2>3, <2>5
    <3>2. QED
      BY <1>3, <1>4, <3>1
  <2>6. QED
    BY <2>3, <2>4, <2>5
<1>8. QED
  BY <1>6, <1>7

\* Without a host, a frame that everybody answered is decided by a majority in sync.
LEMMA VoteOfTheMajority ==
  ASSUME SyncInv, Host = NoHost, Majority,
         NEW f, Connected \subseteq Answered(f), NEW c \in CorrectChecksum(f)
  PROVE  c = InSync
<1> DEFINE S == InSyncPlayers
           Others == Connected \ S
<1>1. SUFFICES ASSUME c # InSync PROVE FALSE
  OBVIOUS
<1>2. PICK q \in Answered(f) : c = syncResponse[q][f] /\ Decisive(f, q)
  BY DEF CorrectChecksum
<1>3. Answered(f) = Connected /\ S \subseteq Connected /\ Connected \subseteq Nat /\ Players \subseteq Nat
  BY PlayersAssumption DEF Answered, Connected, InSyncPlayers
<1>4. \A p \in S : syncResponse[p][f] = InSync
  BY <1>3 DEF SyncInv, Honest, Answered, Connected, InSyncPlayers
<1>5. /\ IsFiniteSet(Connected) /\ IsFiniteSet(S) /\ IsFiniteSet(Others)
      /\ Cardinality(Connected) \in Nat /\ Cardinality(S) \in Nat /\ Cardinality(Others) \in Nat
      /\ Cardinality(Others) = Cardinality(Connected) - Cardinality(S)
  <2>1. Connected \in SUBSET Players /\ S \in SUBSET Connected /\ Others \in SUBSET Connected
    BY DEF Connected, InSyncPlayers
  <2>2. IsFiniteSet(Connected) /\ IsFiniteSet(S) /\ IsFiniteSet(Others)
    BY <2>1, PlayersAssumption, FS_Subset
  <2>3. Connected \cap S = S
    BY <2>1
  <2>4. QED
    BY <2>2, <2>3, FS_Difference, FS_CardinalityType
<1> HIDE DEF S, Others
<1>6. Cardinality(S) > Cardinality(Others)
  BY <1>5 DEF Majority, S
<1>7. S # {}
  BY <1>5, <1>6, FS_EmptySet
<1>8. PICK r \in S : \A k \in S : k <= r
  <2>1. S \in SUBSET Nat
    BY <1>3
  <2>2. QED
    BY <1>5, <1>7, <2>1, FiniteSetHasMax
<1>9. Votes(f, InSync, r) \in Nat /\ Votes(f, InSync, r) >= Cardinality(S)
  <2> DEFINE V == {p \in Answered(f) : p <= r /\ syncResponse[p][f] = InSync}
  <2>1. V \in SUBSET Connected /\ S \in SUBSET V
    BY <1>3, <1>4, <1>8
  <2>2. IsFiniteSet(V) /\ Cardinality(S) <= Cardinality(V) /\ Cardinality(V) \in Nat
    BY <1>5, <2>1, FS_Subset, FS_CardinalityType
  <2>3. QED
    BY <1>5, <2>2 DEF Votes
<1>10. Votes(f, c, q) \in Nat /\ Votes(f, c, q) <= Cardinality(Others)
  <2> DEFINE V == {p \in Answered(f) : p <= q /\ syncResponse[p][f] = c}
  <2>1. V \in SUBSET Others
    BY <1>1, <1>3, <1>4 DEF Others
  <2>2. IsFiniteSet(V) /\ Cardinality(V) <= Cardinality(Others) /\ Cardinality(V) \in Nat
    BY <1>5, <2>1, FS_Subset, FS_CardinalityType
  <2>3. QED
    BY <2>2 DEF Votes
<1>11. r \in Answered(f) /\ syncResponse[r][f] = InSync
  BY <1>3, <1>4, <1>8
<1>12. Votes(f, InSync, r) <= Votes(f, c, q)
  BY <1>2, <1>9, <1>10, <1>11 DEF Decisive
<1>13. QED
  BY <1>5, <1>6, <1>9, <1>10, <1>12

\* On a dedicated server, once all clients have answered the frame a verdict rests
\* on, those in sync are safe when they are more than half of all (CheckSync 610-655).
THEOREM MajorityRules ==
  ASSUME Host = NoHost
  PROVE  Spec => MajorityDecides
<1>1. ASSUME SyncInv, FramesInv, [Next]_vars
      PROVE  \A p \in Accused :
               LET frames == {f \in outstandingSyncFrames : p \in Answered(f)}
               IN  (Majority /\ \E f \in frames : (\A g \in frames : g <= f) /\ Connected \subseteq Answered(f))
                     => simState[p] # InSync
  <2>1. SUFFICES ASSUME NEW p \in Accused,
                        NEW f \in {g \in outstandingSyncFrames : p \in Answered(g)},
                        Majority, Connected \subseteq Answered(f), simState[p] = InSync,
                        \A g \in {h \in outstandingSyncFrames : p \in Answered(h)} : g <= f
                 PROVE  FALSE
    OBVIOUS
  <2>2. PICK g \in outstandingSyncFrames :
          /\ p \in Answered(g) /\ Differs(p, g)
          /\ \A h \in outstandingSyncFrames : p \in Answered(h) => h <= g
    BY <1>1, <2>1, AccusedByVerdict
  <2>3. g = f
    <3>1. g <= f /\ f <= g
      BY <2>1, <2>2
    <3>2. g \in Int /\ f \in Int
      BY <1>1, <2>1, <2>2 DEF FramesInv
    <3>3. QED
      BY <3>1, <3>2
  <2>4. PICK c \in CorrectChecksum(f) : syncResponse[p][f] # c
    BY <2>2, <2>3 DEF Differs
  <2>5. c = InSync
    BY <1>1, <2>1, VoteOfTheMajority
  <2>6. syncResponse[p][f] = InSync
    BY <1>1, <2>1 DEF SyncInv, Honest, Answered, Connected
  <2>7. QED
    BY <2>4, <2>5, <2>6
<1>2. QED
  BY <1>1, Invariance, FramesInvariance, PTL DEF Spec, MajorityDecides

=============================================================================
