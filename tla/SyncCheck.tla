----------------------------- MODULE SyncCheck -----------------------------
(***************************************************************************)
(* How the game server finds out that a client's simulation has gone out   *)
(* of sync: CGameServer::CheckSync and the handlers that feed it           *)
(* (rts/Net/GameServer.cpp).  Every simulated frame is answered by each    *)
(* client with a checksum; the server compares the checksums of each       *)
(* outstanding frame whenever it creates new frames.                       *)
(*                                                                         *)
(* Clients are modelled as far as they produce answers: a client simulates *)
(* the frames in order, and its checksum is that of the game state it is   *)
(* in, InSync or another.  Connections deliver in order (UDPConnection).   *)
(* Playing a demo is not modelled (demoReader is null).  Frame numbers are *)
(* int, but CheckSync compares them as unsigned: Unsigned is that          *)
(* conversion, with a word of WordSize values.                             *)
(***************************************************************************)
EXTENDS Integers, Sequences, FiniteSets

CONSTANTS
  Players,           \* player numbers
  Host,              \* localClientNumber, NoHost on a dedicated server
  NoHost,
  MayPause,          \* gamePausable or local, and not a spectator
  Checksums, InSync, \* game states a client can be in, and the right one
  SyncCheckTimeout,  \* SYNCCHECK_TIMEOUT, 300
  MsgTimeout,        \* SYNCCHECK_MSG_TIMEOUT, 400
  KeyframeInterval,  \* serverKeyframeInterval, 16
  WordSize,          \* 2^32
  FirstFrame,        \* -1, or that of a loaded game: all clients have answered it
  Burst,             \* numNewFrames is at most this
  LastFrame,         \* bound: no frame is created after this one
  Rejoins            \* bound: how often players connect after the start

ASSUME PlayersAssumption ==
  Players \subseteq Nat /\ IsFiniteSet(Players) /\ MayPause \subseteq Players
ASSUME HostAssumption == NoHost \notin Players /\ Host \in Players \cup {NoHost}
ASSUME TimeoutAssumption ==
  /\ SyncCheckTimeout \in Nat /\ MsgTimeout \in Nat
  /\ Burst \in Nat /\ KeyframeInterval \in Nat \ {0}
  /\ FirstFrame \in Nat \cup {-1} /\ LastFrame \in Nat /\ FirstFrame <= LastFrame
  /\ WordSize \in Nat /\ WordSize > 2 * (LastFrame + SyncCheckTimeout + MsgTimeout + 1)
ASSUME ChecksumAssumption == InSync \in Checksums

VARIABLES
  serverFrameNum, outstandingSyncFrames,
  clientLink,         \* whether the player has a connection
  syncResponse,       \* checksums received, by player and frame
  lastFrameResponse,
  desynced,
  syncErrorFrame, syncWarningFrame,
  isPaused,
  simFrame,           \* client: the last frame simulated
  simState,           \* client: the game state it is in
  inbox,              \* messages of the client the server has not read
  joined              \* number of reconnections so far

server == <<serverFrameNum, outstandingSyncFrames, syncErrorFrame, syncWarningFrame, isPaused>>
player == <<clientLink, syncResponse, lastFrameResponse, desynced>>
client == <<simFrame, simState, inbox>>
vars   == <<server, player, client, joined>>

Unsigned(n) == n % WordSize
NoResponses == [f \in {} |-> InSync]
Connected == {p \in Players : clientLink[p]}

Init ==
  /\ serverFrameNum = FirstFrame
  /\ outstandingSyncFrames = {}
  /\ clientLink = [p \in Players |-> TRUE]
  /\ syncResponse = [p \in Players |-> NoResponses]
  /\ lastFrameResponse = [p \in Players |-> IF FirstFrame >= 0 THEN FirstFrame ELSE 0]
  /\ desynced = [p \in Players |-> FALSE]
  /\ syncErrorFrame = 0 /\ syncWarningFrame = 0
  /\ isPaused = FALSE
  /\ simFrame = [p \in Players |-> FirstFrame]
  /\ simState = [p \in Players |-> InSync]
  /\ inbox = [p \in Players |-> <<>>]
  /\ joined = 0

-----------------------------------------------------------------------------
(* Clients *)

\* NETMSG_NEWFRAME or NETMSG_KEYFRAME arrives: a keyframe is echoed first, and
\* the checksum of the frame is sent
Simulate(p) ==
  LET f == simFrame[p] + 1
      key == IF f % KeyframeInterval = 0 THEN <<[kind |-> "keyframe", frame |-> f]>> ELSE <<>>
  IN  /\ clientLink[p] /\ simFrame[p] < serverFrameNum
      /\ simFrame' = [simFrame EXCEPT ![p] = f]
      /\ inbox' = [inbox EXCEPT ![p] =
           @ \o key \o <<[kind |-> "response", frame |-> f, checksum |-> simState[p]]>>]
      /\ UNCHANGED <<server, player, simState, joined>>

\* the simulation of p goes wrong
Diverge(p, c) ==
  /\ clientLink[p] /\ simState[p] = InSync /\ c # InSync
  /\ simState' = [simState EXCEPT ![p] = c]
  /\ UNCHANGED <<server, player, simFrame, inbox, joined>>

-----------------------------------------------------------------------------
(* Messages of the clients: NETMSG_KEYFRAME, NETMSG_SYNCRESPONSE, NETMSG_PAUSE *)

FrameResponse(p, f) ==
  lastFrameResponse' = [lastFrameResponse EXCEPT ![p] =
    IF f <= serverFrameNum /\ f > @ THEN f ELSE @]

ProcessPacket(p) ==
  LET m == Head(inbox[p])
  IN  /\ clientLink[p] /\ inbox[p] # <<>>
      /\ inbox' = [inbox EXCEPT ![p] = Tail(@)]
      /\ FrameResponse(p, m.frame)
      /\ syncResponse' =
           IF m.kind = "response" /\ m.frame \in outstandingSyncFrames
           THEN [syncResponse EXCEPT ![p] =
                   [f \in DOMAIN @ \cup {m.frame} |-> IF f = m.frame THEN m.checksum ELSE @[f]]]
           ELSE syncResponse
      /\ UNCHANGED <<server, clientLink, desynced, simFrame, simState, joined>>

Pause(p, on) ==
  /\ clientLink[p]
  /\ syncErrorFrame' = IF on THEN syncErrorFrame ELSE 0
  /\ isPaused' = IF p \in MayPause THEN on ELSE isPaused
  /\ UNCHANGED <<serverFrameNum, outstandingSyncFrames, syncWarningFrame, player, client, joined>>

-----------------------------------------------------------------------------
(* GameParticipant::Kill and Connected *)

\* fault: the checksums of the connection that ends are kept
KillOnlyLink(p) ==
  /\ clientLink[p]
  /\ clientLink' = [clientLink EXCEPT ![p] = FALSE]
  /\ inbox' = [inbox EXCEPT ![p] = <<>>]
  /\ UNCHANGED <<server, syncResponse, lastFrameResponse, desynced, simFrame, simState, joined>>

\* What the link still holds is given up with it.  ServerReadNet would go on with
\* the packets behind a QUIT, of which a client sends none.
Kill(p) ==
  /\ clientLink[p]
  /\ clientLink' = [clientLink EXCEPT ![p] = FALSE]
  /\ syncResponse' = [syncResponse EXCEPT ![p] = NoResponses]
  /\ inbox' = [inbox EXCEPT ![p] = <<>>]
  /\ UNCHANGED <<server, lastFrameResponse, desynced, simFrame, simState, joined>>

\* a player who comes back simulates the game again from where it started
Connect(p) ==
  /\ ~clientLink[p] /\ joined < Rejoins
  /\ clientLink' = [clientLink EXCEPT ![p] = TRUE]
  /\ lastFrameResponse' = [lastFrameResponse EXCEPT ![p] = 0]
  /\ simFrame' = [simFrame EXCEPT ![p] = FirstFrame]
  /\ simState' = [simState EXCEPT ![p] = InSync]
  /\ joined' = joined + 1
  /\ UNCHANGED <<server, syncResponse, desynced, inbox>>

-----------------------------------------------------------------------------
(* CheckSync *)

Answered(f) == {p \in Connected : f \in DOMAIN syncResponse[p]}

\* how often checksum c was counted when the players up to last were
Votes(f, c, last) == Cardinality({p \in Answered(f) : p <= last /\ syncResponse[p][f] = c})

\* the player whose vote first brought a checksum to the highest count
Decisive(f, p) ==
  LET Count(q) == Votes(f, syncResponse[q][f], q)
  IN  \A q \in Answered(f) : Count(q) < Count(p) \/ (Count(q) = Count(p) /\ p <= q)

\* fault: the first player who answered decides
FirstChecksum(f) ==
  {syncResponse[p][f] : p \in {q \in Answered(f) : \A r \in Answered(f) : q <= r}}

\* the checksum all others are measured by, if there is one yet: that of the
\* local client, or else the one that most of the answers agree on
CorrectChecksum(f) ==
  IF Host # NoHost
  THEN {syncResponse[p][f] : p \in {q \in {Host} : f \in DOMAIN syncResponse[q]}}
  ELSE {syncResponse[p][f] : p \in {q \in Answered(f) : Decisive(f, q)}}

Differs(p, f) == \E c \in CorrectChecksum(f) : syncResponse[p][f] # c
DesyncFrames == {f \in outstandingSyncFrames : \E p \in Answered(f) : Differs(p, f)}

\* a missing answer does not hold a frame back any more
TimedOut(f) == Unsigned(f) < Unsigned(serverFrameNum - SyncCheckTimeout)

\* fault: only the local client is waited for
CompleteForHost(f) == f \in DOMAIN syncResponse[Host]

\* fault: a client that does not answer is waited for, however long it takes
CompleteWhenAllAnswered(f) == Connected \subseteq Answered(f)

CompleteResponseSet(f) == Connected \subseteq Answered(f) \/ TimedOut(f)

SilentFrames ==
  {f \in outstandingSyncFrames :
     TimedOut(f) /\ \E p \in Connected \ Answered(f) : Unsigned(f) < Unsigned(lastFrameResponse[p])}

\* the frames of S in ascending order, each with a message unless the frame of
\* the last message, 0 for none, is near: the frame of the last message then
LastMessage(S, last) ==
  LET upto[n \in -1..serverFrameNum] ==
        IF n = -1 THEN last
        ELSE IF n \in S /\ (upto[n - 1] = 0 \/ Unsigned(n - upto[n - 1]) > MsgTimeout)
             THEN n ELSE upto[n - 1]
  IN  upto[serverFrameNum]

\* each outstanding frame in turn sets the flag of those who answered it
Verdict(p) ==
  LET frames == {f \in outstandingSyncFrames : p \in Answered(f)}
  IN  IF frames = {} THEN desynced[p]
      ELSE \E f \in frames : (\A g \in frames : g <= f) /\ Differs(p, f)

Incomplete == {f \in outstandingSyncFrames : ~CompleteResponseSet(f)}

CheckSync ==
  /\ desynced' = [p \in Players |-> Verdict(p)]
  /\ syncErrorFrame' = LastMessage(DesyncFrames, syncErrorFrame)
  /\ syncWarningFrame' = LastMessage(SilentFrames, syncWarningFrame)
  /\ syncResponse' = [p \in Players |->
       [f \in DOMAIN syncResponse[p] \cap Incomplete |-> syncResponse[p][f]]]

\* fault: the number of the next frame is entered as well
NewFramesAndNext(n) == (serverFrameNum + 1)..(serverFrameNum + n + 1)

NewFrames(n) == (serverFrameNum + 1)..(serverFrameNum + n)

\* n new frames; one at most (/singlestep) while the game is paused
CreateNewFrame(n) ==
  /\ serverFrameNum + n <= LastFrame
  /\ isPaused => n <= 1
  /\ serverFrameNum' = serverFrameNum + n
  /\ CheckSync
  /\ outstandingSyncFrames' = Incomplete \cup NewFrames(n)
  /\ UNCHANGED <<isPaused, clientLink, lastFrameResponse, client, joined>>

Next ==
  \/ \E p \in Players :
       \/ Simulate(p) \/ ProcessPacket(p) \/ Kill(p) \/ Connect(p)
       \/ \E c \in Checksums : Diverge(p, c)
       \/ \E on \in BOOLEAN : Pause(p, on)
  \/ \E n \in 0..Burst : CreateNewFrame(n)

Spec == Init /\ [][Next]_vars

-----------------------------------------------------------------------------
(* Properties *)

TypeOK ==
  /\ serverFrameNum \in -1..LastFrame
  /\ outstandingSyncFrames \subseteq 0..LastFrame
  /\ clientLink \in [Players -> BOOLEAN]
  /\ DOMAIN syncResponse = Players
  /\ \A p \in Players : syncResponse[p] \in [DOMAIN syncResponse[p] -> Checksums]
  /\ lastFrameResponse \in [Players -> 0..LastFrame]
  /\ desynced \in [Players -> BOOLEAN]
  /\ syncErrorFrame \in 0..LastFrame /\ syncWarningFrame \in 0..LastFrame
  /\ isPaused \in BOOLEAN
  /\ simFrame \in [Players -> -1..LastFrame]
  /\ simState \in [Players -> Checksums]

\* Checksums are stored only for outstanding frames and connected players, in
\* whatever order answers, frames and disconnections come (CheckSync 753-760,
\* SYNCRESPONSE 1335, Kill): the tables do not grow for the length of a game.
ResponsesOutstanding ==
  \A p \in Players : /\ DOMAIN syncResponse[p] \subseteq outstandingSyncFrames
                     /\ ~clientLink[p] => DOMAIN syncResponse[p] = {}

\* No frame stays outstanding for longer than the timeout and one burst.
OutstandingRecent ==
  outstandingSyncFrames \subseteq (serverFrameNum - SyncCheckTimeout - Burst)..serverFrameNum

\* "Remove complete sets (for which all player's checksums have been received)"
\* (752): while a connected client has not answered a frame, the frame stays
\* outstanding until it is older than SYNCCHECK_TIMEOUT, from the frame on at which
\* that difference is no longer negative (676 compares it as unsigned).
Patient ==
  [][\A f \in outstandingSyncFrames \ outstandingSyncFrames' :
       serverFrameNum >= SyncCheckTimeout =>
         Connected \subseteq Answered(f) \/ f < serverFrameNum - SyncCheckTimeout]_vars

Accused == {p \in Connected : desynced'[p] /\ ~desynced[p]}
InSyncPlayers == {p \in Connected : simState[p] = InSync}

\* Nobody is said to be out of sync while all connected clients are in sync:
\* what an earlier connection of a player answered does not count.
NoFalseAlarm ==
  [][Accused # {} => InSyncPlayers # Connected]_vars

\* "dictatorship; all player checksums must match the local client's" (605): a
\* client in sync with a host in sync is never accused.
HostDecides ==
  [][\A p \in Accused : simState[p] # InSync \/ simState[Host] # InSync]_vars

Majority == 2 * Cardinality(InSyncPlayers) > Cardinality(Connected)

\* Once all clients have answered the frame a verdict rests on, those in sync
\* are safe when they are more than half of all.
MajorityDecides ==
  [][\A p \in Accused :
       LET frames == {f \in outstandingSyncFrames : p \in Answered(f)}
       IN  (Majority /\ \E f \in frames : (\A g \in frames : g <= f) /\ Connected \subseteq Answered(f))
             => simState[p] # InSync]_vars

-----------------------------------------------------------------------------
(* The inductive invariant *)

Message == [kind : {"keyframe"}, frame : Int] \cup
           [kind : {"response"}, frame : Int, checksum : Checksums]

\* What p has answered, or is about to, is the checksum of the right game.
Honest(p) ==
  /\ \A f \in DOMAIN syncResponse[p] : syncResponse[p][f] = InSync
  /\ \A i \in 1..Len(inbox[p]) : inbox[p][i].kind = "response" => inbox[p][i].checksum = InSync

\* The inductive invariant: checksums are kept for outstanding frames and for
\* players with a connection only, and a client in sync has only given answers
\* that were in sync, over the connection it has.
SyncInv ==
  /\ serverFrameNum \in Int /\ simFrame \in [Players -> Int]
  /\ clientLink \in [Players -> BOOLEAN] /\ desynced \in [Players -> BOOLEAN]
  /\ simState \in [Players -> Checksums] /\ inbox \in [Players -> Seq(Message)]
  /\ DOMAIN syncResponse = Players
  /\ ResponsesOutstanding
  /\ \A p \in Players : ~clientLink[p] => inbox[p] = <<>>
  /\ \A p \in Players : clientLink[p] /\ simState[p] = InSync => Honest(p)

-----------------------------------------------------------------------------
(* Liveness *)

\* time passes: frames are created unless the game is paused, and CreateNewFrame
\* is called, paused or not, with none due
Fairness ==
  /\ \A p \in Players : WF_vars(Simulate(p)) /\ WF_vars(ProcessPacket(p))
  /\ WF_vars(~isPaused /\ \E n \in 1..Burst : CreateNewFrame(n))
  /\ WF_vars(CreateNewFrame(0))

FairSpec == Spec /\ Fairness

\* Once no more frames are created (at LastFrame, as in a long pause), a client
\* that has gone out of sync with the host has been reported, whatever was late
\* or timed out before, unless one of the two disconnects or the host, too, goes
\* out of sync (CheckSync 669-681, 752).  While frames go on, a client that is
\* always more than SYNCCHECK_TIMEOUT behind is never compared.
DivergenceIsReported ==
  \A p \in Players \ {Host} :
    (clientLink[p] /\ simState[p] # InSync /\ simFrame[p] < LastFrame) ~>
      \/ syncErrorFrame # 0
      \/ ~clientLink[p] \/ ~clientLink[Host] \/ simState[Host] # InSync
=============================================================================
