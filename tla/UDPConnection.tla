--------------------------- MODULE UDPConnection ---------------------------
(***************************************************************************)
(* The reliable transport of the engine: two netcode::UDPConnection        *)
(* objects (rts/System/Net/UDPConnection.cpp), one at each end of a UDP    *)
(* link that loses, duplicates and reorders datagrams.                     *)
(*                                                                         *)
(* A chunk is its number and the data it carries.  Data is counted in      *)
(* chunks: how messages are cut into chunks and glued together again is    *)
(* the subject of module UDPFraming.  Clocks are abstracted to the         *)
(* outcome of the comparisons the code makes with them: a Flush is told    *)
(* which of its timers have expired.  Chunks have one size, so a packet    *)
(* holds PacketRoom of them.  A datagram with a wrong checksum is dropped  *)
(* by its receiver before any state is touched: it is a lost one.          *)
(* The assertions of the code are not executed here (a release build);     *)
(* whether they hold is stated as NaksIndexTheirChunk.                     *)
(***************************************************************************)
EXTENDS Integers, Sequences, FiniteSets

CONSTANTS
  A, B,          \* the two ends of the connection
  Data,          \* what a chunk can carry
  SharedSocket,  \* the ends whose socket belongs to a UDPListener
  LossFactor,    \* netLossFactor, 0 is MIN_LOSS_FACTOR
  PacketRoom,    \* chunks that fit in a packet of mtu bytes
  NakMax,        \* 127: most chunks one packet can report missing
  NakSpan,       \* 255: largest offset a nak byte can hold
  NakBurst,      \* 8: a longer leading gap is reported as a count
  AckWindow,     \* 256: naks further than this from our queue are ignored
  FloodFactor,   \* 20: chunks resent per flush and unit of loss factor
  Throttled,     \* whether LinkOutgoingBandwidth may cut a flush short
  Script,        \* bound: Script[e] is what end e hands to SendData, in order
  NetCap         \* bound: datagrams in flight towards one end

Ends == {A, B}
Peer(e) == IF e = A THEN B ELSE A

ASSUME EndsAssumption == A # B /\ SharedSocket \subseteq Ends
ASSUME ParamAssumption ==
  /\ LossFactor \in 0..2
  /\ PacketRoom \in Nat \ {0}
  /\ NakMax \in Nat /\ NakSpan \in Nat /\ NakBurst \in Nat
  /\ AckWindow \in Nat /\ FloodFactor \in Nat
  /\ Throttled \in BOOLEAN
ASSUME BoundAssumption == Script \in [Ends -> Seq(Data)] /\ NetCap \in Nat

VARIABLES
  muted,                  \* stealth until Unmute, and again after Close
  closed,
  outgoingData,           \* handed to SendData, not yet in a chunk
  currentPacketChunkNum,  \* number of the next chunk
  newChunks,              \* chunks never sent
  unackedChunks,          \* chunks sent and not acknowledged
  resendRequested,        \* the part of unackedChunks to send again
  resend,                 \* whether the last chunk sent was a resend
  lastInOrder,            \* highest chunk number received without a gap
  waitingPackets,         \* chunks received beyond a gap
  msgQueue,               \* all data received in order
  net,                    \* net[e]: datagrams on their way to e
  log                     \* history: log[e][n+1] is the data of chunk n of e

flags    == <<muted, closed>>
cutting  == <<outgoingData, currentPacketChunkNum, log>>
queues   == <<newChunks, unackedChunks, resendRequested, resend>>
receiver == <<lastInOrder, waitingPackets, msgQueue>>
vars     == <<flags, cutting, queues, receiver, net>>

Chunk  == [num : Nat, data : Data]
Packet == [ack : Nat \cup {-1}, cont : Nat, naks : SUBSET Nat, chunks : SUBSET Chunk]
Timers == [nakDue : BOOLEAN, unackDue : BOOLEAN, sendDue : BOOLEAN]

Least(m, n) == IF m <= n THEN m ELSE n
Elems(s) == {s[i] : i \in 1..Len(s)}
Nums(S) == {c.num : c \in S}
Suffix(s, n) == SubSeq(s, n + 1, Len(s))

Init ==
  /\ muted = [e \in Ends |-> TRUE]
  /\ closed = [e \in Ends |-> FALSE]
  /\ outgoingData = [e \in Ends |-> <<>>]
  /\ currentPacketChunkNum = [e \in Ends |-> 0]
  /\ newChunks = [e \in Ends |-> <<>>]
  /\ unackedChunks = [e \in Ends |-> <<>>]
  /\ resendRequested = [e \in Ends |-> {}]
  /\ resend = [e \in Ends |-> FALSE]
  /\ lastInOrder = [e \in Ends |-> -1]
  /\ waitingPackets = [e \in Ends |-> {}]
  /\ msgQueue = [e \in Ends |-> <<>>]
  /\ net = [e \in Ends |-> {}]
  /\ log = [e \in Ends |-> <<>>]

-----------------------------------------------------------------------------
(* SendData, Unmute *)

SendData(e) ==
  LET next == Len(log[e]) + Len(outgoingData[e]) + 1
  IN  /\ next <= Len(Script[e])
      /\ outgoingData' = [outgoingData EXCEPT ![e] = Append(@, Script[e][next])]
      /\ UNCHANGED <<flags, currentPacketChunkNum, log, queues, receiver, net>>

\* Nothing in Unmute asks for it, but no caller unmutes a link that was closed:
\* each has just been made (NetProtocol.cpp:58, 78, GameServer.cpp:1893, 2934).
Unmute(e) ==
  /\ muted[e] /\ ~closed[e]
  /\ muted' = [muted EXCEPT ![e] = FALSE]
  /\ UNCHANGED <<closed, cutting, queues, receiver, net>>

-----------------------------------------------------------------------------
(* Flush: chunks are cut from the outgoing data, then SendIfNecessary puts *)
(* them and the chunks to be sent again in packets.                        *)

\* droppedPackets: the gaps below the highest chunk received
DroppedPackets(e) ==
  {n \in (lastInOrder[e] + 1)..(lastInOrder[e] + 1 + NakSpan) :
     /\ n \notin Nums(waitingPackets[e])
     /\ \E m \in Nums(waitingPackets[e]) : n < m}

NumContinuous(e) ==
  Cardinality({n \in DroppedPackets(e) :
                 (lastInOrder[e] + 1)..n \subseteq DroppedPackets(e)})

Smallest(S, k) == {n \in S : Cardinality({m \in S : m < n}) < k}

\* faults: a packet that acknowledges one chunk too many, or one too few
AckHeaderAhead(e, nakDue) == [ack |-> lastInOrder[e] + 1, cont |-> 0, naks |-> {}]
AckHeaderBehind(e, nakDue) == [ack |-> lastInOrder[e] - 1, cont |-> 0, naks |-> {}]

\* the acknowledgement half of a packet: single naks when the nak timer has
\* expired and the leading gap is short, otherwise the length of that gap
AckHeader(e, nakDue) ==
  IF nakDue /\ NumContinuous(e) < NakBurst
  THEN [ack |-> lastInOrder[e], cont |-> 0,
        naks |-> {n - (lastInOrder[e] + 1) : n \in Smallest(DroppedPackets(e), NakMax)}]
  ELSE [ack |-> lastInOrder[e], cont |-> Least(NakMax, NumContinuous(e)), naks |-> {}]

\* the orders in which the requested chunks are sent again: by number on a
\* clean line; on a lossy one from the front, the back and the middle, where
\* lastMidChunk is abstracted to any chunk between the two
ResendOrders(S) ==
  LET size == IF LossFactor = 0 THEN Cardinality(S)
              ELSE Least(Cardinality(S), FloodFactor * LossFactor)
  IN  {s \in [1..size -> S] :
         /\ \A i, j \in 1..size : i # j => s[i] # s[j]
         /\ IF LossFactor = 0
            THEN \A i, j \in 1..size : i < j => s[i].num < s[j].num
            ELSE /\ size >= 1 => \A c \in S : s[1].num <= c.num
                 /\ size >= 2 => \A c \in S : c.num <= s[2].num}

\* x and y in turn, x first, and then the rest of the longer of the two
AlternateAt(x, y, n) ==
  LET both == 2 * Least(Len(x), Len(y))
  IN  CASE n <= both /\ n % 2 = 1       -> x[(n + 1) \div 2]
        [] n <= both /\ n % 2 = 0       -> y[n \div 2]
        [] n > both /\ Len(x) > Len(y)  -> x[n - Len(y)]
        [] n > both /\ Len(x) <= Len(y) -> y[n - Len(x)]

Alternate(x, y) == [n \in 1..(Len(x) + Len(y)) |-> AlternateAt(x, y, n)]

\* when more datagrams are in flight than NetCap the older ones are lost
Transmit(e, packets) ==
  LET all == net[Peer(e)] \cup packets
  IN  net' = [net EXCEPT ![Peer(e)] =
                IF Cardinality(all) <= NetCap THEN all
                ELSE IF Cardinality(packets) <= NetCap THEN packets ELSE @]

\* the packet loop: budget packets are filled with the chunks of order
SendPackets(e, fresh, again, order, header, budget) ==
  LET last  == Least(budget * PacketRoom, Len(order))
      sent  == {order[n] : n \in 1..last}
      \* one request is enough, unless high loss
      later == IF LossFactor = 0 THEN [header EXCEPT !.naks = {}] ELSE header
      Full(h, p) == [ack |-> h.ack, cont |-> h.cont, naks |-> h.naks,
                     chunks |-> {order[n] : n \in ((p - 1) * PacketRoom + 1)
                                                    ..Least(p * PacketRoom, last)}]
  IN  \E m \in 0..Len(fresh) :
        /\ Elems(fresh) \cap sent = {fresh[i] : i \in 1..m}
        /\ newChunks' = [newChunks EXCEPT ![e] = Suffix(fresh, m)]
        /\ unackedChunks' = [unackedChunks EXCEPT ![e] = @ \o SubSeq(fresh, 1, m)]
        /\ resendRequested' = [resendRequested EXCEPT ![e] =
             IF LossFactor = 0 THEN again \ sent
             ELSE again \cup {fresh[i] : i \in 1..m}]
        /\ resend' = [resend EXCEPT ![e] =
             IF last = 0 THEN @ ELSE order[last] \in again]
        /\ Transmit(e, {Full(IF p = 1 THEN header ELSE later, p) : p \in 1..budget})

\* SendIfNecessary(forced), when fresh is the queue of new chunks
SendIfNecessary(e, fresh, forced, t) ==
  LET queued == unackedChunks[e]
      again  == IF t.unackDue /\ fresh = <<>>
                THEN resendRequested[e] \cup {queued[Len(queued)]}
                ELSE resendRequested[e]
      header == AckHeader(e, t.nakDue)
      due == \/ forced \/ fresh # <<>>
             \/ LossFactor = 0 /\ again # {}
             \/ header.naks # {} \/ t.sendDue
  IN  \/ /\ ~due
         /\ newChunks' = [newChunks EXCEPT ![e] = fresh]
         /\ resendRequested' = [resendRequested EXCEPT ![e] = again]
         /\ UNCHANGED <<unackedChunks, resend, net>>
      \/ /\ due
         /\ \E old \in ResendOrders(again) :
              LET total  == Len(old) + Len(fresh)
                  needed == IF total = 0 THEN 1
                            ELSE (total + PacketRoom - 1) \div PacketRoom
                  order  == IF resend[e] THEN Alternate(fresh, old)
                                         ELSE Alternate(old, fresh)
              IN  \E budget \in IF Throttled THEN 0..needed ELSE {needed} :
                    SendPackets(e, fresh, again, order, header, budget)

\* how many chunks a flush may cut: all of them when forced, none before the
\* chunk timer and the size threshold allow it, some when bandwidth runs out
Cuts(e, forced) ==
  LET all == Len(outgoingData[e])
  IN  IF forced THEN {all} ELSE IF Throttled THEN 0..all ELSE {0, all}

\* fault: the unack timer never expires
ExpiredWithoutUnack(e, k) ==
  {t \in Timers : (t.nakDue => DroppedPackets(e) # {}) /\ ~t.unackDue}

\* the timers that may have expired, where that makes a difference: a gap for
\* the nak timer, and for the unack timer something unacknowledged and no
\* chunk just cut, which holds that timer back
Expired(e, k) ==
  {t \in Timers : /\ t.nakDue => DroppedPackets(e) # {}
                  /\ t.unackDue => k = 0 /\ unackedChunks[e] # <<>>}

\* the body of Flush(forced)
Emit(e, forced, k, t) ==
  LET cut == SubSeq(outgoingData[e], 1, k)
      created == [i \in 1..k |-> [num |-> currentPacketChunkNum[e] + i - 1,
                                  data |-> outgoingData[e][i]]]
  IN  /\ outgoingData' = [outgoingData EXCEPT ![e] = Suffix(@, k)]
      /\ currentPacketChunkNum' = [currentPacketChunkNum EXCEPT ![e] = @ + k]
      /\ log' = [log EXCEPT ![e] = @ \o cut]
      /\ SendIfNecessary(e, newChunks[e] \o created, forced, t)
      /\ UNCHANGED receiver

Flush(e, forced, k, t) ==
  /\ ~muted[e]
  /\ Emit(e, forced, k, t)
  /\ UNCHANGED flags

Close(e, forced, k, t) ==
  /\ ~closed[e]
  /\ \/ ~muted[e] /\ Emit(e, forced, k, t)
     \/ muted[e] /\ UNCHANGED <<cutting, queues, receiver, net>>
  /\ muted' = [muted EXCEPT ![e] = TRUE]
  /\ closed' = [closed EXCEPT ![e] = TRUE]

-----------------------------------------------------------------------------
(* ProcessRawPacket *)

\* "superfluous reconnection attempt"
Discarded(e, p) ==
  /\ p.ack < 0 /\ lastInOrder[e] >= 0
  /\ unackedChunks[e] # <<>> => unackedChunks[e][1].num > 0

UnAckDiff(left, p) == left[1].num - (p.ack + 1)

\* positions (from 0) that the naks of p denote in the unacked chunks left
NakPositions(left, p) ==
  IF left = <<>> THEN {}
  ELSE IF ~(UnAckDiff(left, p) \in (-AckWindow)..AckWindow) THEN {}
  ELSE IF p.cont > 0 THEN {i + UnAckDiff(left, p) : i \in 0..(p.cont - 1)}
  ELSE {n + UnAckDiff(left, p) : n \in p.naks}

Requested(left, p) == {left[q] : q \in {r \in 1..Len(left) : r - 1 \in NakPositions(left, p)}}

\* chunks skipped by a list of naks: "further resends are not needed"
Unneeded(left, p) ==
  {left[q] : q \in {r \in 1..Len(left) :
      /\ p.cont = 0
      /\ r - 1 \notin NakPositions(left, p)
      /\ \E n \in NakPositions(left, p) : r - 1 < n}}

\* fault: a request to send an acknowledged chunk again is kept
TakeAcksStale(e, p) ==
  LET left == SelectSeq(unackedChunks[e], LAMBDA c : c.num > p.ack)
  IN  /\ unackedChunks' = [unackedChunks EXCEPT ![e] = left]
      /\ resendRequested' = [resendRequested EXCEPT ![e] =
           (@ \cup Requested(left, p)) \ Unneeded(left, p)]

\* the first n chunks are those p acknowledges
AckChunks(e, p, n) ==
  /\ \A i \in 1..n : unackedChunks[e][i].num <= p.ack
  /\ Suffix(unackedChunks[e], n) # <<>> => Suffix(unackedChunks[e], n)[1].num > p.ack

\* they leave, and the naks of p request or withdraw resends of what is left
TakeAcks(e, p) ==
  \E n \in 0..Len(unackedChunks[e]) :
    LET left == Suffix(unackedChunks[e], n)
    IN  /\ AckChunks(e, p, n)
        /\ unackedChunks' = [unackedChunks EXCEPT ![e] = left]
        /\ resendRequested' = [resendRequested EXCEPT ![e] =
             ({c \in @ : c.num > p.ack} \cup Requested(left, p)) \ Unneeded(left, p)]

\* all chunks waiting once the new ones of p have joined
Arrived(e, p) ==
  waitingPackets[e] \cup
    {c \in p.chunks : c.num > lastInOrder[e] /\ c.num \notin Nums(waitingPackets[e])}

\* fault: the next chunk that waits instead of the next one in order
DataOfNextWaiting(S, n) ==
  (CHOOSE c \in S : c.num >= n /\ \A d \in S : d.num > n => c.num >= d.num).data

DataOf(S, n) == (CHOOSE c \in S : c.num = n).data

TakeChunks(e, p) ==
  LET all  == Arrived(e, p)
      last == lastInOrder[e]
  IN  \E n \in {last} \cup Nums(all) :
        /\ n >= last
        /\ \A m \in (last + 1)..n : m \in Nums(all)
        /\ n + 1 \notin Nums(all)
        /\ lastInOrder' = [lastInOrder EXCEPT ![e] = n]
        /\ waitingPackets' = [waitingPackets EXCEPT ![e] = {c \in all : c.num > n}]
        /\ msgQueue' = [msgQueue EXCEPT ![e] =
             @ \o [i \in 1..(n - last) |-> DataOf(all, last + i)]]

\* a datagram may be delivered again: it stays in flight or leaves
Receive(e, p) ==
  /\ e \in SharedSocket \/ ~closed[e]
  /\ net' = net \/ net' = [net EXCEPT ![e] = @ \ {p}]
  /\ \/ Discarded(e, p) /\ UNCHANGED <<unackedChunks, resendRequested, receiver>>
     \/ ~Discarded(e, p) /\ TakeAcks(e, p) /\ TakeChunks(e, p)
  /\ UNCHANGED <<flags, cutting, newChunks, resend>>

Lose(e, p) ==
  /\ net' = [net EXCEPT ![e] = @ \ {p}]
  /\ UNCHANGED <<flags, cutting, queues, receiver>>

-----------------------------------------------------------------------------
Next ==
  \E e \in Ends :
    \/ SendData(e)
    \/ Unmute(e)
    \/ \E forced \in BOOLEAN : \E k \in Cuts(e, forced) : \E t \in Expired(e, k) :
         Flush(e, forced, k, t) \/ Close(e, forced, k, t)
    \/ \E p \in net[e] : Receive(e, p) \/ Lose(e, p)

Spec == Init /\ [][Next]_vars

-----------------------------------------------------------------------------
(* Properties *)

TypeOK ==
  /\ muted \in [Ends -> BOOLEAN]
  /\ closed \in [Ends -> BOOLEAN]
  /\ outgoingData \in [Ends -> Seq(Data)]
  /\ currentPacketChunkNum \in [Ends -> Nat]
  /\ newChunks \in [Ends -> Seq(Chunk)]
  /\ unackedChunks \in [Ends -> Seq(Chunk)]
  /\ resendRequested \in [Ends -> SUBSET Chunk]
  /\ resend \in [Ends -> BOOLEAN]
  /\ lastInOrder \in [Ends -> Nat \cup {-1}]
  /\ waitingPackets \in [Ends -> SUBSET Chunk]
  /\ msgQueue \in [Ends -> Seq(Data)]
  /\ net \in [Ends -> SUBSET Packet]
  /\ log \in [Ends -> Seq(Data)]

\* What has come out at one end is a prefix of what the other end cut into
\* chunks: in order, nothing twice, nothing skipped, nothing invented, however
\* datagrams were lost, repeated or reordered (ProcessRawPacket, 597-693).
InOrderDelivery ==
  \A e \in Ends :
    /\ lastInOrder[Peer(e)] < Len(log[e])
    /\ msgQueue[Peer(e)] = SubSeq(log[e], 1, lastInOrder[Peer(e)] + 1)

\* A chunk the other end still needs is never forgotten: it waits in newChunks
\* or unackedChunks (AckChunks, SendIfNecessary), whatever acks arrive late.
NoChunkLost ==
  \A e \in Ends : \A n \in 0..(Len(log[e]) - 1) :
    n > lastInOrder[Peer(e)] =>
      [num |-> n, data |-> log[e][n + 1]] \in Elems(unackedChunks[e]) \cup Elems(newChunks[e])

\* The two queues hold consecutive chunk numbers up to the last one cut, which
\* is what the position arithmetic of the nak loops relies on (555-590).
QueuesContiguous ==
  \A e \in Ends :
    LET q == unackedChunks[e] \o newChunks[e]
    IN  \A i \in 1..Len(q) : q[i].num = currentPacketChunkNum[e] - Len(q) + i - 1

\* Only chunks that wait for an acknowledgement are sent again: a request for
\* one that was acknowledged meanwhile is dropped ("resend requested and later
\* acked", AckChunks 1076-1082).
ResendsAreUnacked ==
  \A e \in Ends : resendRequested[e] \subseteq Elems(unackedChunks[e])

-----------------------------------------------------------------------------
(* The inductive invariant *)

\* q is the stretch of consecutive chunks of data that starts with number lo
Stretch(q, data, lo) ==
  \A i \in 1..Len(q) : q[i] = [num |-> lo + i - 1, data |-> data[lo + i]]

\* all chunks that data is cut into, and the number of the oldest chunk of e
\* that is not acknowledged
ChunksIn(data) == {[num |-> n, data |-> data[n + 1]] : n \in 0..(Len(data) - 1)}
Base(e) == Len(log[e]) - Len(newChunks[e]) - Len(unackedChunks[e])

\* the two queues of e are the end of its log
SenderInv(e) ==
  /\ currentPacketChunkNum[e] = Len(log[e])
  /\ Base(e) >= 0
  /\ Stretch(newChunks[e], log[e], Len(log[e]) - Len(newChunks[e]))
  /\ Stretch(unackedChunks[e], log[e], Base(e))
  /\ resendRequested[e] \subseteq Elems(unackedChunks[e])

\* what e has forgotten its peer has, and its peer has nothing else
LinkInv(e) ==
  /\ Base(e) <= lastInOrder[Peer(e)] + 1
  /\ lastInOrder[Peer(e)] < Len(log[e])
  /\ msgQueue[Peer(e)] = SubSeq(log[e], 1, lastInOrder[Peer(e)] + 1)
  /\ waitingPackets[Peer(e)] \subseteq ChunksIn(log[e])

\* datagrams of e carry chunks of e and acknowledge only what e has
FlightInv(e) ==
  \A p \in net[Peer(e)] : p.ack <= lastInOrder[e] /\ p.chunks \subseteq ChunksIn(log[e])

IInv == TypeOK /\ \A e \in Ends : SenderInv(e) /\ LinkInv(e) /\ FlightInv(e)

-----------------------------------------------------------------------------
(* Refinement *)

AtoB == INSTANCE ReliableChannel
          WITH given <- log[A] \o outgoingData[A], taken <- msgQueue[B]
BtoA == INSTANCE ReliableChannel
          WITH given <- log[B] \o outgoingData[B], taken <- msgQueue[A]

\* Each direction of the connection implements the reliable channel.
Channels == AtoB!Spec /\ BtoA!Spec

-----------------------------------------------------------------------------
(* Liveness *)

FlushSome(e, ok(_, _)) ==
  \E forced \in BOOLEAN : \E k \in Cuts(e, forced) : \E t \in Expired(e, k) :
    ok(k, t) /\ Flush(e, forced, k, t)

\* Update is called in every frame, so each timer is seen expired again and
\* again, and so is the one that lets data be cut
FlushFairness(e) ==
  /\ WF_vars(FlushSome(e, LAMBDA k, t : k > 0))
  /\ WF_vars(FlushSome(e, LAMBDA k, t : t.nakDue))
  /\ WF_vars(FlushSome(e, LAMBDA k, t : t.unackDue))
  /\ WF_vars(FlushSome(e, LAMBDA k, t : t.sendDue))

ReceiveSome(e, ok(_)) == \E p \in net[e] : ok(p) /\ Receive(e, p)

\* a chunk, an ack or a nak that is sent again and again arrives at last
NetFairness(e) ==
  /\ \A n \in 0..(Len(Script[Peer(e)]) - 1) :
       SF_vars(ReceiveSome(e, LAMBDA p : n \in Nums(p.chunks)))
  /\ \A n \in 0..(Len(Script[e]) - 1) :
       /\ SF_vars(ReceiveSome(e, LAMBDA p : p.ack >= n))
       /\ SF_vars(ReceiveSome(e, LAMBDA p :
            p.cont > n - (p.ack + 1) \/ n - (p.ack + 1) \in p.naks))

FairSpec == Spec /\ \A e \in Ends : FlushFairness(e) /\ NetFairness(e)

Talking == \A e \in Ends : ~muted[e] /\ Len(log[e] \o outgoingData[e]) > 0
AllDelivered == \A e \in Ends : msgQueue[Peer(e)] = log[e] \o outgoingData[e]
AllAcked == \A e \in Ends : unackedChunks[e] = <<>>

\* While both ends are open and each has said something, everything handed to
\* SendData comes out at the other end and is acknowledged in the end.  (An end
\* that never says anything discards all but the first packet of its peer as
\* "superfluous reconnection attempts", 544-548.)
EverythingArrives == <>[]Talking => <>[](AllDelivered /\ AllAcked)
=============================================================================
