--------------------------- MODULE MessageFraming ---------------------------
(***************************************************************************)
(* One direction of a UDPConnection above its chunks (rts/System/Net/      *)
(* UDPConnection.cpp, ProtocolDef.cpp): Flush cuts the messages given to   *)
(* SendData into chunks, the other end joins the chunks and finds the      *)
(* messages by the length that each of them states, and the client reads   *)
(* them in turn, or pings ahead of their turn (rts/Net/NetCommands.cpp).   *)
(*                                                                         *)
(* Chunks arrive in order, once each (UDPConnection implements             *)
(* ReliableChannel with chunks as data).  Messages are bytes as the        *)
(* functions of BaseNetProtocol.cpp write them: the type, for some types   *)
(* the length of the message, and a payload that is not looked at.  The    *)
(* length is cut to the one or two bytes of its field, whether it fits or  *)
(* not, and what it then says is all that the receiver has to go by.       *)
(***************************************************************************)
EXTENDS Integers, Sequences, FiniteSets, SequencesExt

CONSTANTS
  ByteSize,      \* 256: what a byte counts to
  Types,         \* ProtocolDef::msg: length of each type, -1 or -2 for a
                 \* length field of one or two bytes, 0 if not known
  Script,        \* the messages: [type, payload]
  Ping, Progress,  \* the types of messages that are read ahead
  MaxChunkSize,  \* 254
  Throttled      \* whether LinkOutgoingBandwidth may cut a flush short

Byte == 0..(ByteSize - 1)

\* messages of a fixed length have it; the payload of others is of any length
ASSUME ScriptAssumption ==
  /\ ByteSize \in Nat \ {0} /\ Types \in [Byte -> Nat \cup {-1, -2}]
  /\ Script \in Seq([type : Byte, payload : Seq(Byte)])
  /\ \A i \in DOMAIN Script :
       Types[Script[i].type] > 0 => 1 + Len(Script[i].payload) = Types[Script[i].type]
ASSUME BoundsAssumption == MaxChunkSize \in Nat \ {0} /\ Throttled \in BOOLEAN

VARIABLES
  next,            \* the next message of the script
  outgoingData,    \* messages to be cut into chunks
  chunks,          \* chunks on their way, in order
  fragmentBuffer,  \* bytes of a message that is not complete
  msgQueue,        \* messages to be read
  numPings,        \* how many of them are pings
  came             \* history: all messages that came into msgQueue

vars == <<next, outgoingData, chunks, fragmentBuffer, msgQueue, numPings, came>>

\* bytes of the length field of message i
FieldSize(i) == CASE Types[Script[i].type] = -1 -> 1 [] Types[Script[i].type] = -2 -> 2 [] OTHER -> 0

\* packetSize of SendMapDrawPoint and the like
Size(i) == 1 + FieldSize(i) + Len(Script[i].payload)

\* size as a field of n bytes holds it, the lower byte first
Field(size, n) == [k \in 1..n |-> IF k = 1 THEN size % ByteSize ELSE (size \div ByteSize) % ByteSize]

Bytes(i) == <<Script[i].type>> \o Field(Size(i), FieldSize(i)) \o Script[i].payload

TypeOf(m) == m[1]

IsPing(m) == TypeOf(m) = Ping
Pings(q) == Cardinality({i \in DOMAIN q : IsPing(q[i])})

Init ==
  /\ next = 1 /\ outgoingData = <<>> /\ chunks = <<>>
  /\ fragmentBuffer = <<>> /\ msgQueue = <<>> /\ numPings = 0 /\ came = <<>>

-----------------------------------------------------------------------------
(* ProtocolDef *)

\* fault: the length field of a type with two bytes may be cut in the middle
PacketLengthOfTwo(buf) ==
  LET t == Types[TypeOf(buf)]
  IN  CASE t > 0 -> t
        [] t = 0 -> -2
        [] t < 0 /\ Len(buf) < 2 -> 0
        [] t = -1 /\ Len(buf) >= 2 -> IF buf[2] >= 2 THEN buf[2] ELSE -1
        [] t = -2 /\ Len(buf) >= 2 ->
             LET size == buf[2] + ByteSize * IF Len(buf) = 2 THEN 0 ELSE buf[3]
             IN  IF size >= 3 THEN size ELSE -1

\* -2 for no type, -1 for an impossible length, 0 if buf ends before the length
PacketLength(buf) ==
  LET t == Types[TypeOf(buf)]
  IN  CASE t > 0 -> t
        [] t = 0 -> -2
        [] t < 0 /\ Len(buf) < 1 - t -> 0
        [] t = -1 /\ Len(buf) >= 2 -> IF buf[2] >= 2 THEN buf[2] ELSE -1
        [] t = -2 /\ Len(buf) >= 3 ->
             LET size == buf[2] + ByteSize * buf[3] IN IF size >= 3 THEN size ELSE -1

\* fault: a message that ends with the chunk waits for more
IsLongerThan(length, size) == length > 0 /\ size > length

IsValidLength(length, size) == length > 0 /\ size >= length

IsValidPacket(m) == IsValidLength(PacketLength(m), Len(m))

-----------------------------------------------------------------------------
(* Sending *)

SendData ==
  /\ next <= Len(Script)
  /\ outgoingData' = Append(outgoingData, Bytes(next))
  /\ next' = next + 1
  /\ UNCHANGED <<chunks, fragmentBuffer, msgQueue, numPings, came>>

\* a message that is not valid is thrown away
Gathered(bytes, m) == IF IsValidPacket(m) THEN bytes \o m ELSE bytes

\* chunks are filled without regard to where messages end; only the last one
\* may have room left
Cut(bytes) ==
  LET n == (Len(bytes) + MaxChunkSize - 1) \div MaxChunkSize
  IN  [i \in 1..n |-> SubSeq(bytes, (i - 1) * MaxChunkSize + 1,
                             Min({i * MaxChunkSize, Len(bytes)}))]

\* the first n messages are cut: all of them if forced, none while it is too
\* early, some if the bandwidth is used up, which is tested before each message
\* but not within one
Flush(forced, n) ==
  /\ n # Len(outgoingData) => ~forced /\ (n = 0 \/ Throttled)
  /\ chunks' = chunks \o Cut(FoldLeft(Gathered, <<>>, SubSeq(outgoingData, 1, n)))
  /\ outgoingData' = SubSeq(outgoingData, n + 1, Len(outgoingData))
  /\ UNCHANGED <<next, fragmentBuffer, msgQueue, numPings, came>>

-----------------------------------------------------------------------------
(* Receiving *)

\* the messages at the front of buf, and the beginning of one at its end
Split(buf) ==
  LET at[pos \in 0..Len(buf)] ==
        LET tail   == SubSeq(buf, pos + 1, Len(buf))
            length == PacketLength(tail)
        IN  IF tail = <<>> THEN [messages |-> <<>>, rest |-> <<>>]
            ELSE IF IsValidLength(length, Len(tail))
              THEN [at[pos + length] EXCEPT !.messages = <<SubSeq(tail, 1, length)>> \o @]
            ELSE IF length >= 0 THEN [messages |-> <<>>, rest |-> tail]
            ELSE at[pos + 1]
  IN  at[0]

\* fault: the fragment is not put before the next chunk
JoinedAlone(got, chunk) ==
  LET s == Split(chunk) IN [messages |-> got.messages \o s.messages, rest |-> s.rest]

\* a chunk is joined with the fragment that was left by the one before
Joined(got, chunk) ==
  LET s == Split(got.rest \o chunk)
  IN  [messages |-> got.messages \o s.messages, rest |-> s.rest]

\* ProcessRawPacket, for the next n chunks
ProcessRawPacket(n) ==
  LET got == FoldLeft(Joined, [messages |-> <<>>, rest |-> fragmentBuffer], SubSeq(chunks, 1, n))
  IN  /\ chunks' = SubSeq(chunks, n + 1, Len(chunks))
      /\ fragmentBuffer' = got.rest
      /\ msgQueue' = msgQueue \o got.messages
      /\ numPings' = numPings + Pings(got.messages)
      /\ came' = came \o got.messages
      /\ UNCHANGED <<next, outgoingData>>

-----------------------------------------------------------------------------
(* Reading *)

\* fault: the type of another message is looked at
PingInFront(q, i) == IF IsPing(Head(q)) THEN 1 ELSE 0

\* what message i of q counts for in numPings
PingAt(q, i) == IF IsPing(q[i]) THEN 1 ELSE 0

GetData ==
  /\ msgQueue # <<>>
  /\ numPings' = numPings - PingAt(msgQueue, 1)
  /\ msgQueue' = Tail(msgQueue)
  /\ UNCHANGED <<next, outgoingData, chunks, fragmentBuffer, came>>

DeleteBufferPacketAt(s, i) ==
  IF i > Len(s.queue) THEN s
  ELSE [s EXCEPT !.queue = RemoveAt(@, i), !.pings = @ - PingAt(s.queue, i)]

\* the messages that are read whatever waits before them
ReadAhead == {Ping, Progress}

Peeked(s, m) == IF TypeOf(m) \in ReadAhead THEN DeleteBufferPacketAt(s, s.index)
                ELSE [s EXCEPT !.index = @ + 1]

\* UpdateNumQueuedSimFrames calls it while there are pings, and on a client that
\* is not the host every now and then (156)
GetNumQueuedSimFrameMessages ==
  LET s == FoldLeft(Peeked, [queue |-> msgQueue, pings |-> numPings, index |-> 1], msgQueue)
  IN  /\ msgQueue' = s.queue
      /\ numPings' = s.pings
      /\ UNCHANGED <<next, outgoingData, chunks, fragmentBuffer, came>>

FlushSome == \E forced \in BOOLEAN, n \in 0..Len(outgoingData) : Flush(forced, n)
ProcessSome == \E n \in 1..Len(chunks) : ProcessRawPacket(n)

Next == SendData \/ FlushSome \/ ProcessSome \/ GetData \/ GetNumQueuedSimFrameMessages

Spec == Init /\ [][Next]_vars

\* Update and the reading of messages go on in every frame; chunks get through
Fairness ==
  /\ WF_vars(Flush(TRUE, Len(outgoingData))) /\ WF_vars(ProcessSome) /\ WF_vars(GetData)

FairSpec == Spec /\ Fairness

-----------------------------------------------------------------------------
(* Properties *)

IsKnown(i) == Types[Script[i].type] # 0

LengthFits(i) ==
  /\ FieldSize(i) = 1 => Size(i) < ByteSize
  /\ FieldSize(i) = 2 => Size(i) < ByteSize * ByteSize

\* the number of messages before the first with a length that does not fit
Whole == CHOOSE n \in 0..Len(Script) : /\ \A i \in 1..n : LengthFits(i)
                                       /\ n < Len(Script) => ~LengthFits(n + 1)

\* the messages among the first n of a type that is known
Sent(n) ==
  LET add(sent, i) == IF IsKnown(i) THEN Append(sent, Bytes(i)) ELSE sent
  IN  FoldLeft(add, <<>>, [i \in 1..n |-> i])

\* the bytes of the messages among the first n that a flush does not throw away
Written(n) == FoldLeft(Gathered, <<>>, [i \in 1..n |-> Bytes(i)])

\* Wherever a message is cut, also within its length field, the other end takes out
\* the messages of known types that were given to SendData, whole, in order and once
\* each (639-690), as far as the first whose length does not fit its field: from
\* there on it takes out what it makes of the bytes.
Messages == INSTANCE ReliableChannel
              WITH Data <- {Bytes(i) : i \in DOMAIN Script},
                   given <- Sent(Min({next - 1, Whole})),
                   taken <- SubSeq(came, 1, Min({Len(came), Len(Sent(Whole))}))
ImplementsChannel == Messages!Spec

\* Where flushes cut the bytes makes no difference, whatever lengths they state: as
\* soon as all chunks have come, so has what all the bytes together are split into,
\* and the fragment is what they leave.  If all lengths fit, that is all messages,
\* and none of them waits in fragmentBuffer for the chunk of a later one.
NothingLeftBehind ==
  outgoingData = <<>> /\ chunks = <<>> =>
    /\ [messages |-> came, rest |-> fragmentBuffer] = Split(Written(next - 1))
    /\ next - 1 <= Whole => came = Sent(next - 1) /\ fragmentBuffer = <<>>

\* The number of pings is right whichever way messages leave the queue; the client
\* looks for pings only while it is positive (NetCommands.cpp:135).
PingsCounted == numPings = Pings(msgQueue)

\* All that is in the bytes given to SendData is read in the end.
EverythingIsRead == <>[](came = Split(Written(next - 1)).messages /\ msgQueue = <<>>)
=============================================================================
