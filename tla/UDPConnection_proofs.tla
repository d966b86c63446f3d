------------------------ MODULE UDPConnection_proofs ------------------------
(***************************************************************************)
(* Proofs about UDPConnection, for every script, bound and loss factor.    *)
(***************************************************************************)
EXTENDS UDPConnection, FiniteSetTheorems, SequenceTheorems, TLAPS

-----------------------------------------------------------------------------
(* The two ends, sequences and the interleaving of two sequences *)

LEMMA PeerFacts ==
  ASSUME NEW e \in Ends
  PROVE  Peer(e) \in Ends /\ Peer(e) # e /\ Peer(Peer(e)) = e /\ Ends = {e, Peer(e)}
BY EndsAssumption DEF Ends, Peer

LEMMA FunctionIsSeq ==
  ASSUME NEW S, NEW n \in Nat, NEW f \in [1..n -> S]
  PROVE  f \in Seq(S) /\ Len(f) = n
<1>1. f \in Seq(S)
  OBVIOUS
<1>2. DOMAIN f = 1..n /\ DOMAIN f = 1..Len(f) /\ Len(f) \in Nat
  BY <1>1, LenProperties
<1>3. QED
  BY <1>1, <1>2

LEMMA SuffixFacts ==
  ASSUME NEW S, NEW s \in Seq(S), NEW n \in 0..Len(s)
  PROVE  /\ Suffix(s, n) \in Seq(S)
         /\ Len(Suffix(s, n)) = Len(s) - n
         /\ \A i \in 1..(Len(s) - n) : Suffix(s, n)[i] = s[n + i]
<1>1. \A i \in (n + 1)..Len(s) : s[i] \in S
  BY ElementOfSeq
<1>2. QED
  BY <1>1, SubSeqProperties, n + 1 \in Int, Len(s) \in Int DEF Suffix

LEMMA PrefixFacts ==
  ASSUME NEW S, NEW s \in Seq(S), NEW n \in 0..Len(s)
  PROVE  /\ SubSeq(s, 1, n) \in Seq(S)
         /\ Len(SubSeq(s, 1, n)) = n
         /\ \A i \in 1..n : SubSeq(s, 1, n)[i] = s[i]
<1>1. \A i \in 1..n : s[i] \in S
  BY ElementOfSeq
<1>2. QED
  BY <1>1, SubSeqProperties

LEMMA SplitSeq ==
  ASSUME NEW S, NEW s \in Seq(S), NEW n \in 0..Len(s)
  PROVE  SubSeq(s, 1, n) \o Suffix(s, n) = s
<1>1. Len(s) \in Nat
  BY LenProperties
<1>2. 1 \in 1..(Len(s) + 1) /\ n \in (1 - 1)..Len(s) /\ Len(s) \in n..Len(s)
  BY <1>1
<1>3. SubSeq(s, 1, n) \o SubSeq(s, n + 1, Len(s)) = SubSeq(s, 1, Len(s))
  BY <1>2, ConcatAdjacentSubSeq
<1>4. QED
  BY <1>3, SubSeqFull DEF Suffix

LEMMA ElemsFinite ==
  ASSUME NEW S, NEW s \in Seq(S)
  PROVE  IsFiniteSet(Elems(s)) /\ Elems(s) \subseteq S
<1>1. s \in Surjection(1..Len(s), Elems(s))
  BY LenProperties DEF Surjection, Elems
<1>2. IsFiniteSet(1..Len(s))
  BY FS_Interval, LenProperties
<1>3. IsFiniteSet(Elems(s))
  BY <1>1, <1>2, FS_Surjection
<1>4. QED
  BY <1>3, ElementOfSeq DEF Elems

LEMMA AlternateFacts ==
  ASSUME NEW S, NEW x \in Seq(S), NEW y \in Seq(S)
  PROVE  /\ Alternate(x, y) \in Seq(S)
         /\ Len(Alternate(x, y)) = Len(x) + Len(y)
<1> DEFINE a == Alternate(x, y)
           at(n) == AlternateAt(x, y, n)
           both == 2 * Least(Len(x), Len(y))
           total == Len(x) + Len(y)
<1>0. Len(x) \in Nat /\ Len(y) \in Nat /\ total \in Nat /\ both \in Nat
  BY LenProperties DEF Least
<1>1. ASSUME NEW n \in 1..total
      PROVE  at(n) \in S
  <2>0. n \in Nat /\ n >= 1 /\ n <= total
    BY <1>0
  <2>1. CASE n <= both /\ n % 2 = 1
    <3>1. (n + 1) \div 2 \in 1..Len(x)
      BY <1>0, <2>0, <2>1 DEF Least
    <3>2. at(n) = x[(n + 1) \div 2]
      BY <1>0, <2>0, <2>1 DEF AlternateAt
    <3>3. QED
      BY <3>1, <3>2, ElementOfSeq
  <2>2. CASE n <= both /\ n % 2 = 0
    <3>1. n \div 2 \in 1..Len(y)
      BY <1>0, <2>0, <2>2 DEF Least
    <3>2. at(n) = y[n \div 2]
      BY <1>0, <2>0, <2>2 DEF AlternateAt
    <3>3. QED
      BY <3>1, <3>2, ElementOfSeq
  <2>3. CASE n > both /\ Len(x) > Len(y)
    <3>1. n - Len(y) \in 1..Len(x)
      BY <1>0, <2>0, <2>3 DEF Least
    <3>2. at(n) = x[n - Len(y)]
      BY <1>0, <2>0, <2>3 DEF AlternateAt
    <3>3. QED
      BY <3>1, <3>2, ElementOfSeq
  <2>4. CASE n > both /\ Len(x) <= Len(y)
    <3>1. n - Len(x) \in 1..Len(y)
      BY <1>0, <2>0, <2>4 DEF Least
    <3>2. at(n) = y[n - Len(x)]
      BY <1>0, <2>0, <2>4 DEF AlternateAt
    <3>3. QED
      BY <3>1, <3>2, ElementOfSeq
  <2>5. QED
    <3>1. n % 2 = 0 \/ n % 2 = 1
      BY <2>0
    <3>2. n <= both \/ n > both
      BY <1>0, <2>0
    <3>3. Len(x) > Len(y) \/ Len(x) <= Len(y)
      BY <1>0
    <3>4. QED
      BY <2>1, <2>2, <2>3, <2>4, <3>1, <3>2, <3>3
<1>2. a \in [1..total -> S]
  BY <1>1 DEF Alternate
<1>3. QED
  BY <1>0, <1>2, FunctionIsSeq

-----------------------------------------------------------------------------
(* The inductive invariant holds initially *)

LEMMA InitIInv == Init => IInv
<1> SUFFICES ASSUME Init PROVE IInv
  OBVIOUS
<1>1. TypeOK
  BY DEF Init, TypeOK, Ends
<1>2. ASSUME NEW e \in Ends
      PROVE  SenderInv(e) /\ LinkInv(e) /\ FlightInv(e)
  <2> USE PeerFacts DEF Init
  <2>1. SenderInv(e)
    BY DEF SenderInv, Base, Stretch
  <2>2. SubSeq(<<>>, 1, 0) = <<>>
    BY SubSeqEmpty
  <2>3. LinkInv(e)
    BY <2>2 DEF LinkInv, Base
  <2>4. FlightInv(e)
    BY DEF FlightInv
  <2>5. QED
    BY <2>1, <2>3, <2>4
<1>3. QED
  BY <1>1, <1>2 DEF IInv

-----------------------------------------------------------------------------
(* Sending *)

\* The log and the chunks that come of cutting k pieces of out.
CutLog(lg, out, k) == lg \o SubSeq(out, 1, k)
CutChunks(lg, out, k) == [i \in 1..k |-> [num |-> Len(lg) + i - 1, data |-> out[i]]]

CutPre(lg, out, new, k) ==
  /\ lg \in Seq(Data) /\ out \in Seq(Data) /\ new \in Seq(Chunk)
  /\ Len(new) <= Len(lg) /\ Stretch(new, lg, Len(lg) - Len(new))
  /\ k \in 0..Len(out)

CutPost(lg, out, new, k) ==
  LET lg2   == CutLog(lg, out, k)
      fresh == new \o CutChunks(lg, out, k)
  IN  /\ lg2 \in Seq(Data) /\ Len(lg2) = Len(lg) + k
      /\ \A i \in 1..Len(lg) : lg2[i] = lg[i]
      /\ fresh \in Seq(Chunk) /\ Len(fresh) = Len(new) + k
      /\ Stretch(fresh, lg2, Len(lg) - Len(new))

\* Chunks cut next continue a queue that is the end of the log.
LEMMA CutFacts ==
  ASSUME NEW lg, NEW out, NEW new, NEW k, CutPre(lg, out, new, k)
  PROVE  CutPost(lg, out, new, k)
<1> USE DEF CutPre
<1>N. PICK N \in Nat : N = Len(lg)
  BY LenProperties
<1>M. PICK M \in Nat : M = Len(new)
  BY LenProperties
<1>S. M <= N /\ Stretch(new, lg, N - M)
  BY <1>N, <1>M
<1> DEFINE lg2 == CutLog(lg, out, k)
           created == CutChunks(lg, out, k)
           fresh == new \o created
<1> DEFINE cut == SubSeq(out, 1, k)
<1>1. k \in Nat /\ Len(out) \in Nat
  BY LenProperties
<1>2. cut \in Seq(Data) /\ Len(cut) = k /\ \A i \in 1..k : cut[i] = out[i]
  BY PrefixFacts
<1>3. lg2 \in Seq(Data) /\ Len(lg2) = N + k
  BY <1>2, <1>N, ConcatProperties DEF CutLog
<1>4. \A i \in 1..(N + k) : lg2[i] = IF i <= N THEN lg[i] ELSE cut[i - N]
  BY <1>2, <1>N, ConcatProperties DEF CutLog
<1>5. created = [i \in 1..k |-> [num |-> N + i - 1, data |-> out[i]]]
  BY <1>N DEF CutChunks
<1> HIDE DEF lg2, created
<1>5a. created \in Seq(Chunk) /\ Len(created) = k
  <2>1. ASSUME NEW i \in 1..k
        PROVE  N + i - 1 \in Nat /\ out[i] \in Data
    BY <1>1, ElementOfSeq
  <2>2. created \in [1..k -> Chunk]
    BY <1>5, <2>1 DEF Chunk
  <2>3. QED
    BY <1>1, <2>2, FunctionIsSeq
<1>6. fresh \in Seq(Chunk) /\ Len(fresh) = M + k
  BY <1>5a, <1>M, ConcatProperties
<1>7. \A i \in 1..(M + k) : fresh[i] = IF i <= M THEN new[i] ELSE created[i - M]
  BY <1>5a, <1>M, ConcatProperties
<1> HIDE DEF fresh
<1>8. ASSUME NEW i \in 1..(M + k)
      PROVE  fresh[i] = [num |-> N - M + i - 1, data |-> lg2[N - M + i]]
  <2>1. CASE i <= M
    <3>1. N - M + i \in 1..(N + k) /\ N - M + i <= N /\ i \in 1..M
      BY <1>1, <1>S, <2>1
    <3>2. QED
      BY <1>4, <1>7, <1>M, <1>S, <2>1, <3>1 DEF Stretch
  <2>2. CASE i > M
    <3> DEFINE j == i - M
    <3>1. j \in 1..k /\ N + j \in 1..(N + k) /\ ~(N + j <= N) /\ (N + j) - N = j
      BY <1>1, <2>2
    <3>2. N - M + i - 1 = N + j - 1 /\ N - M + i = N + j
      BY <1>1
    <3>3. lg2[N + j] = out[j]
      BY <1>2, <1>4, <3>1
    <3>4. fresh[i] = [num |-> N + j - 1, data |-> out[j]]
      <4>1. fresh[i] = created[j]
        BY <1>7, <2>2
      <4> HIDE DEF j
      <4>2. QED
        BY <1>5, <3>1, <4>1
    <3>5. QED
      BY <3>2, <3>3, <3>4
  <2>3. QED
    BY <1>1, <2>1, <2>2
<1>9. \A i \in 1..N : lg2[i] = lg[i]
  BY <1>1, <1>4
<1>10. Stretch(fresh, lg2, N - M)
  BY <1>6, <1>8 DEF Stretch
<1>11. QED
  BY <1>3, <1>6, <1>9, <1>10, <1>N, <1>M DEF lg2, created, fresh, CutPost

\* The header of a packet is well typed and acknowledges what is in order.
LEMMA AckHeaderFacts ==
  ASSUME TypeOK, NEW e \in Ends, NEW nakDue \in BOOLEAN
  PROVE  /\ AckHeader(e, nakDue).ack = lastInOrder[e]
         /\ AckHeader(e, nakDue).cont \in Nat
         /\ AckHeader(e, nakDue).naks \in SUBSET Nat
         /\ AckHeader(e, nakDue) = [ack |-> AckHeader(e, nakDue).ack,
                                    cont |-> AckHeader(e, nakDue).cont,
                                    naks |-> AckHeader(e, nakDue).naks]
<1>1. lastInOrder[e] + 1 \in Nat /\ lastInOrder[e] + 1 + NakSpan \in Nat
  BY ParamAssumption, lastInOrder[e] \in Nat \cup {-1} DEF TypeOK
<1>2. DroppedPackets(e) \subseteq (lastInOrder[e] + 1)..(lastInOrder[e] + 1 + NakSpan)
  BY DEF DroppedPackets
<1>3. NumContinuous(e) \in Nat
  <2>1. IsFiniteSet((lastInOrder[e] + 1)..(lastInOrder[e] + 1 + NakSpan))
    BY <1>1, FS_Interval
  <2>2. IsFiniteSet({n \in DroppedPackets(e) :
                       (lastInOrder[e] + 1)..n \subseteq DroppedPackets(e)})
    BY <1>2, <2>1, FS_Subset
  <2>3. QED
    BY <2>2, FS_CardinalityType DEF NumContinuous
<1>4. \A n \in Smallest(DroppedPackets(e), NakMax) : n - (lastInOrder[e] + 1) \in Nat
  BY <1>1, <1>2 DEF Smallest
<1>5. Least(NakMax, NumContinuous(e)) \in Nat
  BY <1>3, ParamAssumption DEF Least
<1>6. CASE nakDue /\ NumContinuous(e) < NakBurst
  BY <1>4, <1>6 DEF AckHeader
<1>7. CASE ~(nakDue /\ NumContinuous(e) < NakBurst)
  BY <1>5, <1>7 DEF AckHeader
<1>8. QED
  BY <1>6, <1>7

\* What SendPackets does to end e, whichever chunks it chose to send.
SendEffect(e, fresh) ==
  /\ \E m \in 0..Len(fresh) :
       /\ newChunks' = [newChunks EXCEPT ![e] = Suffix(fresh, m)]
       /\ unackedChunks' = [unackedChunks EXCEPT ![e] = @ \o SubSeq(fresh, 1, m)]
       /\ \E again : /\ again \subseteq Elems(unackedChunks[e]) \cup {fresh[i] : i \in 1..m}
                     /\ resendRequested' = [resendRequested EXCEPT ![e] = again]
  /\ \E r \in BOOLEAN : resend' = [resend EXCEPT ![e] = r]
  /\ \E packets : /\ net' = [net EXCEPT ![Peer(e)] = packets]
                  /\ \A p \in packets : \/ p \in net[Peer(e)]
                                        \/ /\ p \in Packet
                                           /\ p.ack = lastInOrder[e]
                                           /\ p.chunks \subseteq Elems(unackedChunks[e]) \cup Elems(fresh)

LEMMA TransmitFacts ==
  ASSUME TypeOK, NEW e \in Ends, NEW new, Transmit(e, new)
  PROVE  \E packets : /\ net' = [net EXCEPT ![Peer(e)] = packets]
                      /\ packets \subseteq net[Peer(e)] \cup new
<1> DEFINE all == net[Peer(e)] \cup new
           now == IF Cardinality(all) <= NetCap THEN all
                  ELSE IF Cardinality(new) <= NetCap THEN new ELSE net[Peer(e)]
<1>1. net' = [net EXCEPT ![Peer(e)] = now]
  BY DEF Transmit
<1>2. now \subseteq net[Peer(e)] \cup new
  OBVIOUS
<1>3. QED
  BY <1>1, <1>2

LEMMA SendPacketsEffect ==
  ASSUME TypeOK, NEW e \in Ends, NEW fresh \in Seq(Chunk), NEW nakDue \in BOOLEAN,
         NEW again, again \subseteq Elems(unackedChunks[e]),
         NEW order, order \in Seq(again \cup Elems(fresh)), NEW budget \in Nat,
         SendPackets(e, fresh, again, order, AckHeader(e, nakDue), budget)
  PROVE  SendEffect(e, fresh)
<1> DEFINE header == AckHeader(e, nakDue)
           last  == Least(budget * PacketRoom, Len(order))
           sent  == {order[n] : n \in 1..last}
           later == IF LossFactor = 0 THEN [header EXCEPT !.naks = {}] ELSE header
           Full(h, p) == [ack |-> h.ack, cont |-> h.cont, naks |-> h.naks,
                          chunks |-> {order[n] : n \in ((p - 1) * PacketRoom + 1)
                                                         ..Least(p * PacketRoom, last)}]
           new == {Full(IF p = 1 THEN header ELSE later, p) : p \in 1..budget}
<1>1. PICK m \in 0..Len(fresh) :
        /\ newChunks' = [newChunks EXCEPT ![e] = Suffix(fresh, m)]
        /\ unackedChunks' = [unackedChunks EXCEPT ![e] = @ \o SubSeq(fresh, 1, m)]
        /\ resendRequested' = [resendRequested EXCEPT ![e] =
             IF LossFactor = 0 THEN again \ sent
             ELSE again \cup {fresh[i] : i \in 1..m}]
        /\ resend' = [resend EXCEPT ![e] = IF last = 0 THEN @ ELSE order[last] \in again]
        /\ Transmit(e, new)
  BY DEF SendPackets
<1>2. \E r : /\ r \subseteq Elems(unackedChunks[e]) \cup {fresh[i] : i \in 1..m}
             /\ resendRequested' = [resendRequested EXCEPT ![e] = r]
  <2> DEFINE r == IF LossFactor = 0 THEN again \ sent ELSE again \cup {fresh[i] : i \in 1..m}
  <2>1. r \subseteq Elems(unackedChunks[e]) \cup {fresh[i] : i \in 1..m}
    OBVIOUS
  <2>2. resendRequested' = [resendRequested EXCEPT ![e] = r]
    BY <1>1
  <2> HIDE DEF r
  <2>3. QED
    BY <2>1, <2>2
<1>3. \E r \in BOOLEAN : resend' = [resend EXCEPT ![e] = r]
  <2>1. CASE last = 0
    BY <1>1, <2>1, resend[e] \in BOOLEAN DEF TypeOK
  <2>2. CASE last # 0
    <3> DEFINE r == order[last] \in again
    <3>1. r \in BOOLEAN
      OBVIOUS
    <3>2. resend' = [resend EXCEPT ![e] = r]
      BY <1>1, <2>2
    <3> HIDE DEF r
    <3>3. QED
      BY <3>1, <3>2
  <2>3. QED
    BY <2>1, <2>2
<1>4. ASSUME NEW p \in new
      PROVE  /\ p \in Packet
             /\ p.ack = lastInOrder[e]
             /\ p.chunks \subseteq Elems(unackedChunks[e]) \cup Elems(fresh)
  <2>1. PICK i \in 1..budget : p = Full(IF i = 1 THEN header ELSE later, i)
    OBVIOUS
  <2>2. last \in Nat /\ last <= Len(order) /\ Len(order) \in Nat
    <3>1. Len(order) \in Nat
      BY LenProperties
    <3>2. budget * PacketRoom \in Nat
      BY ParamAssumption
    <3> HIDE DEF last
    <3>3. last = Least(budget * PacketRoom, Len(order))
      BY DEF last
    <3>4. QED
      BY <3>1, <3>2, <3>3 DEF Least
  <2>3. {order[n] : n \in ((i - 1) * PacketRoom + 1)..Least(i * PacketRoom, last)}
          \subseteq again \cup Elems(fresh)
    <3>1. i \in Nat /\ i >= 1
      OBVIOUS
    <3>2. i * PacketRoom \in Nat /\ (i - 1) * PacketRoom \in Nat
      BY SMTT(40), <3>1, ParamAssumption
    <3> DEFINE hi == Least(i * PacketRoom, last)
               lo == (i - 1) * PacketRoom
    <3>3. hi \in Nat /\ hi <= last /\ lo \in Nat
      BY <2>2, <3>2 DEF Least
    <3> HIDE DEF hi, lo, last
    <3>4. \A n \in (lo + 1)..hi : n \in 1..Len(order)
      BY <2>2, <3>3
    <3>5. \A n \in (lo + 1)..hi : order[n] \in again \cup Elems(fresh)
      BY <3>4, ElementOfSeq
    <3>6. QED
      BY <3>5 DEF hi, lo
  <2>4. /\ header.ack = lastInOrder[e] /\ header.cont \in Nat /\ header.naks \in SUBSET Nat
        /\ later.ack = lastInOrder[e] /\ later.cont \in Nat /\ later.naks \in SUBSET Nat
    BY AckHeaderFacts
  <2>5. again \cup Elems(fresh) \subseteq Chunk
    <3>1. unackedChunks[e] \in Seq(Chunk)
      BY DEF TypeOK
    <3>2. QED
      BY <3>1, ElemsFinite
  <2>6. lastInOrder[e] \in Nat \cup {-1}
    BY DEF TypeOK
  <2>7. QED
    BY <2>1, <2>3, <2>4, <2>5, <2>6 DEF Packet
<1>5. \E packets : /\ net' = [net EXCEPT ![Peer(e)] = packets]
                   /\ \A p \in packets : \/ p \in net[Peer(e)]
                                         \/ /\ p \in Packet
                                            /\ p.ack = lastInOrder[e]
                                            /\ p.chunks \subseteq Elems(unackedChunks[e]) \cup Elems(fresh)
  <2> HIDE DEF new
  <2>1. PICK packets : /\ net' = [net EXCEPT ![Peer(e)] = packets]
                       /\ packets \subseteq net[Peer(e)] \cup new
    BY <1>1, TransmitFacts
  <2>2. QED
    BY <1>4, <2>1
<1>6. QED
  BY <1>1, <1>2, <1>3, <1>5 DEF SendEffect

LEMMA ResendOrderIsSeq ==
  ASSUME NEW S, IsFiniteSet(S), NEW s \in ResendOrders(S)
  PROVE  s \in Seq(S)
<1> DEFINE size == IF LossFactor = 0 THEN Cardinality(S)
                   ELSE Least(Cardinality(S), FloodFactor * LossFactor)
<1>1. size \in Nat
  <2>1. Cardinality(S) \in Nat
    BY FS_CardinalityType
  <2>2. LossFactor \in Nat /\ FloodFactor \in Nat
    BY ParamAssumption
  <2>3. FloodFactor * LossFactor \in Nat
    BY <2>2
  <2>4. QED
    BY <2>1, <2>3 DEF Least
<1>2. s \in [1..size -> S]
  BY DEF ResendOrders
<1> HIDE DEF size
<1>3. QED
  BY <1>1, <1>2, FunctionIsSeq

LEMMA SendIfNecessaryEffect ==
  ASSUME TypeOK, NEW e \in Ends, resendRequested[e] \subseteq Elems(unackedChunks[e]),
         NEW fresh \in Seq(Chunk), NEW forced \in BOOLEAN, NEW t \in Timers,
         t.unackDue => unackedChunks[e] # <<>>,
         SendIfNecessary(e, fresh, forced, t)
  PROVE  SendEffect(e, fresh)
<1> DEFINE queued == unackedChunks[e]
           again  == IF t.unackDue /\ fresh = <<>>
                     THEN resendRequested[e] \cup {queued[Len(queued)]}
                     ELSE resendRequested[e]
           header == AckHeader(e, t.nakDue)
           due == \/ forced \/ fresh # <<>>
                  \/ LossFactor = 0 /\ again # {}
                  \/ header.naks # {} \/ t.sendDue
<1>1. queued \in Seq(Chunk) /\ t.nakDue \in BOOLEAN
  BY DEF TypeOK, Timers
<1>2. again \subseteq Elems(queued)
  <2>1. queued # <<>> => queued[Len(queued)] \in Elems(queued)
    BY <1>1, EmptySeq DEF Elems
  <2>2. QED
    BY <2>1
<1>3. CASE ~due
  <2>1. /\ newChunks' = [newChunks EXCEPT ![e] = fresh]
        /\ resendRequested' = [resendRequested EXCEPT ![e] = again]
        /\ UNCHANGED <<unackedChunks, resend, net>>
    BY <1>3 DEF SendIfNecessary
  <2>2. fresh = <<>>
    BY <1>3
  <2>3. 0 \in 0..Len(fresh) /\ Suffix(fresh, 0) = fresh /\ SubSeq(fresh, 1, 0) = <<>>
    BY <2>2, SubSeqEmpty, EmptySeq DEF Suffix
  <2>4. unackedChunks' = [unackedChunks EXCEPT ![e] = @ \o SubSeq(fresh, 1, 0)]
    <3>1. queued \o <<>> = queued
      BY <1>1, ConcatEmptySeq
    <3>2. unackedChunks \in [Ends -> Seq(Chunk)]
      BY DEF TypeOK
    <3>3. QED
      BY <2>1, <2>3, <3>1, <3>2
  <2>5. \E r \in BOOLEAN : resend' = [resend EXCEPT ![e] = r]
    BY <2>1 DEF TypeOK
  <2>6. net' = [net EXCEPT ![Peer(e)] = net[Peer(e)]]
    BY <2>1 DEF TypeOK
  <2> HIDE DEF again
  <2>7. \E r : /\ r \subseteq Elems(unackedChunks[e]) \cup {fresh[i] : i \in 1..0}
               /\ resendRequested' = [resendRequested EXCEPT ![e] = r]
    BY <1>2, <2>1
  <2>8. newChunks' = [newChunks EXCEPT ![e] = Suffix(fresh, 0)]
    BY <2>1, <2>3
  <2>9. QED
    BY <2>3, <2>4, <2>5, <2>6, <2>7, <2>8 DEF SendEffect
<1>4. CASE due
  <2>1. PICK old \in ResendOrders(again) :
          LET total  == Len(old) + Len(fresh)
              needed == IF total = 0 THEN 1
                        ELSE (total + PacketRoom - 1) \div PacketRoom
              order  == IF resend[e] THEN Alternate(fresh, old) ELSE Alternate(old, fresh)
          IN  \E budget \in IF Throttled THEN 0..needed ELSE {needed} :
                SendPackets(e, fresh, again, order, header, budget)
    BY <1>4 DEF SendIfNecessary
  <2> DEFINE total  == Len(old) + Len(fresh)
             needed == IF total = 0 THEN 1 ELSE (total + PacketRoom - 1) \div PacketRoom
             order  == IF resend[e] THEN Alternate(fresh, old) ELSE Alternate(old, fresh)
  <2>2. PICK budget \in IF Throttled THEN 0..needed ELSE {needed} :
               SendPackets(e, fresh, again, order, header, budget)
    BY <2>1
  <2>3. old \in Seq(again)
    <3>1. IsFiniteSet(again)
      BY <1>1, <1>2, ElemsFinite, FS_Subset
    <3> HIDE DEF again
    <3>2. QED
      BY <3>1, ResendOrderIsSeq
  <2>4. order \in Seq(again \cup Elems(fresh))
    <3> HIDE DEF again
    <3>1. old \in Seq(again \cup Elems(fresh))
      BY <2>3, SeqMonotonic
    <3>2. fresh \in Seq(Elems(fresh))
      <4>1. Len(fresh) \in Nat /\ fresh \in [1..Len(fresh) -> Elems(fresh)]
        BY LenProperties DEF Elems
      <4>2. QED
        BY <4>1, FunctionIsSeq
    <3>3. fresh \in Seq(again \cup Elems(fresh))
      BY <3>2, SeqMonotonic
    <3>4. QED
      BY <3>1, <3>3, AlternateFacts
  <2>5. budget \in Nat
    <3>1. total \in Nat
      BY <2>3, LenProperties
    <3> HIDE DEF total
    <3>2. needed \in Nat
      <4>1. CASE total = 0
        BY <4>1
      <4>2. CASE total # 0
        <5>1. total + PacketRoom - 1 \in Nat /\ PacketRoom \in Nat /\ PacketRoom > 0
          BY <3>1, <4>2, ParamAssumption
        <5>2. QED
          BY <4>2, <5>1
      <4>3. QED
        BY <4>1, <4>2
    <3> HIDE DEF needed
    <3>3. QED
      BY <3>2
  <2> HIDE DEF again, order
  <2>6. QED
    BY <1>1, <1>2, <2>2, <2>4, <2>5, SendPacketsEffect
<1>5. QED
  BY <1>3, <1>4

MovePre(lg, fresh, un, m) ==
  /\ lg \in Seq(Data) /\ fresh \in Seq(Chunk) /\ un \in Seq(Chunk)
  /\ Len(fresh) + Len(un) <= Len(lg)
  /\ Stretch(fresh, lg, Len(lg) - Len(fresh))
  /\ Stretch(un, lg, Len(lg) - Len(fresh) - Len(un))
  /\ m \in 0..Len(fresh)

MovePost(lg, fresh, un, m) ==
  LET new2 == Suffix(fresh, m)
      un2  == un \o SubSeq(fresh, 1, m)
  IN  /\ new2 \in Seq(Chunk) /\ Len(new2) = Len(fresh) - m
      /\ Stretch(new2, lg, Len(lg) - (Len(fresh) - m))
      /\ un2 \in Seq(Chunk) /\ Len(un2) = Len(un) + m
      /\ Stretch(un2, lg, Len(lg) - Len(fresh) - Len(un))
      /\ Elems(un) \cup {fresh[i] : i \in 1..m} \subseteq Elems(un2)

\* Moving m chunks from the new ones to the unacknowledged ones.
LEMMA MoveFacts ==
  ASSUME NEW lg, NEW fresh, NEW un, NEW m, MovePre(lg, fresh, un, m)
  PROVE  MovePost(lg, fresh, un, m)
<1> USE DEF MovePre
<1>N. PICK N \in Nat : N = Len(lg)
  BY LenProperties
<1>F. PICK F \in Nat : F = Len(fresh)
  BY LenProperties
<1>U. PICK U \in Nat : U = Len(un)
  BY LenProperties
<1>S. F + U <= N /\ Stretch(fresh, lg, N - F) /\ Stretch(un, lg, N - F - U) /\ m \in 0..F
  BY <1>N, <1>F, <1>U
<1> DEFINE new2 == Suffix(fresh, m)
           pre  == SubSeq(fresh, 1, m)
           un2  == un \o pre
<1>1. /\ new2 \in Seq(Chunk) /\ Len(new2) = F - m
      /\ \A i \in 1..(F - m) : new2[i] = fresh[m + i]
  BY <1>F, SuffixFacts
<1>2. pre \in Seq(Chunk) /\ Len(pre) = m /\ \A i \in 1..m : pre[i] = fresh[i]
  BY PrefixFacts
<1>3. un2 \in Seq(Chunk) /\ Len(un2) = U + m
  BY <1>2, <1>U, ConcatProperties
<1>4. \A i \in 1..(U + m) : un2[i] = IF i <= U THEN un[i] ELSE pre[i - U]
  BY <1>2, <1>U, ConcatProperties
<1> HIDE DEF new2, pre, un2
<1>5. Stretch(new2, lg, N - (F - m))
  <2>1. SUFFICES ASSUME NEW i \in 1..(F - m)
                 PROVE  new2[i] = [num |-> N - (F - m) + i - 1, data |-> lg[N - (F - m) + i]]
    BY <1>1 DEF Stretch
  <2>2. m + i \in 1..F /\ N - (F - m) + i = N - F + (m + i)
    BY <1>S
  <2>3. fresh[m + i] = [num |-> N - F + (m + i) - 1, data |-> lg[N - F + (m + i)]]
    BY <1>F, <1>S, <2>2 DEF Stretch
  <2>4. QED
    BY SMTT(40), <1>1, <2>2, <2>3
<1>6. Stretch(un2, lg, N - F - U)
  <2>1. SUFFICES ASSUME NEW i \in 1..(U + m)
                 PROVE  un2[i] = [num |-> N - F - U + i - 1, data |-> lg[N - F - U + i]]
    BY <1>3 DEF Stretch
  <2>2. CASE i <= U
    <3>1. i \in 1..U
      BY <2>2
    <3>2. QED
      <4>1. un2[i] = un[i]
        BY <1>4, <1>S, <2>2
      <4>2. un[i] = [num |-> (N - F - U) + i - 1, data |-> lg[(N - F - U) + i]]
        BY <1>S, <1>U, <3>1 DEF Stretch
      <4>3. QED
        BY <4>1, <4>2
  <2>3. CASE i > U
    <3>1. i - U \in 1..m /\ i - U \in 1..F
      BY <1>S, <2>3
    <3>0. /\ N - F - U + i = N - F + (i - U)
          /\ N - F - U + i - 1 = N - F + (i - U) - 1
      BY <2>3
    <3>2. un2[i] = fresh[i - U]
      BY <1>2, <1>4, <2>3, <3>1
    <3>3. fresh[i - U] = [num |-> N - F + (i - U) - 1, data |-> lg[N - F + (i - U)]]
      BY <1>F, <1>S, <3>1 DEF Stretch
    <3>4. QED
      BY <3>0, <3>2, <3>3
  <2>4. QED
    BY <2>2, <2>3
<1>7. Elems(un) \subseteq Elems(un2)
  <2>1. SUFFICES ASSUME NEW i \in 1..U PROVE un[i] \in Elems(un2)
    BY <1>U DEF Elems
  <2>2. i \in 1..(U + m) /\ i <= U
    BY <1>S
  <2>3. QED
    BY <1>3, <1>4, <2>2 DEF Elems
<1>8. {fresh[i] : i \in 1..m} \subseteq Elems(un2)
  <2>1. SUFFICES ASSUME NEW i \in 1..m PROVE fresh[i] \in Elems(un2)
    OBVIOUS
  <2>2. U + i \in 1..(U + m) /\ ~(U + i <= U) /\ (U + i) - U = i
    BY <1>S
  <2>3. un2[U + i] = fresh[i]
    BY <1>2, <1>4, <2>2
  <2>4. QED
    BY <1>3, <2>2, <2>3 DEF Elems
<1>9. QED
  BY <1>1, <1>3, <1>5, <1>6, <1>7, <1>8, <1>N, <1>F, <1>U DEF new2, pre, un2, MovePost

\* The elements of a stretch of a log are chunks of that log.
LEMMA StretchElems ==
  ASSUME NEW lg \in Seq(Data), NEW N \in Nat, N = Len(lg), NEW q \in Seq(Chunk),
         NEW lo \in Nat, lo + Len(q) <= N, Stretch(q, lg, lo)
  PROVE  Elems(q) \subseteq ChunksIn(lg)
<1>1. Len(q) \in Nat
  BY LenProperties
<1>2. SUFFICES ASSUME NEW i \in 1..Len(q)
               PROVE  q[i] \in ChunksIn(lg)
  BY DEF Elems
<1>3. lo + i - 1 \in 0..(N - 1) /\ (lo + i - 1) + 1 = lo + i
  BY <1>1
<1>4. q[i] = [num |-> lo + i - 1, data |-> lg[(lo + i - 1) + 1]]
  BY <1>3 DEF Stretch
<1> DEFINE n == lo + i - 1
<1> HIDE DEF n
<1>5. n \in 0..(N - 1) /\ q[i] = [num |-> n, data |-> lg[n + 1]]
  BY <1>3, <1>4 DEF n
<1>6. QED
  BY <1>5 DEF ChunksIn

\* A flush, or the flush that Close does, preserves the invariant.
LEMMA EmitStep ==
  ASSUME IInv, NEW e \in Ends, NEW forced \in BOOLEAN, NEW k \in Cuts(e, forced),
         NEW t \in Expired(e, k), Emit(e, forced, k, t),
         muted' \in [Ends -> BOOLEAN], closed' \in [Ends -> BOOLEAN]
  PROVE  IInv'
<1> DEFINE f == Peer(e)
           lg == log[e]
           lg2 == CutLog(log[e], outgoingData[e], k)
           new == newChunks[e]
           un == unackedChunks[e]
           fresh == new \o CutChunks(log[e], outgoingData[e], k)
<1>1. f \in Ends /\ f # e /\ Peer(f) = e /\ \A x \in Ends : x = e \/ x = f
  BY PeerFacts
<1>2. TypeOK /\ SenderInv(e) /\ LinkInv(e) /\ FlightInv(e)
             /\ SenderInv(f) /\ LinkInv(f) /\ FlightInv(f)
  BY <1>1 DEF IInv
<1>3. /\ lg \in Seq(Data) /\ outgoingData[e] \in Seq(Data)
      /\ new \in Seq(Chunk) /\ un \in Seq(Chunk)
      /\ Len(outgoingData[e]) \in Nat
  BY <1>2, LenProperties DEF TypeOK
<1>lg. PICK N \in Nat : N = Len(lg)
  BY <1>3, LenProperties
<1>new. PICK M \in Nat : M = Len(new)
  BY <1>3, LenProperties
<1>un. PICK U \in Nat : U = Len(un)
  BY <1>3, LenProperties
<1>4. k \in 0..Len(outgoingData[e]) /\ k \in Nat
  BY <1>3 DEF Cuts
<1>0. M + U <= N
  <2>1. Base(e) >= 0
    BY <1>2 DEF SenderInv
  <2>2. Base(e) = N - M - U
    BY <1>lg, <1>new, <1>un DEF Base
  <2>3. QED
    BY <2>1, <2>2
<1>5. /\ currentPacketChunkNum[e] = N
      /\ Stretch(new, lg, N - M) /\ Stretch(un, lg, N - M - U)
      /\ resendRequested[e] \subseteq Elems(un)
  BY <1>2, <1>lg, <1>new, <1>un DEF SenderInv, Base
<1>6. /\ lg2 \in Seq(Data) /\ Len(lg2) = N + k
      /\ \A i \in 1..N : lg2[i] = lg[i]
      /\ fresh \in Seq(Chunk) /\ Len(fresh) = M + k
      /\ Stretch(fresh, lg2, N - M)
  <2>1. M <= N
    BY <1>0
  <2>2. Len(new) <= Len(lg) /\ Stretch(new, lg, Len(lg) - Len(new))
    BY <1>5, <1>lg, <1>new, <2>1
  <2>3. QED
    <3>1. CutPre(lg, outgoingData[e], new, k)
      BY <1>3, <1>4, <2>2 DEF CutPre
    <3>2. CutPost(lg, outgoingData[e], new, k)
      BY <3>1, CutFacts
    <3>3. QED
      BY <1>lg, <1>new, <3>2 DEF CutPost
<1>7. Stretch(un, lg2, N - M - U)
  <2>1. \A i \in 1..U : N - M - U + i \in 1..N
    BY <1>0
  <2>2. QED
    BY <1>5, <1>6, <1>un, <2>1 DEF Stretch
<1>8. SendEffect(e, fresh)
  <2>1. SendIfNecessary(e, fresh, forced, t)
    BY <1>5, <1>lg DEF Emit, CutChunks
  <2>2. t \in Timers /\ (t.unackDue => unackedChunks[e] # <<>>)
    BY DEF Expired
  <2> HIDE DEF fresh
  <2>3. QED
    BY <1>2, <1>5, <1>6, <2>1, <2>2, SendIfNecessaryEffect
<1>9. /\ outgoingData' = [outgoingData EXCEPT ![e] = Suffix(@, k)]
      /\ currentPacketChunkNum' = [currentPacketChunkNum EXCEPT ![e] = @ + k]
      /\ log' = [log EXCEPT ![e] = lg2]
      /\ lastInOrder' = lastInOrder /\ waitingPackets' = waitingPackets /\ msgQueue' = msgQueue
  BY DEF Emit, receiver, CutLog
<1> HIDE DEF fresh, lg2
<1>10. PICK m \in 0..Len(fresh) :
         /\ newChunks' = [newChunks EXCEPT ![e] = Suffix(fresh, m)]
         /\ unackedChunks' = [unackedChunks EXCEPT ![e] = un \o SubSeq(fresh, 1, m)]
         /\ \E again : /\ again \subseteq Elems(un) \cup {fresh[i] : i \in 1..m}
                       /\ resendRequested' = [resendRequested EXCEPT ![e] = again]
  BY <1>8 DEF SendEffect
<1>again. PICK again : /\ again \subseteq Elems(un) \cup {fresh[i] : i \in 1..m}
                       /\ resendRequested' = [resendRequested EXCEPT ![e] = again]
  BY <1>10
<1>resend. PICK r \in BOOLEAN : resend' = [resend EXCEPT ![e] = r]
  BY <1>8 DEF SendEffect
<1>net. PICK packets :
          /\ net' = [net EXCEPT ![f] = packets]
          /\ \A p \in packets : \/ p \in net[f]
                                \/ /\ p \in Packet
                                   /\ p.ack = lastInOrder[e]
                                   /\ p.chunks \subseteq Elems(un) \cup Elems(fresh)
  BY <1>8 DEF SendEffect
<1> DEFINE F == M + k
           new2 == Suffix(fresh, m)
           un2 == un \o SubSeq(fresh, 1, m)
<1>11. /\ new2 \in Seq(Chunk) /\ Len(new2) = F - m
       /\ Stretch(new2, lg2, (N + k) - (F - m))
       /\ un2 \in Seq(Chunk) /\ Len(un2) = U + m
       /\ Stretch(un2, lg2, (N + k) - F - U)
       /\ Elems(un) \cup {fresh[i] : i \in 1..m} \subseteq Elems(un2)
  <2>1. N + k \in Nat /\ F \in Nat /\ m \in 0..F /\ F + U <= N + k
    BY <1>0, <1>4, <1>6
  <2>2. (N + k) - F = N - M /\ (N + k) - F - U = N - M - U
    BY <1>4
  <2>3. Stretch(fresh, lg2, (N + k) - F) /\ Stretch(un, lg2, (N + k) - F - U)
    BY <1>6, <1>7, <2>2
  <2>4. Len(fresh) = F
    BY <1>6
  <2>5. /\ Len(fresh) + Len(un) <= Len(lg2) /\ m \in 0..Len(fresh)
        /\ Stretch(fresh, lg2, Len(lg2) - Len(fresh))
        /\ Stretch(un, lg2, Len(lg2) - Len(fresh) - Len(un))
    BY <1>6, <1>un, <2>1, <2>3, <2>4
  <2>6. /\ new2 \in Seq(Chunk) /\ Len(new2) = Len(fresh) - m
        /\ Stretch(new2, lg2, Len(lg2) - (Len(fresh) - m))
        /\ un2 \in Seq(Chunk) /\ Len(un2) = Len(un) + m
        /\ Stretch(un2, lg2, Len(lg2) - Len(fresh) - Len(un))
        /\ Elems(un) \cup {fresh[i] : i \in 1..m} \subseteq Elems(un2)
    <3>1. MovePre(lg2, fresh, un, m)
      BY <1>3, <1>6, <2>5 DEF MovePre
    <3>2. MovePost(lg2, fresh, un, m)
      BY <3>1, MoveFacts
    <3>3. QED
      BY <3>2 DEF MovePost
  <2>7. QED
    BY <1>6, <1>un, <2>4, <2>6
<1> HIDE DEF new2, un2
<1>12. /\ newChunks' = [newChunks EXCEPT ![e] = new2]
       /\ unackedChunks' = [unackedChunks EXCEPT ![e] = un2]
       /\ again \subseteq Elems(un2)
  BY <1>10, <1>11, <1>again DEF new2, un2
<1>13. /\ log'[e] = lg2 /\ log'[f] = log[f]
       /\ newChunks'[e] = new2 /\ newChunks'[f] = newChunks[f]
       /\ unackedChunks'[e] = un2 /\ unackedChunks'[f] = unackedChunks[f]
       /\ resendRequested'[e] = again /\ resendRequested'[f] = resendRequested[f]
       /\ currentPacketChunkNum'[e] = N + k
       /\ currentPacketChunkNum'[f] = currentPacketChunkNum[f]
       /\ net'[f] = packets /\ net'[e] = net[e]
  BY <1>1, <1>2, <1>5, <1>9, <1>12, <1>again, <1>net DEF TypeOK
<1> DEFINE chunks2 == ChunksIn(lg2)
<1>14. ChunksIn(log[e])' = chunks2 /\ ChunksIn(log[f])' = ChunksIn(log[f])
  BY <1>13
<1>15. ChunksIn(log[e]) \subseteq chunks2
  <2>1. \A n \in 0..(N - 1) : n + 1 \in 1..N /\ n \in 0..(N + k - 1)
    BY <1>4
  <2>2. \A n \in 0..(N - 1) : lg2[n + 1] = log[e][n + 1]
    BY <1>6, <2>1
  <2>3. QED
    <3>1. 0..(Len(lg) - 1) = 0..(N - 1) /\ 0..(Len(lg2) - 1) = 0..(N + k - 1)
      BY <1>4, <1>6, <1>lg
    <3>2. \A n \in 0..(N - 1) : [num |-> n, data |-> lg[n + 1]] \in chunks2
      BY <2>1, <2>2, <3>1 DEF ChunksIn
    <3>3. QED
      BY <3>1, <3>2 DEF ChunksIn
<1>16. Elems(un) \subseteq chunks2 /\ Elems(fresh) \subseteq chunks2
  <2>1. N + k \in Nat /\ N - M \in Nat /\ N - M - U \in Nat
    BY <1>0, <1>4
  <2>2. (N - M) + Len(fresh) <= N + k /\ (N - M - U) + Len(un) <= N + k
    BY <1>0, <1>4, <1>6, <1>un
  <2> DEFINE N2 == N + k
             lo == N - M
             lo2 == N - M - U
  <2>3. /\ N2 \in Nat /\ lo \in Nat /\ lo2 \in Nat /\ N2 = Len(lg2)
        /\ lo + Len(fresh) <= N2 /\ lo2 + Len(un) <= N2
        /\ Stretch(fresh, lg2, lo) /\ Stretch(un, lg2, lo2)
    BY <1>6, <1>7, <2>1, <2>2
  <2> HIDE DEF N2, lo, lo2
  <2>4. QED
    BY <1>3, <1>6, <2>3, StretchElems
<1> HIDE DEF chunks2
<1>17. TypeOK'
  <2>1. again \subseteq Chunk
    BY <1>11, <1>12, ElemsFinite
  <2>2. packets \subseteq Packet
    BY <1>1, <1>2, <1>net DEF TypeOK
  <2>3. Suffix(outgoingData[e], k) \in Seq(Data)
    BY <1>3, <1>4, SuffixFacts
  <2>4. N + k \in Nat
    BY <1>4
  <2>5. log' \in [Ends -> Seq(Data)] /\ outgoingData' \in [Ends -> Seq(Data)]
    BY <1>2, <1>6, <1>9, <2>3 DEF TypeOK
  <2>6. currentPacketChunkNum' \in [Ends -> Nat]
    BY <1>2, <1>5, <1>9, <2>4 DEF TypeOK
  <2>7. newChunks' \in [Ends -> Seq(Chunk)] /\ unackedChunks' \in [Ends -> Seq(Chunk)]
    BY <1>2, <1>11, <1>12 DEF TypeOK
  <2>8. /\ resendRequested' \in [Ends -> SUBSET Chunk] /\ resend' \in [Ends -> BOOLEAN]
        /\ net' \in [Ends -> SUBSET Packet]
    BY <1>1, <1>2, <1>again, <1>resend, <1>net, <2>1, <2>2 DEF TypeOK
  <2>9. /\ lastInOrder' \in [Ends -> Nat \cup {-1}] /\ waitingPackets' \in [Ends -> SUBSET Chunk]
        /\ msgQueue' \in [Ends -> Seq(Data)]
    BY <1>2, <1>9 DEF TypeOK
  <2>10. QED
    BY <2>5, <2>6, <2>7, <2>8, <2>9 DEF TypeOK
<1>18. SenderInv(e)' /\ SenderInv(f)'
  <2>1. Len(log'[e]) - Len(newChunks'[e]) = (N + k) - (F - m)
    BY <1>6, <1>11, <1>13
  <2>2. Base(e)' = (N + k) - F - U /\ Base(e)' >= 0
    <3>1. Base(e)' = (N + k) - (F - m) - (U + m)
      BY <1>6, <1>11, <1>13 DEF Base
    <3>2. m \in Nat
      BY <1>4, <1>6
    <3>3. QED
      BY <1>0, <1>4, <3>1, <3>2
  <2>3. SenderInv(e)'
    BY <1>6, <1>11, <1>12, <1>13, <2>1, <2>2 DEF SenderInv
  <2>4. Base(f)' = Base(f)
    BY <1>13 DEF Base
  <2>5. SenderInv(f)'
    BY <1>2, <1>13, <2>4 DEF SenderInv
  <2>6. QED
    BY <2>3, <2>5
<1>19. LinkInv(e)' /\ LinkInv(f)'
  <2> DEFINE l == lastInOrder[f]
  <2>1. l \in Nat \cup {-1} /\ l < N /\ lastInOrder'[f] = l /\ Peer(e)' = f
    BY <1>1, <1>2, <1>9, <1>lg DEF LinkInv, TypeOK
  <2>2. Base(e)' <= l + 1
    <3>1. Base(e) <= l + 1 /\ Base(e) = N - M - U
      BY <1>2, <1>lg, <1>new, <1>un DEF LinkInv, Base
    <3>2. Base(e)' = (N + k) - (F - m) - (U + m)
      BY <1>6, <1>11, <1>13 DEF Base
    <3>3. m \in Nat
      BY <1>4, <1>6
    <3>4. QED
      BY <1>4, <2>1, <3>1, <3>2, <3>3
  <2>3. l < Len(log'[e])
    BY <1>4, <1>6, <1>13, <2>1
  <2>4. SubSeq(lg2, 1, l + 1) = SubSeq(lg, 1, l + 1)
    <3>1. l + 1 \in 0..N /\ l + 1 \in 0..(N + k)
      BY <1>4, <2>1
    <3>2. \A i \in 1..(l + 1) : i \in 1..N
      BY <3>1
    <3>3. /\ SubSeq(lg, 1, l + 1) \in Seq(Data) /\ Len(SubSeq(lg, 1, l + 1)) = l + 1
          /\ \A i \in 1..(l + 1) : SubSeq(lg, 1, l + 1)[i] = lg[i]
      BY <1>3, <1>lg, <3>1, PrefixFacts
    <3>4. /\ SubSeq(lg2, 1, l + 1) \in Seq(Data) /\ Len(SubSeq(lg2, 1, l + 1)) = l + 1
          /\ \A i \in 1..(l + 1) : SubSeq(lg2, 1, l + 1)[i] = lg2[i]
      BY <1>6, <3>1, PrefixFacts
    <3>5. QED
      BY <1>6, <3>2, <3>3, <3>4, SeqEqual
  <2>5. msgQueue'[f] = SubSeq(log'[e], 1, l + 1)
    BY <1>2, <1>9, <1>13, <2>4 DEF LinkInv
  <2>6. waitingPackets'[f] \subseteq ChunksIn(log[e])'
    BY <1>2, <1>9, <1>14, <1>15 DEF LinkInv
  <2>7. LinkInv(e)'
    BY <2>1, <2>2, <2>3, <2>5, <2>6 DEF LinkInv
  <2>8. Base(f)' = Base(f)
    BY <1>13 DEF Base
  <2>9. LinkInv(f)'
    BY <1>1, <1>2, <1>9, <1>13, <1>14, <2>8 DEF LinkInv
  <2>10. QED
    BY <2>7, <2>9
<1>20. FlightInv(e)' /\ FlightInv(f)'
  <2>1. ASSUME NEW p \in packets
        PROVE  p.ack <= lastInOrder'[e] /\ p.chunks \subseteq ChunksIn(log[e])'
    <3>1. CASE p \in net[f]
      BY <1>2, <1>9, <1>14, <1>15, <3>1 DEF FlightInv
    <3>2. CASE p.ack = lastInOrder[e] /\ p.chunks \subseteq Elems(un) \cup Elems(fresh)
      <4>1. lastInOrder[e] <= lastInOrder[e]
        BY <1>2, lastInOrder[e] \in Nat \cup {-1} DEF TypeOK
      <4>2. QED
        BY <1>9, <1>14, <1>16, <3>2, <4>1
    <3>3. QED
      BY <1>net, <3>1, <3>2
  <2>2. FlightInv(e)'
    BY <1>13, <2>1 DEF FlightInv
  <2>3. FlightInv(f)'
    BY <1>1, <1>2, <1>9, <1>13, <1>14 DEF FlightInv
  <2>4. QED
    BY <2>2, <2>3
<1>21. QED
  BY <1>1, <1>17, <1>18, <1>19, <1>20 DEF IInv

-----------------------------------------------------------------------------
(* Receiving *)

\* The acknowledgements of a datagram: the queue of unacknowledged chunks loses
\* a prefix that the peer has.
LEMMA TakeAcksStep ==
  ASSUME IInv, NEW e \in Ends, NEW p \in net[e], TakeAcks(e, p),
         newChunks' = newChunks, log' = log, lastInOrder[Peer(e)] <= lastInOrder'[Peer(e)],
         lastInOrder'[Peer(e)] \in Nat \cup {-1},
         currentPacketChunkNum' = currentPacketChunkNum
  PROVE  /\ SenderInv(e)' /\ Base(e)' <= lastInOrder'[Peer(e)] + 1
         /\ unackedChunks' \in [Ends -> Seq(Chunk)]
         /\ resendRequested' \in [Ends -> SUBSET Chunk]
         /\ \A x \in Ends \ {e} : /\ unackedChunks'[x] = unackedChunks[x]
                                  /\ resendRequested'[x] = resendRequested[x]
<1> DEFINE f == Peer(e)
           un == unackedChunks[e]
           l  == lastInOrder[f]
<1>1. /\ TypeOK /\ SenderInv(e) /\ LinkInv(e) /\ FlightInv(f)
      /\ f \in Ends /\ Peer(f) = e
  BY PeerFacts DEF IInv
<1>2. un \in Seq(Chunk) /\ p.ack \in Nat \cup {-1} /\ l \in Nat \cup {-1}
  BY <1>1 DEF TypeOK, Packet
<1>3. p.ack <= l
  BY <1>1 DEF FlightInv
<1>U. PICK U \in Nat : U = Len(un)
  BY <1>2, LenProperties
<1>B. PICK b \in Nat : b = Base(e)
  <2>1. Base(e) \in Int
    <3>1. Len(log[e]) \in Nat /\ Len(newChunks[e]) \in Nat /\ Len(un) \in Nat
      BY <1>1, LenProperties DEF TypeOK
    <3>2. QED
      BY <3>1 DEF Base
  <2>2. Base(e) >= 0
    BY <1>1 DEF SenderInv
  <2>3. QED
    BY <2>1, <2>2
<1>4. PICK n \in 0..Len(un) :
        LET left == Suffix(un, n)
        IN  /\ \A i \in 1..n : un[i].num <= p.ack
            /\ left # <<>> => left[1].num > p.ack
            /\ unackedChunks' = [unackedChunks EXCEPT ![e] = left]
            /\ resendRequested' = [resendRequested EXCEPT ![e] =
                 ({c \in @ : c.num > p.ack} \cup Requested(left, p)) \ Unneeded(left, p)]
  BY DEF TakeAcks, AckChunks
<1> DEFINE left == Suffix(un, n)
           requests == ({c \in resendRequested[e] : c.num > p.ack}
                          \cup Requested(left, p)) \ Unneeded(left, p)
<1>5. /\ unackedChunks' = [unackedChunks EXCEPT ![e] = left]
      /\ resendRequested' = [resendRequested EXCEPT ![e] = requests]
  BY <1>4
<1>6. n \in 0..U /\ n \in Nat
  BY <1>U
<1>7. left \in Seq(Chunk) /\ Len(left) = U - n /\ \A i \in 1..(U - n) : left[i] = un[n + i]
  BY ZenonT(60), <1>2, <1>U, SuffixFacts
<1>8. Stretch(un, log[e], b)
  BY <1>1, <1>B DEF SenderInv
<1> HIDE DEF left
<1>9. Stretch(left, log[e], b + n)
  <2>1. SUFFICES ASSUME NEW i \in 1..(U - n)
                 PROVE  left[i] = [num |-> b + n + i - 1, data |-> log[e][b + n + i]]
    BY <1>7 DEF Stretch
  <2>2. /\ n + i \in 1..U /\ b + (n + i) = b + n + i
        /\ b + (n + i) - 1 = b + n + i - 1
    BY <1>6
  <2>3. un[n + i] = [num |-> b + (n + i) - 1, data |-> log[e][b + (n + i)]]
    BY <1>8, <1>U, <2>2 DEF Stretch
  <2>4. QED
    BY <1>7, <2>2, <2>3
<1>10. {c \in resendRequested[e] : c.num > p.ack} \subseteq Elems(left)
  <2>1. SUFFICES ASSUME NEW c \in resendRequested[e], c.num > p.ack
                 PROVE  c \in Elems(left)
    OBVIOUS
  <2>2. PICK i \in 1..U : c = un[i]
    BY <1>1, <1>U DEF SenderInv, Elems
  <2>3. ~(i <= n)
    <3>1. SUFFICES ASSUME i <= n PROVE FALSE
      OBVIOUS
    <3>2. un[i].num <= p.ack
      BY <1>4, <1>6, <3>1
    <3>3. c.num \in Nat
      BY <1>1 DEF TypeOK, Chunk
    <3>4. QED
      BY <1>2, <2>1, <2>2, <3>2, <3>3
  <2>4. i - n \in 1..(U - n) /\ n + (i - n) = i
    BY <1>6, <2>3
  <2>5. left[i - n] = un[i]
    BY <1>7, <2>4
  <2>6. QED
    BY <1>7, <2>2, <2>4, <2>5 DEF Elems
<1>11. Requested(left, p) \subseteq Elems(left)
  BY DEF Requested, Elems
<1>12. requests \subseteq Elems(left)
  BY <1>10, <1>11
<1>13. Elems(left) \subseteq Chunk
  BY <1>7, ElemsFinite
<1> HIDE DEF requests
<1>14. unackedChunks'[e] = left /\ resendRequested'[e] = requests
  BY <1>1, <1>5 DEF TypeOK
<1>15. Base(e)' = b + n
  <2>N. PICK N \in Nat : N = Len(log[e])
    BY <1>1, LenProperties DEF TypeOK
  <2>M. PICK M \in Nat : M = Len(newChunks[e])
    BY <1>1, LenProperties DEF TypeOK
  <2>1. b = N - M - U
    BY <1>B, <1>U, <2>N, <2>M DEF Base
  <2>2. Base(e)' = N - M - (U - n)
    BY <1>7, <1>14, <2>N, <2>M DEF Base
  <2>3. N - M - (U - n) = (N - M - U) + n
    BY <1>6
  <2>4. QED
    BY <2>1, <2>2, <2>3
<1>16. SenderInv(e)'
  <2>1. b + n >= 0
    BY <1>6
  <2>2. QED
    BY <1>1, <1>9, <1>12, <1>14, <1>15, <2>1 DEF SenderInv
<1>17. b + n <= l + 1
  <2>1. CASE n = 0
    BY <1>1, <1>B, <2>1 DEF LinkInv
  <2>2. CASE n # 0
    <3>1. n \in 1..U /\ n \in 1..n
      BY <1>6, <2>2
    <3>2. un[n].num = b + n - 1
      <4>1. un[n] = [num |-> b + n - 1, data |-> log[e][b + n]]
        BY <1>8, <1>U, <3>1 DEF Stretch
      <4>2. QED
        BY <4>1
    <3>3. un[n].num <= p.ack
      BY <1>4, <3>1
    <3>4. QED
      BY <1>2, <1>3, <1>6, <3>2, <3>3
  <2>3. QED
    BY <2>1, <2>2
<1>18. Base(e)' <= lastInOrder'[Peer(e)] + 1
  BY <1>2, <1>6, <1>15, <1>17
<1>19. unackedChunks' \in [Ends -> Seq(Chunk)] /\ resendRequested' \in [Ends -> SUBSET Chunk]
  BY <1>1, <1>5, <1>7, <1>12, <1>13 DEF TypeOK
<1>20. \A x \in Ends \ {e} : /\ unackedChunks'[x] = unackedChunks[x]
                             /\ resendRequested'[x] = resendRequested[x]
  BY <1>1, <1>5 DEF TypeOK
<1>21. QED
  BY <1>16, <1>18, <1>19, <1>20

\* A chunk number among chunks of a log denotes the log's data at that place.
LEMMA DataOfFacts ==
  ASSUME NEW lg \in Seq(Data), NEW S, S \subseteq ChunksIn(lg), NEW j \in Nums(S)
  PROVE  j \in 0..(Len(lg) - 1) /\ DataOf(S, j) = lg[j + 1]
<1>1. \A c \in S : c.num \in 0..(Len(lg) - 1) /\ c.data = lg[c.num + 1]
  BY DEF ChunksIn
<1>2. \E c \in S : c.num = j
  BY DEF Nums
<1> DEFINE d == CHOOSE c \in S : c.num = j
<1>3. d \in S /\ d.num = j
  BY <1>2
<1>4. DataOf(S, j) = d.data
  BY DEF DataOf
<1> HIDE DEF d
<1>5. QED
  BY <1>1, <1>3, <1>4

\* The chunks of a datagram: what has been received in order is a longer prefix
\* of what the peer cut, and what waits is still the peer's.
LEMMA TakeChunksStep ==
  ASSUME IInv, NEW e \in Ends, NEW p \in net[e], TakeChunks(e, p)
  PROVE  /\ lastInOrder' \in [Ends -> Nat \cup {-1}]
         /\ waitingPackets' \in [Ends -> SUBSET Chunk]
         /\ msgQueue' \in [Ends -> Seq(Data)]
         /\ lastInOrder[e] <= lastInOrder'[e] /\ lastInOrder'[e] < Len(log[Peer(e)])
         /\ msgQueue'[e] = SubSeq(log[Peer(e)], 1, lastInOrder'[e] + 1)
         /\ waitingPackets'[e] \subseteq ChunksIn(log[Peer(e)])
         /\ \A x \in Ends \ {e} : /\ lastInOrder'[x] = lastInOrder[x]
                                  /\ waitingPackets'[x] = waitingPackets[x]
                                  /\ msgQueue'[x] = msgQueue[x]
<1> DEFINE f    == Peer(e)
           lg   == log[f]
           all  == Arrived(e, p)
           last == lastInOrder[e]
<1>1. /\ TypeOK /\ LinkInv(f) /\ FlightInv(f) /\ f \in Ends /\ Peer(f) = e
  BY PeerFacts DEF IInv
<1>2. lg \in Seq(Data) /\ last \in Nat \cup {-1} /\ p.chunks \subseteq Chunk
  BY <1>1 DEF TypeOK, Packet
<1>N. PICK N \in Nat : N = Len(lg)
  BY <1>2, LenProperties
<1>3. all \subseteq ChunksIn(lg)
  BY <1>1 DEF Arrived, LinkInv, FlightInv
<1>4. all \subseteq Chunk
  BY <1>1, <1>2 DEF Arrived, TypeOK
<1>5. PICK n \in {last} \cup Nums(all) :
        /\ n >= last
        /\ \A m \in (last + 1)..n : m \in Nums(all)
        /\ lastInOrder' = [lastInOrder EXCEPT ![e] = n]
        /\ waitingPackets' = [waitingPackets EXCEPT ![e] = {c \in all : c.num > n}]
        /\ msgQueue' = [msgQueue EXCEPT ![e] =
             @ \o [i \in 1..(n - last) |-> DataOf(all, last + i)]]
  BY DEF TakeChunks
<1> HIDE DEF all
<1>6. \A j \in Nums(all) : j \in 0..(N - 1) /\ DataOf(all, j) = lg[j + 1]
  BY <1>2, <1>3, <1>N, DataOfFacts
<1>7. last < N
  BY <1>1, <1>N DEF LinkInv
<1>8. n \in Nat \cup {-1} /\ n < N /\ last <= n
  BY <1>2, <1>5, <1>6, <1>7
<1> DEFINE more == [i \in 1..(n - last) |-> DataOf(all, last + i)]
<1>9. PICK k \in Nat : k = n - last
  BY <1>2, <1>8
<1>10. more = [i \in 1..k |-> lg[last + 1 + i]]
  <2>1. \A i \in 1..k : /\ last + i \in (last + 1)..n
                        /\ (last + i) + 1 = last + 1 + i
    BY <1>2, <1>8, <1>9
  <2>2. \A i \in 1..k : DataOf(all, last + i) = lg[last + 1 + i]
    BY <1>5, <1>6, <2>1
  <2>3. QED
    BY <1>9, <2>2
<1>11. \A i \in 1..k : lg[last + 1 + i] \in Data
  <2>1. \A i \in 1..k : last + 1 + i \in 1..N
    BY <1>2, <1>8, <1>9
  <2>2. QED
    BY <1>2, <1>N, <2>1, ElementOfSeq
<1> HIDE DEF more
<1>12. /\ more \in Seq(Data) /\ Len(more) = k
       /\ \A i \in 1..k : more[i] = lg[last + 1 + i]
  BY <1>10, <1>11, FunctionIsSeq
<1>13. msgQueue[e] = SubSeq(lg, 1, last + 1)
  BY <1>1 DEF LinkInv
<1>14. msgQueue[e] \o more = SubSeq(lg, 1, n + 1)
  <2>1. last + 1 \in 0..N /\ n + 1 \in 0..N
    BY <1>2, <1>7, <1>8
  <2> DEFINE h == SubSeq(lg, 1, last + 1)
             r == SubSeq(lg, 1, n + 1)
  <2>2. h \in Seq(Data) /\ Len(h) = last + 1 /\ \A i \in 1..(last + 1) : h[i] = lg[i]
    BY <1>2, <1>N, <2>1, PrefixFacts
  <2>3. r \in Seq(Data) /\ Len(r) = n + 1 /\ \A i \in 1..(n + 1) : r[i] = lg[i]
    BY <1>2, <1>N, <2>1, PrefixFacts
  <2> HIDE DEF h, r
  <2>4. /\ h \o more \in Seq(Data) /\ Len(h \o more) = last + 1 + k
        /\ \A i \in 1..(last + 1 + k) :
             (h \o more)[i] = IF i <= last + 1 THEN h[i] ELSE more[i - (last + 1)]
    <3>1. PICK a \in Nat : a = last + 1
      BY <1>2
    <3>2. Len(h) = a /\ Len(more) = k
      BY <1>12, <2>2, <3>1
    <3>3. /\ h \o more \in Seq(Data) /\ Len(h \o more) = a + k
          /\ \A i \in 1..(a + k) : (h \o more)[i] = IF i <= a THEN h[i] ELSE more[i - a]
      <4>1. /\ h \o more \in Seq(Data) /\ Len(h \o more) = Len(h) + Len(more)
            /\ \A i \in 1..(Len(h) + Len(more)) :
                 (h \o more)[i] = IF i <= Len(h) THEN h[i] ELSE more[i - Len(h)]
        BY <1>12, <2>2, ConcatProperties
      <4>2. QED
        BY <3>2, <4>1
    <3>4. QED
      BY <3>1, <3>3
  <2>5. last + 1 + k = n + 1
    BY <1>2, <1>8, <1>9
  <2>6. ASSUME NEW i \in 1..(n + 1)
        PROVE  (h \o more)[i] = r[i]
    <3>1. CASE i <= last + 1
      <4>1. i \in 1..(last + 1)
        BY <1>2, <3>1
      <4>2. QED
        BY <2>2, <2>3, <2>4, <2>5, <3>1, <4>1
    <3>2. CASE ~(i <= last + 1)
      <4>1. i - (last + 1) \in 1..k /\ last + 1 + (i - (last + 1)) = i
        BY <1>2, <1>8, <1>9, <3>2
      <4>2. more[i - (last + 1)] = lg[i]
        BY <1>12, <4>1
      <4>3. QED
        BY <2>3, <2>4, <2>5, <3>2, <4>2
    <3>3. QED
      BY <3>1, <3>2
  <2>7. h \o more = r
    BY <2>3, <2>4, <2>5, <2>6, SeqEqual
  <2>8. QED
    BY <1>13, <2>7 DEF h, r
<1>15. SubSeq(lg, 1, n + 1) \in Seq(Data)
  <2>1. n + 1 \in 0..N
    BY <1>8
  <2>2. QED
    BY <1>2, <1>N, <2>1, PrefixFacts
<1>16. /\ lastInOrder' = [lastInOrder EXCEPT ![e] = n]
       /\ waitingPackets' = [waitingPackets EXCEPT ![e] = {c \in all : c.num > n}]
       /\ msgQueue' = [msgQueue EXCEPT ![e] = SubSeq(lg, 1, n + 1)]
  BY <1>5, <1>14 DEF more
<1>17. /\ lastInOrder'[e] = n /\ waitingPackets'[e] = {c \in all : c.num > n}
       /\ msgQueue'[e] = SubSeq(lg, 1, n + 1)
  BY <1>1, <1>16 DEF TypeOK
<1>18. /\ lastInOrder' \in [Ends -> Nat \cup {-1}]
       /\ waitingPackets' \in [Ends -> SUBSET Chunk]
       /\ msgQueue' \in [Ends -> Seq(Data)]
  BY <1>1, <1>4, <1>8, <1>15, <1>16 DEF TypeOK
<1>19. \A x \in Ends \ {e} : /\ lastInOrder'[x] = lastInOrder[x]
                             /\ waitingPackets'[x] = waitingPackets[x]
                             /\ msgQueue'[x] = msgQueue[x]
  BY <1>1, <1>16 DEF TypeOK
<1>20. QED
  BY <1>3, <1>8, <1>N, <1>17, <1>18, <1>19

LEMMA ReceiveStep ==
  ASSUME IInv, NEW e \in Ends, NEW p \in net[e], Receive(e, p)
  PROVE  IInv'
<1> DEFINE f == Peer(e)
<1>1. /\ TypeOK /\ SenderInv(e) /\ LinkInv(e) /\ FlightInv(e)
      /\ SenderInv(f) /\ LinkInv(f) /\ FlightInv(f)
      /\ f \in Ends /\ f # e /\ Peer(f) = e /\ Ends = {e, f}
  BY PeerFacts DEF IInv
<1>2. /\ muted' = muted /\ closed' = closed /\ outgoingData' = outgoingData
      /\ currentPacketChunkNum' = currentPacketChunkNum /\ log' = log
      /\ newChunks' = newChunks /\ resend' = resend
  BY DEF Receive, flags, cutting
<1>3. /\ net' \in [Ends -> SUBSET Packet]
      /\ \A x \in Ends : net'[x] \subseteq net[x]
  <2>1. CASE net' = net
    BY <1>1, <2>1 DEF TypeOK
  <2>2. CASE net' = [net EXCEPT ![e] = @ \ {p}]
    BY <1>1, <2>2 DEF TypeOK
  <2>3. QED
    BY <2>1, <2>2 DEF Receive
<1>4. CASE UNCHANGED <<unackedChunks, resendRequested, receiver>>
  <2>1. TypeOK'
    BY <1>1, <1>2, <1>3, <1>4 DEF TypeOK, receiver
  <2>2. SenderInv(e)' /\ SenderInv(f)' /\ LinkInv(e)' /\ LinkInv(f)'
    BY <1>1, <1>2, <1>4 DEF SenderInv, LinkInv, Base, receiver
  <2>3. FlightInv(e)' /\ FlightInv(f)'
    BY <1>1, <1>2, <1>3, <1>4 DEF FlightInv, receiver
  <2>4. QED
    BY <1>1, <2>1, <2>2, <2>3 DEF IInv
<1>5. CASE TakeAcks(e, p) /\ TakeChunks(e, p)
  <2>1. /\ lastInOrder' \in [Ends -> Nat \cup {-1}]
        /\ waitingPackets' \in [Ends -> SUBSET Chunk]
        /\ msgQueue' \in [Ends -> Seq(Data)]
        /\ lastInOrder[e] <= lastInOrder'[e] /\ lastInOrder'[e] < Len(log[f])
        /\ msgQueue'[e] = SubSeq(log[f], 1, lastInOrder'[e] + 1)
        /\ waitingPackets'[e] \subseteq ChunksIn(log[f])
        /\ lastInOrder'[f] = lastInOrder[f]
        /\ waitingPackets'[f] = waitingPackets[f]
        /\ msgQueue'[f] = msgQueue[f]
    BY <1>1, <1>5, TakeChunksStep
  <2>2. /\ lastInOrder[e] \in Nat \cup {-1} /\ lastInOrder'[e] \in Nat \cup {-1}
        /\ lastInOrder[f] \in Nat \cup {-1} /\ lastInOrder'[f] \in Nat \cup {-1}
        /\ lastInOrder[f] <= lastInOrder'[f]
    BY <1>1, <2>1 DEF TypeOK
  <2>3. /\ SenderInv(e)' /\ Base(e)' <= lastInOrder'[f] + 1
        /\ unackedChunks' \in [Ends -> Seq(Chunk)]
        /\ resendRequested' \in [Ends -> SUBSET Chunk]
        /\ unackedChunks'[f] = unackedChunks[f]
        /\ resendRequested'[f] = resendRequested[f]
    BY <1>1, <1>2, <1>5, <2>2, TakeAcksStep
  <2>4. TypeOK'
    BY <1>1, <1>2, <1>3, <2>1, <2>3 DEF TypeOK
  <2>5. Base(f)' = Base(f)
    BY <1>2, <2>3 DEF Base
  <2>6. SenderInv(f)'
    BY <1>1, <1>2, <2>3, <2>5 DEF SenderInv
  <2>7. LinkInv(e)'
    BY <1>1, <1>2, <2>1, <2>3 DEF LinkInv
  <2>8. Base(f)' <= lastInOrder'[e] + 1
    <3>1. Base(f) <= lastInOrder[e] + 1
      BY <1>1 DEF LinkInv
    <3>2. Base(f) \in Int
      <4>1. Len(log[f]) \in Nat /\ Len(newChunks[f]) \in Nat /\ Len(unackedChunks[f]) \in Nat
        BY <1>1, LenProperties DEF TypeOK
      <4>2. QED
        BY <4>1 DEF Base
    <3>3. QED
      BY <2>1, <2>2, <2>5, <3>1, <3>2
  <2>9. LinkInv(f)'
    BY <1>1, <1>2, <2>1, <2>8 DEF LinkInv
  <2>10. FlightInv(e)' /\ FlightInv(f)'
    <3>1. ASSUME NEW x \in Ends PROVE FlightInv(x)'
      <4>1. Peer(x) \in Ends /\ FlightInv(x)
        BY <1>1
      <4>2. SUFFICES ASSUME NEW q \in net'[Peer(x)]
                     PROVE  q.ack <= lastInOrder'[x] /\ q.chunks \subseteq ChunksIn(log[x])
        BY <1>2 DEF FlightInv
      <4>3. q \in net[Peer(x)]
        BY <1>3, <4>1
      <4>4. q.ack <= lastInOrder[x] /\ q.chunks \subseteq ChunksIn(log[x])
        BY <4>1, <4>3 DEF FlightInv
      <4>5. q.ack \in Nat \cup {-1}
        BY <1>1, <4>1, <4>3 DEF TypeOK, Packet
      <4>6. lastInOrder[x] <= lastInOrder'[x] /\ lastInOrder[x] \in Int /\ lastInOrder'[x] \in Int
        BY <1>1, <2>1, <2>2
      <4>7. QED
        BY <4>4, <4>5, <4>6
    <3>2. QED
      BY <1>1, <3>1
  <2>11. QED
    BY <1>1, <2>3, <2>4, <2>6, <2>7, <2>9, <2>10 DEF IInv
<1>6. QED
  BY <1>4, <1>5 DEF Receive

-----------------------------------------------------------------------------
(* The remaining actions *)

\* What the invariant says besides the types does not look at the flags, at
\* the outgoing data or at datagrams that are gone.
LEMMA RestStep ==
  ASSUME IInv, TypeOK', UNCHANGED <<currentPacketChunkNum, log, queues, receiver>>,
         \A x \in Ends : net'[x] \subseteq net[x]
  PROVE  IInv'
<1>1. SUFFICES ASSUME NEW e \in Ends
               PROVE  SenderInv(e)' /\ LinkInv(e)' /\ FlightInv(e)'
  BY DEF IInv
<1>2. SenderInv(e) /\ LinkInv(e) /\ FlightInv(e) /\ Peer(e) \in Ends
  BY PeerFacts DEF IInv
<1>3. SenderInv(e)' /\ LinkInv(e)'
  BY <1>2 DEF SenderInv, LinkInv, Base, queues, receiver
<1>4. FlightInv(e)'
  BY <1>2 DEF FlightInv, receiver
<1>5. QED
  BY <1>3, <1>4

LEMMA SendDataStep ==
  ASSUME IInv, NEW e \in Ends, SendData(e)
  PROVE  IInv'
<1> DEFINE next == Len(log[e]) + Len(outgoingData[e]) + 1
<1>1. TypeOK
  BY DEF IInv
<1>2. Script[e] \in Seq(Data)
  BY BoundAssumption
<1>3. next \in 1..Len(Script[e])
  BY <1>1, <1>2, LenProperties DEF SendData, TypeOK
<1>4. Script[e][next] \in Data
  BY <1>2, <1>3, ElementOfSeq
<1>5. /\ outgoingData' = [outgoingData EXCEPT ![e] = Append(@, Script[e][next])]
      /\ UNCHANGED <<flags, currentPacketChunkNum, log, queues, receiver, net>>
  BY DEF SendData
<1> HIDE DEF next
<1>6. Append(outgoingData[e], Script[e][next]) \in Seq(Data)
  BY <1>1, <1>4, AppendProperties DEF TypeOK
<1>7. TypeOK'
  BY <1>1, <1>5, <1>6 DEF TypeOK, flags, queues, receiver
<1>8. QED
  BY <1>5, <1>7, RestStep

\* One step per action: every step preserves the invariant.
LEMMA NextStep ==
  ASSUME IInv, [Next]_vars
  PROVE  IInv'
<1>1. TypeOK
  BY DEF IInv
<1>2. ASSUME NEW e \in Ends, SendData(e) PROVE IInv'
  BY <1>2, SendDataStep
<1>3. ASSUME NEW e \in Ends, Unmute(e) PROVE IInv'
  <2>1. TypeOK'
    BY <1>1, <1>3 DEF Unmute, TypeOK, cutting, queues, receiver
  <2>2. UNCHANGED <<currentPacketChunkNum, log, queues, receiver, net>>
    BY <1>3 DEF Unmute, cutting
  <2>3. QED
    BY <2>1, <2>2, RestStep
<1>4. ASSUME NEW e \in Ends, NEW forced \in BOOLEAN, NEW k \in Cuts(e, forced),
             NEW t \in Expired(e, k), Flush(e, forced, k, t)
      PROVE  IInv'
  <2>1. Emit(e, forced, k, t)
    BY <1>4 DEF Flush
  <2>2. muted' \in [Ends -> BOOLEAN] /\ closed' \in [Ends -> BOOLEAN]
    BY <1>1, <1>4 DEF Flush, flags, TypeOK
  <2>3. QED
    BY <2>1, <2>2, EmitStep
<1>5. ASSUME NEW e \in Ends, NEW forced \in BOOLEAN, NEW k \in Cuts(e, forced),
             NEW t \in Expired(e, k), Close(e, forced, k, t)
      PROVE  IInv'
  <2>1. muted' \in [Ends -> BOOLEAN] /\ closed' \in [Ends -> BOOLEAN]
    BY <1>1, <1>5 DEF Close, TypeOK
  <2>2. CASE Emit(e, forced, k, t)
    BY <2>1, <2>2, EmitStep
  <2>3. CASE UNCHANGED <<cutting, queues, receiver, net>>
    <3>1. TypeOK'
      BY <1>1, <2>1, <2>3 DEF TypeOK, cutting, queues, receiver
    <3>2. UNCHANGED <<currentPacketChunkNum, log, queues, receiver, net>>
      BY <2>3 DEF cutting
    <3>3. QED
      BY <3>1, <3>2, RestStep
  <2>4. QED
    BY <1>5, <2>2, <2>3 DEF Close
<1>6. ASSUME NEW e \in Ends, NEW p \in net[e], Receive(e, p) PROVE IInv'
  BY <1>6, ReceiveStep
<1>7. ASSUME NEW e \in Ends, NEW p \in net[e], Lose(e, p) PROVE IInv'
  <2>1. /\ net' = [net EXCEPT ![e] = @ \ {p}]
        /\ UNCHANGED <<flags, cutting, queues, receiver>>
    BY <1>7 DEF Lose
  <2>2. TypeOK' /\ \A x \in Ends : net'[x] \subseteq net[x]
    BY <1>1, <2>1 DEF TypeOK, flags, cutting, queues, receiver
  <2>3. QED
    BY <2>1, <2>2, RestStep DEF cutting
<1>8. CASE UNCHANGED vars
  <2>1. TypeOK'
    BY <1>1, <1>8 DEF TypeOK, vars, flags, cutting, queues, receiver
  <2>2. QED
    BY <1>8, <2>1, RestStep DEF vars, cutting
<1>9. QED
  BY <1>2, <1>3, <1>4, <1>5, <1>6, <1>7, <1>8 DEF Next

-----------------------------------------------------------------------------
(* Safety *)

\* The invariant holds in every behaviour: it ties the queues of the sender,
\* the receiver at the other end and the datagrams in flight to the sender's log.
THEOREM Invariance == Spec => []IInv
<1>1. Init => IInv
  BY InitIInv
<1>2. IInv /\ [Next]_vars => IInv'
  BY NextStep
<1>3. QED
  BY <1>1, <1>2, PTL DEF Spec

\* Every variable stays within its type.
THEOREM TypeCorrect == Spec => []TypeOK
<1>1. IInv => TypeOK
  BY DEF IInv
<1>2. QED
  BY <1>1, Invariance, PTL

\* Data comes out in the order and with the contents in which it was cut.
THEOREM InOrder == Spec => []InOrderDelivery
<1>1. IInv => InOrderDelivery
  BY DEF IInv, LinkInv, InOrderDelivery
<1>2. QED
  BY <1>1, Invariance, PTL

\* Only unacknowledged chunks are sent again.
THEOREM ResendsUnacked == Spec => []ResendsAreUnacked
<1>1. IInv => ResendsAreUnacked
  BY DEF IInv, SenderInv, ResendsAreUnacked
<1>2. QED
  BY <1>1, Invariance, PTL

\* Where the chunks of a log from its oldest unacknowledged one on are found.
LEMMA QueueFacts ==
  ASSUME IInv, NEW e \in Ends
  PROVE  \E N, M, U \in Nat :
           /\ N = Len(log[e]) /\ M = Len(newChunks[e]) /\ U = Len(unackedChunks[e])
           /\ currentPacketChunkNum[e] = N /\ M + U <= N
           /\ newChunks[e] \in Seq(Chunk) /\ unackedChunks[e] \in Seq(Chunk)
           /\ \A i \in 1..M : newChunks[e][i] = [num |-> N - M + i - 1, data |-> log[e][N - M + i]]
           /\ \A i \in 1..U : unackedChunks[e][i] =
                                [num |-> N - M - U + i - 1, data |-> log[e][N - M - U + i]]
           /\ N - M - U <= lastInOrder[Peer(e)] + 1
<1>1. TypeOK /\ SenderInv(e) /\ LinkInv(e)
  BY DEF IInv
<1>N. PICK N \in Nat : N = Len(log[e])
  BY <1>1, LenProperties DEF TypeOK
<1>M. PICK M \in Nat : M = Len(newChunks[e])
  BY <1>1, LenProperties DEF TypeOK
<1>U. PICK U \in Nat : U = Len(unackedChunks[e])
  BY <1>1, LenProperties DEF TypeOK
<1>2. Base(e) = N - M - U
  BY <1>N, <1>M, <1>U DEF Base
<1>3. M + U <= N
  BY <1>1, <1>2 DEF SenderInv
<1>4. Stretch(newChunks[e], log[e], N - M) /\ Stretch(unackedChunks[e], log[e], N - M - U)
  BY <1>1, <1>2, <1>N, <1>M DEF SenderInv
<1>5. /\ newChunks[e] \in Seq(Chunk) /\ unackedChunks[e] \in Seq(Chunk)
      /\ currentPacketChunkNum[e] = N /\ N - M - U <= lastInOrder[Peer(e)] + 1
  BY <1>1, <1>2, <1>N DEF TypeOK, SenderInv, LinkInv
<1>6. \A i \in 1..M : newChunks[e][i] = [num |-> N - M + i - 1, data |-> log[e][N - M + i]]
  BY <1>4, <1>M DEF Stretch
<1>7. \A i \in 1..U : unackedChunks[e][i] =
                        [num |-> N - M - U + i - 1, data |-> log[e][N - M - U + i]]
  BY <1>4, <1>U DEF Stretch
<1>8. QED
  BY <1>N, <1>M, <1>U, <1>3, <1>5, <1>6, <1>7

\* What the other end still needs is in one of the two queues.
THEOREM NothingForgotten == Spec => []NoChunkLost
<1>1. ASSUME IInv PROVE NoChunkLost
  <2>1. SUFFICES ASSUME NEW e \in Ends, NEW n \in 0..(Len(log[e]) - 1), n > lastInOrder[Peer(e)]
                 PROVE  [num |-> n, data |-> log[e][n + 1]]
                          \in Elems(unackedChunks[e]) \cup Elems(newChunks[e])
    BY DEF NoChunkLost
  <2>2. PICK N, M, U \in Nat :
           /\ N = Len(log[e]) /\ M = Len(newChunks[e]) /\ U = Len(unackedChunks[e])
           /\ M + U <= N
           /\ \A i \in 1..M : newChunks[e][i] = [num |-> N - M + i - 1, data |-> log[e][N - M + i]]
           /\ \A i \in 1..U : unackedChunks[e][i] =
                                [num |-> N - M - U + i - 1, data |-> log[e][N - M - U + i]]
           /\ N - M - U <= lastInOrder[Peer(e)] + 1
    BY <1>1, QueueFacts
  <2>3. lastInOrder[Peer(e)] \in Int
    BY <1>1, PeerFacts DEF IInv, TypeOK
  <2>new. \A i \in 1..M : newChunks[e][i] = [num |-> N - M + i - 1, data |-> log[e][N - M + i]]
    BY <2>2
  <2>un. \A i \in 1..U : unackedChunks[e][i] =
                           [num |-> N - M - U + i - 1, data |-> log[e][N - M - U + i]]
    BY <2>2
  <2>len. N = Len(log[e]) /\ M = Len(newChunks[e]) /\ U = Len(unackedChunks[e])
    BY <2>2
  <2>4. n \in 0..(N - 1) /\ N - M - U <= n /\ M + U <= N
    <3>1. n \in 0..(N - 1) /\ n > lastInOrder[Peer(e)]
      BY <2>1, <2>len
    <3>2. N - M - U <= lastInOrder[Peer(e)] + 1 /\ M + U <= N
      BY <2>2
    <3>3. QED
      BY <2>3, <3>1, <3>2
  <2>5. CASE n < N - M
    <3>1. PICK i \in Nat : i = n - (N - M - U) + 1
      BY <2>4
    <3>2. i \in 1..U /\ N - M - U + i - 1 = n /\ N - M - U + i = n + 1
      BY <2>4, <2>5, <3>1
    <3>3. unackedChunks[e][i] = [num |-> n, data |-> log[e][n + 1]]
      BY <2>un, <3>2
    <3>4. QED
      BY <2>len, <3>2, <3>3 DEF Elems
  <2>6. CASE ~(n < N - M)
    <3>1. PICK i \in Nat : i = n - (N - M) + 1
      BY <2>4, <2>6
    <3>2. i \in 1..M /\ N - M + i - 1 = n /\ N - M + i = n + 1
      BY <2>4, <2>6, <3>1
    <3>3. newChunks[e][i] = [num |-> n, data |-> log[e][n + 1]]
      BY <2>new, <3>2
    <3>4. QED
      BY <2>len, <3>2, <3>3 DEF Elems
  <2>7. QED
    BY <2>5, <2>6
<1>2. QED
  BY <1>1, Invariance, PTL

\* The nak loops may compute with positions in the queues.
THEOREM Contiguous == Spec => []QueuesContiguous
<1>1. ASSUME IInv PROVE QueuesContiguous
  <2> DEFINE q(e) == unackedChunks[e] \o newChunks[e]
  <2>1. SUFFICES ASSUME NEW e \in Ends, NEW i \in 1..Len(q(e))
                 PROVE  q(e)[i].num = currentPacketChunkNum[e] - Len(q(e)) + i - 1
    BY DEF QueuesContiguous
  <2>2. PICK N, M, U \in Nat :
           /\ M = Len(newChunks[e]) /\ U = Len(unackedChunks[e])
           /\ currentPacketChunkNum[e] = N /\ M + U <= N
           /\ newChunks[e] \in Seq(Chunk) /\ unackedChunks[e] \in Seq(Chunk)
           /\ \A j \in 1..M : newChunks[e][j] = [num |-> N - M + j - 1, data |-> log[e][N - M + j]]
           /\ \A j \in 1..U : unackedChunks[e][j] =
                                [num |-> N - M - U + j - 1, data |-> log[e][N - M - U + j]]
    BY <1>1, QueueFacts
  <2>new. \A j \in 1..M : newChunks[e][j] = [num |-> N - M + j - 1, data |-> log[e][N - M + j]]
    BY <2>2
  <2>un. \A j \in 1..U : unackedChunks[e][j] =
                           [num |-> N - M - U + j - 1, data |-> log[e][N - M - U + j]]
    BY <2>2
  <2>len. M = Len(newChunks[e]) /\ U = Len(unackedChunks[e])
    BY <2>2
  <2>seq. newChunks[e] \in Seq(Chunk) /\ unackedChunks[e] \in Seq(Chunk)
    BY <2>2
  <2>3. /\ Len(q(e)) = Len(unackedChunks[e]) + Len(newChunks[e])
        /\ \A j \in 1..(Len(unackedChunks[e]) + Len(newChunks[e])) :
             q(e)[j] = IF j <= Len(unackedChunks[e]) THEN unackedChunks[e][j]
                       ELSE newChunks[e][j - Len(unackedChunks[e])]
    BY <2>seq, ConcatProperties
  <2> HIDE DEF q
  <2>4. /\ Len(q(e)) = U + M /\ i \in 1..(U + M)
        /\ q(e)[i] = IF i <= U THEN unackedChunks[e][i] ELSE newChunks[e][i - U]
    BY <2>len, <2>3
  <2>5. q(e)[i].num = N - (U + M) + i - 1
    <3>1. CASE i <= U
      <4>1. i \in 1..U
        BY <2>4, <3>1
      <4>2. q(e)[i] = [num |-> N - M - U + i - 1, data |-> log[e][N - M - U + i]]
        BY <2>un, <2>4, <3>1, <4>1
      <4>3. q(e)[i].num = N - M - U + i - 1
        BY <4>2
      <4>4. QED
        BY <2>4, <4>3
    <3>2. CASE ~(i <= U)
      <4>1. PICK j \in 1..M : j = i - U
        BY <2>4, <3>2
      <4>2. q(e)[i] = [num |-> N - M + j - 1, data |-> log[e][N - M + j]]
        BY <2>new, <2>4, <3>2, <4>1
      <4>3. q(e)[i].num = N - M + j - 1
        BY <4>2
      <4>4. QED
        BY <2>4, <4>1, <4>3
    <3>3. QED
      BY <3>1, <3>2
  <2>6. QED
    BY <2>2, <2>4, <2>5
<1>2. QED
  BY <1>1, Invariance, PTL

-----------------------------------------------------------------------------
(* Refinement: each direction is a reliable channel *)

Given(e) == log[e] \o outgoingData[e]

LEMMA GivenFacts ==
  ASSUME IInv, NEW e \in Ends
  PROVE  /\ log[e] \in Seq(Data) /\ outgoingData[e] \in Seq(Data)
         /\ Given(e) \in Seq(Data) /\ Len(log[e]) \in Nat /\ Len(Given(e)) \in Nat
         /\ Len(log[e]) <= Len(Given(e))
         /\ \A n \in 0..Len(log[e]) : SubSeq(Given(e), 1, n) = SubSeq(log[e], 1, n)
<1>1. log[e] \in Seq(Data) /\ outgoingData[e] \in Seq(Data)
  BY DEF IInv, TypeOK
<1>L. PICK L \in Nat : L = Len(log[e])
  BY <1>1, LenProperties
<1>K. PICK K \in Nat : K = Len(outgoingData[e])
  BY <1>1, LenProperties
<1>2. /\ Given(e) \in Seq(Data) /\ Len(Given(e)) = Len(log[e]) + Len(outgoingData[e])
      /\ \A i \in 1..(Len(log[e]) + Len(outgoingData[e])) :
           Given(e)[i] = IF i <= Len(log[e]) THEN log[e][i] ELSE outgoingData[e][i - Len(log[e])]
  BY <1>1, ConcatProperties DEF Given
<1>3. /\ Len(Given(e)) = L + K
      /\ \A i \in 1..(L + K) :
           Given(e)[i] = IF i <= L THEN log[e][i] ELSE outgoingData[e][i - L]
  BY <1>2, <1>L, <1>K
<1>4. ASSUME NEW n \in 0..L
      PROVE  SubSeq(Given(e), 1, n) = SubSeq(log[e], 1, n)
  <2>1. n \in 0..(L + K)
    OBVIOUS
  <2>2. /\ SubSeq(log[e], 1, n) \in Seq(Data) /\ Len(SubSeq(log[e], 1, n)) = n
        /\ \A i \in 1..n : SubSeq(log[e], 1, n)[i] = log[e][i]
    BY <1>1, <1>L, PrefixFacts
  <2>3. /\ SubSeq(Given(e), 1, n) \in Seq(Data) /\ Len(SubSeq(Given(e), 1, n)) = n
        /\ \A i \in 1..n : SubSeq(Given(e), 1, n)[i] = Given(e)[i]
    <3>1. Given(e) \in Seq(Data) /\ n \in 0..Len(Given(e))
      BY <1>2, <1>3, <2>1
    <3> HIDE DEF Given
    <3>2. QED
      BY <3>1, PrefixFacts
  <2>4. ASSUME NEW i \in 1..n PROVE Given(e)[i] = log[e][i]
    <3>1. i \in 1..(L + K) /\ i <= L
      OBVIOUS
    <3>2. QED
      BY <1>3, <3>1
  <2>5. QED
    BY <2>2, <2>3, <2>4, SeqEqual
<1>5. L + K \in Nat /\ L <= L + K
  OBVIOUS
<1>6. QED
  BY <1>1, <1>2, <1>L, <1>3, <1>4, <1>5

\* One step of the direction from e to its peer.
ChannelStep(e) ==
  \/ Given(e)' = Given(e) /\ msgQueue'[Peer(e)] = msgQueue[Peer(e)]
  \/ /\ \E d \in Data : Given(e)' = Append(Given(e), d)
     /\ msgQueue'[Peer(e)] = msgQueue[Peer(e)]
  \/ /\ Given(e)' = Given(e)
     /\ \E n \in (Len(msgQueue[Peer(e)]) + 1)..Len(Given(e)) :
          msgQueue'[Peer(e)] = SubSeq(Given(e), 1, n)

LEMMA EmitGives ==
  ASSUME IInv, NEW x \in Ends, NEW e \in Ends, NEW forced \in BOOLEAN,
         NEW k \in Cuts(x, forced), NEW t, Emit(x, forced, k, t)
  PROVE  ChannelStep(e)
<1>1. /\ log[x] \in Seq(Data) /\ outgoingData[x] \in Seq(Data)
      /\ log \in [Ends -> Seq(Data)] /\ outgoingData \in [Ends -> Seq(Data)]
  BY DEF IInv, TypeOK
<1>2. k \in 0..Len(outgoingData[x])
  BY <1>1, LenProperties DEF Cuts
<1>3. /\ log' = [log EXCEPT ![x] = @ \o SubSeq(outgoingData[x], 1, k)]
      /\ outgoingData' = [outgoingData EXCEPT ![x] = Suffix(@, k)]
      /\ msgQueue' = msgQueue
  BY DEF Emit, receiver
<1>4. SubSeq(outgoingData[x], 1, k) \o Suffix(outgoingData[x], k) = outgoingData[x]
  BY <1>1, <1>2, SplitSeq
<1>5. SubSeq(outgoingData[x], 1, k) \in Seq(Data) /\ Suffix(outgoingData[x], k) \in Seq(Data)
  BY <1>1, <1>2, PrefixFacts, SuffixFacts
<1>6. (log[x] \o SubSeq(outgoingData[x], 1, k)) \o Suffix(outgoingData[x], k)
        = log[x] \o outgoingData[x]
  <2> DEFINE s == log[x]
             h == SubSeq(outgoingData[x], 1, k)
             r == Suffix(outgoingData[x], k)
  <2>0. h \o r = outgoingData[x]
    BY <1>4
  <2>1. s \in Seq(Data) /\ h \in Seq(Data) /\ r \in Seq(Data)
    BY <1>1, <1>5
  <2> HIDE DEF s, h, r
  <2>2. (s \o h) \o r = s \o (h \o r)
    BY <2>1, ConcatAssociative
  <2>3. QED
    BY <2>0, <2>2 DEF s, h, r
<1>7. Given(e)' = Given(e)
  <2>1. CASE e = x
    <3>1. /\ log'[x] = log[x] \o SubSeq(outgoingData[x], 1, k)
          /\ outgoingData'[x] = Suffix(outgoingData[x], k)
      BY <1>1, <1>3
    <3>2. QED
      BY <1>6, <2>1, <3>1 DEF Given
  <2>2. CASE e # x
    BY <1>1, <1>3, <2>2 DEF Given
  <2>3. QED
    BY <2>1, <2>2
<1>8. QED
  BY <1>3, <1>7 DEF ChannelStep

LEMMA ReceiveGives ==
  ASSUME IInv, NEW x \in Ends, NEW e \in Ends, NEW p \in net[x], Receive(x, p)
  PROVE  ChannelStep(e)
<1>1. Given(e)' = Given(e)
  BY DEF Receive, cutting, Given
<1>2. Peer(e) \in Ends /\ Peer(Peer(e)) = e
  BY PeerFacts
<1>3. CASE msgQueue'[Peer(e)] = msgQueue[Peer(e)]
  BY <1>1, <1>3 DEF ChannelStep
<1>4. CASE msgQueue'[Peer(e)] # msgQueue[Peer(e)]
  <2>1. TakeChunks(x, p)
    BY <1>4 DEF Receive, receiver
  <2>2. Peer(e) = x
    BY <1>2, <1>4, <2>1, TakeChunksStep
  <2>3. e = Peer(x)
    BY <1>2, <2>2
  <2>4. /\ lastInOrder[x] <= lastInOrder'[x] /\ lastInOrder'[x] < Len(log[e])
        /\ msgQueue'[x] = SubSeq(log[e], 1, lastInOrder'[x] + 1)
        /\ lastInOrder'[x] \in Nat \cup {-1}
    BY <2>1, <2>3, TakeChunksStep
  <2>5. /\ lastInOrder[x] \in Nat \cup {-1} /\ lastInOrder[x] < Len(log[e])
        /\ msgQueue[x] = SubSeq(log[e], 1, lastInOrder[x] + 1)
    BY <2>2 DEF IInv, LinkInv, TypeOK
  <2>6. /\ log[e] \in Seq(Data) /\ Len(log[e]) \in Nat /\ Len(Given(e)) \in Nat
        /\ Len(log[e]) <= Len(Given(e))
        /\ \A n \in 0..Len(log[e]) : SubSeq(Given(e), 1, n) = SubSeq(log[e], 1, n)
    BY GivenFacts
  <2>7. lastInOrder[x] + 1 \in 0..Len(log[e]) /\ lastInOrder'[x] + 1 \in 0..Len(log[e])
    BY <2>4, <2>5, <2>6
  <2>8. Len(msgQueue[x]) = lastInOrder[x] + 1
    BY <2>5, <2>6, <2>7, PrefixFacts
  <2>9. lastInOrder'[x] # lastInOrder[x]
    BY <1>4, <2>2, <2>4, <2>5
  <2>10. lastInOrder'[x] + 1 \in (Len(msgQueue[x]) + 1)..Len(Given(e))
    <3>1. PICK L, G \in Nat : L = Len(log[e]) /\ G = Len(Given(e))
      BY <2>6
    <3>2. lastInOrder'[x] + 1 <= G /\ lastInOrder'[x] + 1 \in Int
      BY <2>4, <2>6, <3>1
    <3>3. lastInOrder[x] + 1 + 1 <= lastInOrder'[x] + 1 /\ lastInOrder[x] + 1 \in Int
      BY <2>4, <2>5, <2>9
    <3>4. QED
      BY <2>8, <3>1, <3>2, <3>3
  <2>11. msgQueue'[x] = SubSeq(Given(e), 1, lastInOrder'[x] + 1)
    BY <2>4, <2>6, <2>7
  <2>12. QED
    BY <1>1, <2>2, <2>10, <2>11 DEF ChannelStep
<1>5. QED
  BY <1>3, <1>4

LEMMA SendDataGives ==
  ASSUME IInv, NEW x \in Ends, NEW e \in Ends, SendData(x)
  PROVE  ChannelStep(e)
<1> DEFINE next == Len(log[x]) + Len(outgoingData[x]) + 1
           d == Script[x][next]
<1>1. /\ log[x] \in Seq(Data) /\ outgoingData[x] \in Seq(Data)
      /\ outgoingData \in [Ends -> Seq(Data)]
  BY DEF IInv, TypeOK
<1>2. /\ outgoingData' = [outgoingData EXCEPT ![x] = Append(@, d)]
      /\ log' = log /\ msgQueue' = msgQueue
  BY DEF SendData, receiver
<1>3. d \in Data
  <2>1. Script[x] \in Seq(Data)
    BY BoundAssumption
  <2>2. next \in 1..Len(Script[x])
    BY <1>1, <2>1, LenProperties DEF SendData
  <2>3. QED
    BY <2>1, <2>2, ElementOfSeq
<1> HIDE DEF d
<1>4. CASE e = x
  <2>1. log[x] \o Append(outgoingData[x], d) = Append(log[x] \o outgoingData[x], d)
    <3>1. <<d>> \in Seq(Data)
      BY <1>3
    <3>2. Append(outgoingData[x], d) = outgoingData[x] \o <<d>>
      BY <1>1, <1>3, AppendIsConcat
    <3>3. log[x] \o outgoingData[x] \in Seq(Data)
      BY <1>1, ConcatProperties
    <3>4. Append(log[x] \o outgoingData[x], d) = (log[x] \o outgoingData[x]) \o <<d>>
      BY <1>3, <3>3, AppendIsConcat
    <3> DEFINE s == log[x]
               o == outgoingData[x]
               one == <<d>>
    <3>5. s \in Seq(Data) /\ o \in Seq(Data) /\ one \in Seq(Data)
      BY <1>1, <3>1
    <3> HIDE DEF s, o, one
    <3>6. (s \o o) \o one = s \o (o \o one)
      BY <3>5, ConcatAssociative
    <3>7. QED
      BY <3>2, <3>4, <3>6 DEF s, o, one
  <2>2. Given(e)' = Append(Given(e), d)
    BY <1>1, <1>2, <1>4, <2>1 DEF Given
  <2>3. QED
    BY <1>2, <1>3, <2>2 DEF ChannelStep
<1>5. CASE e # x
  BY <1>1, <1>2, <1>5 DEF ChannelStep, Given
<1>6. QED
  BY <1>4, <1>5

LEMMA StepGives ==
  ASSUME IInv, [Next]_vars, NEW e \in Ends
  PROVE  ChannelStep(e)
<1>1. CASE UNCHANGED <<cutting, msgQueue>>
  BY <1>1 DEF ChannelStep, Given, cutting
<1>2. ASSUME NEW x \in Ends, SendData(x) PROVE ChannelStep(e)
  BY <1>2, SendDataGives
<1>3. ASSUME NEW x \in Ends, Unmute(x) PROVE ChannelStep(e)
  BY <1>1, <1>3 DEF Unmute, receiver
<1>4. ASSUME NEW x \in Ends, NEW forced \in BOOLEAN, NEW k \in Cuts(x, forced),
             NEW t \in Expired(x, k), Flush(x, forced, k, t) \/ Close(x, forced, k, t)
      PROVE  ChannelStep(e)
  <2>1. Emit(x, forced, k, t) \/ UNCHANGED <<cutting, receiver>>
    BY <1>4 DEF Flush, Close
  <2>2. QED
    BY <1>1, <2>1, EmitGives DEF receiver
<1>5. ASSUME NEW x \in Ends, NEW p \in net[x], Receive(x, p) PROVE ChannelStep(e)
  BY <1>5, ReceiveGives
<1>6. ASSUME NEW x \in Ends, NEW p \in net[x], Lose(x, p) PROVE ChannelStep(e)
  BY <1>1, <1>6 DEF Lose, receiver
<1>7. CASE UNCHANGED vars
  BY <1>1, <1>7 DEF vars, receiver
<1>8. QED
  BY <1>2, <1>3, <1>4, <1>5, <1>6, <1>7 DEF Next

\* Both directions of the connection implement the reliable channel.
THEOREM ImplementsChannels == Spec => Channels
<1>1. A \in Ends /\ B \in Ends /\ Peer(A) = B /\ Peer(B) = A
  BY EndsAssumption DEF Ends, Peer
<1>2. Init => AtoB!Init /\ BtoA!Init
  BY <1>1, ConcatEmptySeq DEF Init, AtoB!Init, BtoA!Init
<1>3. ASSUME IInv, [Next]_vars
      PROVE  [AtoB!Next]_(AtoB!chan) /\ [BtoA!Next]_(BtoA!chan)
  <2>1. ChannelStep(A) /\ ChannelStep(B)
    BY <1>1, <1>3, StepGives
  <2>2. [AtoB!Next]_(AtoB!chan)
    BY <1>1, <2>1 DEF ChannelStep, Given, AtoB!Next, AtoB!Send, AtoB!Deliver, AtoB!chan
  <2>3. [BtoA!Next]_(BtoA!chan)
    BY <1>1, <2>1 DEF ChannelStep, Given, BtoA!Next, BtoA!Send, BtoA!Deliver, BtoA!chan
  <2>4. QED
    BY <2>2, <2>3
<1>4. QED
  BY <1>2, <1>3, Invariance, PTL DEF Spec, Channels, AtoB!Spec, BtoA!Spec

=============================================================================
