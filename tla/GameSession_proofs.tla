-------------------------- MODULE GameSession_proofs --------------------------
(***************************************************************************)
(* Proofs about GameSession, for any start script, guests, links and       *)
(* bounds.                                                                 *)
(***************************************************************************)
EXTENDS GameSession, SequenceTheorems, TLAPS

PlayerType == [name : Names, anonymous : BOOLEAN, spectator : BOOLEAN,
               midgame : BOOLEAN, myState : States, link : Links \cup {NoLink}]

-----------------------------------------------------------------------------
(* Sequences *)

LEMMA FunctionIsSeq ==
  ASSUME NEW S, NEW n \in Nat, NEW f \in [1..n -> S]
  PROVE  f \in Seq(S) /\ Len(f) = n
<1>1. f \in Seq(S)
  OBVIOUS
<1>2. DOMAIN f = 1..n /\ DOMAIN f = 1..Len(f) /\ Len(f) \in Nat
  BY <1>1, LenProperties
<1>3. QED
  BY <1>1, <1>2

\* What follows the first k elements of s grows with s.
LEMMA RestGrows ==
  ASSUME NEW S, NEW s \in Seq(S), NEW t \in Seq(S), NEW k \in 0..Len(s)
  PROVE  /\ k \in 0..Len(s \o t)
         /\ SubSeq(s \o t, k + 1, Len(s \o t)) = SubSeq(s, k + 1, Len(s)) \o t
         /\ \A i \in 1..k : (s \o t)[i] = s[i]
<1> DEFINE rest == SubSeq(s, k + 1, Len(s))
           all  == SubSeq(s \o t, k + 1, Len(s \o t))
<1>1. /\ Len(s) \in Nat /\ Len(t) \in Nat
      /\ s \o t \in Seq(S) /\ Len(s \o t) = Len(s) + Len(t)
      /\ \A i \in 1..(Len(s) + Len(t)) :
           (s \o t)[i] = IF i <= Len(s) THEN s[i] ELSE t[i - Len(s)]
  BY LenProperties, ConcatProperties
<1>2. /\ rest \in Seq(S) /\ Len(rest) = Len(s) - k
      /\ \A i \in 1..(Len(s) - k) : rest[i] = s[k + i]
  <2>1. \A i \in (k + 1)..Len(s) : s[i] \in S
    BY ElementOfSeq
  <2>2. QED
    BY <1>1, <2>1, SubSeqProperties, k + 1 \in Int, Len(s) \in Int
<1>3. /\ all \in Seq(S) /\ Len(all) = Len(s) + Len(t) - k
      /\ \A i \in 1..(Len(s) + Len(t) - k) : all[i] = (s \o t)[k + i]
  <2>1. \A i \in (k + 1)..Len(s \o t) : (s \o t)[i] \in S
    BY <1>1, ElementOfSeq
  <2>2. QED
    BY <1>1, <2>1, SubSeqProperties, k + 1 \in Int, Len(s \o t) \in Int
<1>4. /\ rest \o t \in Seq(S) /\ Len(rest \o t) = Len(s) + Len(t) - k
      /\ \A i \in 1..(Len(s) + Len(t) - k) :
           (rest \o t)[i] = IF i <= Len(s) - k THEN rest[i] ELSE t[i - (Len(s) - k)]
  <2> HIDE DEF rest
  <2>1. Len(rest) + Len(t) = Len(s) + Len(t) - k
    BY <1>1, <1>2
  <2>2. /\ rest \o t \in Seq(S) /\ Len(rest \o t) = Len(rest) + Len(t)
        /\ \A i \in 1..(Len(rest) + Len(t)) :
             (rest \o t)[i] = IF i <= Len(rest) THEN rest[i] ELSE t[i - Len(rest)]
    BY <1>2, ConcatProperties
  <2>3. QED
    BY <1>2, <2>1, <2>2
<1>5. \A i \in 1..Len(all) : all[i] = (rest \o t)[i]
  <2> HIDE DEF rest, all
  <2>1. SUFFICES ASSUME NEW i \in 1..(Len(s) + Len(t) - k) PROVE all[i] = (rest \o t)[i]
    BY <1>3
  <2>2. k + i \in 1..(Len(s) + Len(t)) /\ (i <= Len(s) - k <=> k + i <= Len(s))
        /\ k + i - Len(s) = i - (Len(s) - k)
    BY <1>1
  <2>3. QED
    BY SMTT(40), <1>1, <1>2, <1>3, <1>4, <2>2
<1>6. all = rest \o t
  <2> HIDE DEF rest, all
  <2>1. QED
    BY <1>3, <1>4, <1>5, SeqEqual
<1>7. k \in 0..Len(s \o t) /\ \A i \in 1..k : (s \o t)[i] = s[i]
  BY <1>1
<1>8. QED
  BY <1>6, <1>7

\* What follows s in s \o t is t.
LEMMA RestOfConcat ==
  ASSUME NEW S, NEW s \in Seq(S), NEW t \in Seq(S)
  PROVE  /\ Len(s) \in 0..Len(s \o t)
         /\ SubSeq(s \o t, Len(s) + 1, Len(s \o t)) = t
         /\ \A i \in 1..Len(s) : (s \o t)[i] = s[i]
<1>1. Len(s) \in 0..Len(s) /\ Len(s) + 1 \in Int /\ Len(s) \in Int
  BY LenProperties
<1>2. SubSeq(s, Len(s) + 1, Len(s)) = <<>>
  BY <1>1, SubSeqEmpty, Len(s) < Len(s) + 1
<1>3. QED
  BY <1>1, <1>2, RestGrows, ConcatEmptySeq

LEMMA PacketsAssociative ==
  ASSUME NEW r \in Seq(Packet), NEW s \in Seq(Packet), NEW t \in Seq(Packet)
  PROVE  (r \o s) \o t = r \o (s \o t)
BY ConcatAssociative

LEMMA MsgType ==
  ASSUME NEW kind \in Kinds, NEW n \in Nat
  PROVE  Msg(kind, n) \in Packet /\ <<Msg(kind, n)>> \in Seq(Packet)
BY DEF Msg, Packet

-----------------------------------------------------------------------------
(* Types *)

\* How the participants change when the entry of n becomes q.
Entered(n, q) == players' = [m \in Numbers \cup {n} |-> IF m = n THEN q ELSE players[m]]

LEMMA EnteredFacts ==
  ASSUME TypeOK, NEW n \in 1..(Len(players) + 1), NEW q \in PlayerType, Entered(n, q),
         q.link # NoLink <=> q.myState \in {"connected", "ingame"}
  PROVE  /\ players' \in Seq(PlayerType) /\ Numbers' = Numbers \cup {n}
         /\ players'[n] = q /\ \A m \in Numbers : m # n => players'[m] = players[m]
         /\ Linked' = (Linked \ {n}) \cup (IF q.link # NoLink THEN {n} ELSE {})
         /\ (\A m \in Numbers : m \in Linked <=> players[m].myState \in {"connected", "ingame"})'
<1>1. players \in Seq(PlayerType)
  BY DEF TypeOK, PlayerType
<1>2. /\ players' \in Seq(PlayerType) /\ 1..Len(players') = 1..Len(players) \cup {n}
      /\ players'[n] = q /\ \A m \in 1..Len(players) : m # n => players'[m] = players[m]
  <2> DEFINE k == IF n \in 1..Len(players) THEN Len(players) ELSE n
  <2>1. /\ Len(players) \in Nat /\ k \in Nat /\ 1..Len(players) \cup {n} = 1..k
        /\ \A m \in 1..Len(players) : players[m] \in PlayerType
    BY <1>1, LenProperties, ElementOfSeq
  <2>2. /\ players' \in [1..k -> PlayerType]
        /\ \A m \in 1..k : players'[m] = IF m = n THEN q ELSE players[m]
    BY <2>1 DEF Entered, Numbers
  <2>3. players' \in Seq(PlayerType) /\ Len(players') = k
    <3> HIDE DEF k
    <3>1. QED
      BY <2>1, <2>2, FunctionIsSeq
  <2>4. QED
    BY <2>1, <2>2, <2>3
<1>3. Numbers' = Numbers \cup {n}
  BY <1>2 DEF Numbers
<1>4. \A m \in Numbers : m # n => players'[m] = players[m]
  BY <1>2 DEF Numbers
<1>5. Linked' = (Linked \ {n}) \cup (IF q.link # NoLink THEN {n} ELSE {})
  BY <1>2, <1>3, <1>4 DEF Linked
<1>6. ASSUME NEW m \in Numbers'
      PROVE  m \in Linked' <=> players'[m].myState \in {"connected", "ingame"}
  <2>1. CASE m = n
    BY <1>2, <1>5, <2>1
  <2>2. CASE m # n
    <3>1. m \in Numbers /\ players'[m] = players[m]
      BY <1>3, <1>4, <2>2
    <3>2. m \in Linked' <=> m \in Linked
      BY <1>5, <2>2
    <3>3. QED
      BY <3>1, <3>2 DEF TypeOK
  <2>3. QED
    BY <2>1, <2>2
<1>7. QED
  BY <1>2, <1>3, <1>4, <1>5, <1>6

LEMMA ExceptEntered ==
  ASSUME TypeOK, NEW n \in Numbers, NEW q, players' = [players EXCEPT ![n] = q]
  PROVE  Entered(n, q)
<1>1. players \in Seq(PlayerType)
  BY DEF TypeOK, PlayerType
<1>2. DOMAIN players = Numbers /\ Numbers \cup {n} = Numbers
  BY <1>1, LenProperties DEF Numbers
<1>3. QED
  BY <1>2 DEF Entered

LEMMA AppendEntered ==
  ASSUME TypeOK, NEW q \in PlayerType, players' = Append(players, q)
  PROVE  Entered(Len(players) + 1, q)
<1> DEFINE k == Len(players) + 1
           f == [m \in 1..Len(players) \cup {k} |-> IF m = k THEN q ELSE players[m]]
<1>1. players \in Seq(PlayerType) /\ Len(players) \in Nat
  BY LenProperties DEF TypeOK, PlayerType
<1>2. 1..Len(players) \cup {k} = 1..k /\ k \in Nat
  BY <1>1
<1>3. f \in [1..k -> PlayerType]
  BY <1>1, <1>2, ElementOfSeq
<1>4. /\ players' \in Seq(PlayerType) /\ Len(players') = k /\ players'[k] = q
      /\ \A i \in 1..Len(players) : players'[i] = players[i]
  BY <1>1, AppendProperties
<1>5. f \in Seq(PlayerType) /\ Len(f) = k
  <2> HIDE DEF f, k
  <2>1. QED
    BY <1>2, <1>3, FunctionIsSeq
<1>6. \A i \in 1..k : players'[i] = f[i]
  BY <1>2, <1>4
<1>7. players' = f
  <2> HIDE DEF f, k
  <2>1. QED
    BY <1>4, <1>5, <1>6, SeqEqual
<1>8. QED
  BY <1>7 DEF Entered, Numbers

LEMMA RecordFacts ==
  ASSUME TypeOK, NEW packets \in Seq(Packet), NEW reconnect, Record(packets, reconnect)
  PROVE  /\ history' = history \o packets /\ history' \in Seq(Packet)
         /\ packetCache' \in Seq(Packet)
BY ConcatProperties DEF TypeOK, Record

LEMMA BroadcastFacts ==
  ASSUME TypeOK, NEW packets \in Seq(Packet),
         out' = [l \in Links |-> IF l \in Live THEN out[l] \o packets ELSE out[l]]
  PROVE  /\ out' \in [Links -> Seq(Packet)]
         /\ \A n \in Linked : out'[players[n].link] = out[players[n].link] \o packets
<1>1. \A l \in Links : out[l] \in Seq(Packet) /\ out[l] \o packets \in Seq(Packet)
  BY ConcatProperties DEF TypeOK
<1>2. \A n \in Linked : players[n].link \in Links /\ players[n].link \in Live
  <2> SUFFICES ASSUME NEW n \in Linked PROVE players[n].link \in Links /\ players[n].link \in Live
    OBVIOUS
  <2>1. n \in Numbers /\ players[n].link # NoLink
    BY DEF Linked
  <2>2. players[n] \in PlayerType
    BY <2>1, ElementOfSeq DEF Numbers, TypeOK, PlayerType
  <2>3. QED
    BY <2>1, <2>2 DEF PlayerType, Live
<1>3. QED
  BY <1>1, <1>2

-----------------------------------------------------------------------------
(* What a newcomer is sent *)

Join(n, p) == IF p.spectator THEN <<>> ELSE <<Msg("join", n)>>

\* The part of the greeting that is for the newcomer n alone.
Address(n, p) ==
  (IF p.midgame THEN <<Msg("new", n)>> ELSE <<>>)
    \o <<Msg("gamedata", n), Msg("setnum", n)>> \o Join(n, p)

AddressedTo(n, s) ==
  \A i \in 1..Len(s) : s[i].kind \in {"new", "gamedata", "setnum", "join"} /\ s[i].who = n

LEMMA AddressedConcat ==
  ASSUME NEW n, NEW s \in Seq(Packet), NEW t \in Seq(Packet),
         AddressedTo(n, s), AddressedTo(n, t)
  PROVE  s \o t \in Seq(Packet) /\ AddressedTo(n, s \o t)
<1>1. /\ Len(s) \in Nat /\ Len(t) \in Nat /\ s \o t \in Seq(Packet)
      /\ Len(s \o t) = Len(s) + Len(t)
      /\ \A i \in 1..(Len(s) + Len(t)) :
           (s \o t)[i] = IF i <= Len(s) THEN s[i] ELSE t[i - Len(s)]
  BY LenProperties, ConcatProperties
<1>2. ASSUME NEW i \in 1..(Len(s) + Len(t))
      PROVE  (s \o t)[i].kind \in {"new", "gamedata", "setnum", "join"} /\ (s \o t)[i].who = n
  <2>1. CASE i <= Len(s)
    BY <1>1, <2>1 DEF AddressedTo
  <2>2. CASE ~(i <= Len(s))
    <3>1. i - Len(s) \in 1..Len(t)
      BY <1>1, <2>2
    <3>2. QED
      BY <1>1, <2>2, <3>1 DEF AddressedTo
  <2>3. QED
    BY <2>1, <2>2
<1>3. QED
  BY <1>1, <1>2 DEF AddressedTo

LEMMA AddressFacts ==
  ASSUME NEW n \in Nat, NEW p
  PROVE  /\ Join(n, p) \in Seq(Packet)
         /\ Address(n, p) \in Seq(Packet) /\ AddressedTo(n, Address(n, p))
<1> DEFINE new == IF p.midgame THEN <<Msg("new", n)>> ELSE <<>>
           game == <<Msg("gamedata", n), Msg("setnum", n)>>
<1>1. /\ Msg("new", n) \in Packet /\ Msg("join", n) \in Packet
      /\ Msg("gamedata", n) \in Packet /\ Msg("setnum", n) \in Packet
  BY DEF Msg, Packet, Kinds
<1>2. new \in Seq(Packet) /\ AddressedTo(n, new)
  BY <1>1 DEF AddressedTo, Msg
<1>3. game \in Seq(Packet) /\ AddressedTo(n, game)
  BY <1>1 DEF AddressedTo, Msg
<1>4. Join(n, p) \in Seq(Packet) /\ AddressedTo(n, Join(n, p))
  BY <1>1 DEF AddressedTo, Msg, Join
<1>5. (new \o game) \in Seq(Packet) /\ AddressedTo(n, new \o game)
  <2> HIDE DEF new, game
  <2>1. QED
    BY <1>2, <1>3, AddressedConcat
<1>6. ((new \o game) \o Join(n, p)) \in Seq(Packet)
      /\ AddressedTo(n, (new \o game) \o Join(n, p))
  <2> HIDE DEF new, game
  <2>1. QED
    BY <1>4, <1>5, AddressedConcat
<1>7. QED
  BY <1>4, <1>6 DEF Address

LEMMA GreetingFacts ==
  ASSUME TypeOK, NEW n \in Nat, NEW p, NEW l, NEW announced \in Seq(Packet)
  PROVE  /\ Greeting(n, l, p, announced, Join(n, p)) \in Seq(Packet)
         /\ (Caching(Reconnects(l)) =>
              Greeting(n, l, p, announced, Join(n, p)) =
                Address(n, p) \o (packetCache \o (announced \o Join(n, p))))
<1> DEFINE J == Join(n, p)
           missed == IF Caching(Reconnects(l)) THEN packetCache \o announced \o J ELSE packetCache
<1>1. /\ J \in Seq(Packet) /\ Address(n, p) \in Seq(Packet) /\ packetCache \in Seq(Packet)
  BY AddressFacts DEF TypeOK
<1>2. (packetCache \o announced) \o J = packetCache \o (announced \o J)
  <2> HIDE DEF J
  <2>1. QED
    BY <1>1, ConcatAssociative
<1>3. missed \in Seq(Packet)
  <2> HIDE DEF J
  <2>1. packetCache \o announced \in Seq(Packet)
    BY <1>1, ConcatProperties
  <2>2. packetCache \o announced \o J \in Seq(Packet)
    BY <1>1, <2>1, ConcatProperties
  <2>3. QED
    BY <1>1, <2>2
<1>4. Greeting(n, l, p, announced, J) = Address(n, p) \o missed
  BY DEF Greeting, Address
<1>5. Address(n, p) \o missed \in Seq(Packet)
  <2> HIDE DEF missed
  <2>1. QED
    BY <1>1, <1>3, ConcatProperties
<1>6. QED
  BY <1>2, <1>4, <1>5

-----------------------------------------------------------------------------
(* Type correctness *)

Bound(p, l) == [p EXCEPT !.link = l, !.myState = "connected"]

LEMMA BindFacts ==
  ASSUME TypeOK, NEW n \in 1..(Len(players) + 1), NEW p \in PlayerType, NEW l \in Links,
         NEW announced \in Seq(Packet), NEW reconnect, Bind(n, p, l, announced, reconnect)
  PROVE  /\ Bound(p, l) \in PlayerType /\ Bound(p, l).link = l
         /\ Bound(p, l).myState = "connected" /\ Entered(n, Bound(p, l))
         /\ announced \o Join(n, p) \in Seq(Packet)
         /\ Record(announced \o Join(n, p), Reconnects(l))
         /\ out' \in [Links -> Seq(Packet)]
         /\ out'[l] = Greeting(n, l, p, announced, Join(n, p))
         /\ unmuted' \subseteq Links
<1> DEFINE J == Join(n, p)
           last == IF n \in Numbers THEN {players[n].link} ELSE {}
<1>1. n \in Nat
  BY LenProperties DEF TypeOK
<1>2. Bound(p, l) \in PlayerType /\ Bound(p, l).link = l /\ Bound(p, l).myState = "connected"
  BY DEF Bound, PlayerType, States
<1>3. Entered(n, Bound(p, l)) /\ unmuted' \subseteq Links
  BY DEF Bind, Entered, Bound, TypeOK
<1>4. J \in Seq(Packet) /\ announced \o J \in Seq(Packet)
  BY <1>1, AddressFacts, ConcatProperties
<1>5. Record(announced \o J, Reconnects(l))
  BY DEF Bind, Join
<1>6. out' = [k \in Links |->
           IF k = l THEN Greeting(n, l, p, announced, J)
           ELSE IF k \in Live
                THEN out[k] \o announced \o (IF k \in last THEN <<>> ELSE J)
                ELSE out[k]]
  BY DEF Bind, Join
<1>7. Greeting(n, l, p, announced, J) \in Seq(Packet)
  BY <1>1, GreetingFacts
<1>8. ASSUME NEW k \in Links
      PROVE  /\ out[k] \in Seq(Packet)
             /\ out[k] \o announced \o <<>> \in Seq(Packet)
             /\ out[k] \o announced \o J \in Seq(Packet)
  <2> HIDE DEF J
  <2>1. out[k] \in Seq(Packet) /\ out[k] \o announced \in Seq(Packet)
    BY ConcatProperties DEF TypeOK
  <2>2. (out[k] \o announced) \o J \in Seq(Packet)
    BY <1>4, <2>1, ConcatProperties
  <2>3. (out[k] \o announced) \o <<>> \in Seq(Packet)
    BY <2>1, ConcatEmptySeq
  <2>4. QED
    BY <2>1, <2>2, <2>3
<1>9. out' \in [Links -> Seq(Packet)] /\ out'[l] = Greeting(n, l, p, announced, J)
  <2> HIDE DEF J, last
  <2>1. QED
    BY <1>6, <1>7, <1>8
<1>10. QED
  BY <1>2, <1>3, <1>4, <1>5, <1>9

\* A link that was there before, and is not replaced, is sent what is broadcast.
LEMMA BindHeard ==
  ASSUME TypeOK, NEW n \in Nat, NEW p, NEW l, NEW announced \in Seq(Packet), NEW reconnect,
         Bind(n, p, l, announced, reconnect), NEW k \in Links, k \in Live, k # l,
         n \in Numbers => k # players[n].link
  PROVE  out'[k] = out[k] \o (announced \o Join(n, p))
<1> DEFINE last == IF n \in Numbers THEN {players[n].link} ELSE {}
<1>1. out[k] \in Seq(Packet) /\ Join(n, p) \in Seq(Packet)
  BY AddressFacts DEF TypeOK
<1>2. k \notin last
  OBVIOUS
<1>3. out'[k] = (out[k] \o announced) \o Join(n, p)
  BY <1>2 DEF Bind, Join
<1>4. QED
  BY <1>1, <1>3, PacketsAssociative

\* What an attempt that is let in amounts to.
AdmittedAs(l, name, reconnect, stale, n, p, announced) ==
  \/ /\ n \in Found(name) /\ p = players[n] /\ announced = Farewell(n)
     /\ MayConnect(n, l, reconnect) \/ MayReplace(n, l, reconnect, stale)
  \/ /\ AllowSpecJoin /\ n = NextNumber /\ p = Participant(name, TRUE, TRUE, TRUE)
     /\ announced = <<Msg("new", NextNumber)>>

LEMMA AttemptCases ==
  ASSUME NEW l, NEW name, NEW reconnect, NEW stale, Attempt(l, name, reconnect, stale)
  PROVE  \/ UNCHANGED <<players, out, unmuted, packetCache, history>>
         \/ \E n, p, announced : /\ AdmittedAs(l, name, reconnect, stale, n, p, announced)
                                 /\ Bind(n, p, l, announced, reconnect)
BY DEF Attempt, AdmittedAs

LEMMA AdmittedTypes ==
  ASSUME TypeOK, NEW l \in Links, NEW name \in Names, NEW reconnect, NEW stale, NEW n, NEW p,
         NEW announced, AdmittedAs(l, name, reconnect, stale, n, p, announced)
  PROVE  n \in 1..(Len(players) + 1) /\ p \in PlayerType /\ announced \in Seq(Packet)
<1>1. Len(players) \in Nat /\ players \in Seq(PlayerType)
  BY LenProperties DEF TypeOK, PlayerType
<1>2. CASE n \in Found(name) /\ p = players[n] /\ announced = Farewell(n)
  <2>1. n \in 1..Len(players) /\ n \in Nat
    BY <1>1, <1>2 DEF Found, Numbers
  <2>2. <<Msg("left", n)>> \in Seq(Packet)
    BY <2>1, MsgType DEF Kinds
  <2>3. QED
    BY <1>1, <1>2, <2>1, <2>2, ElementOfSeq DEF Farewell
<1>3. CASE n = NextNumber /\ p = Participant(name, TRUE, TRUE, TRUE)
           /\ announced = <<Msg("new", NextNumber)>>
  <2>1. NextNumber \in Nat /\ NextNumber \in 1..(Len(players) + 1)
    BY <1>1 DEF NextNumber
  <2>2. <<Msg("new", NextNumber)>> \in Seq(Packet)
    BY <2>1, MsgType DEF Kinds
  <2>3. p \in PlayerType
    BY <1>3 DEF Participant, PlayerType, States
  <2>4. QED
    BY <1>3, <2>1, <2>2, <2>3
<1>4. QED
  BY <1>2, <1>3 DEF AdmittedAs

LEMMA InitTypeOK == Init => TypeOK
<1> SUFFICES ASSUME Init PROVE TypeOK
  OBVIOUS
<1>1. Len(Listed) \in Nat /\ \A n \in 1..Len(Listed) : Listed[n] \in Names
  BY NamesAssumption, LenProperties DEF Names
<1>2. players \in [1..Len(Listed) -> PlayerType]
  BY <1>1 DEF Init, Participant, PlayerType, States
<1>3. players \in Seq(PlayerType) /\ Len(players) = Len(Listed)
  BY <1>1, <1>2, FunctionIsSeq
<1>4. \A n \in Numbers : n \notin Linked /\ players[n].myState = "unconnected"
  BY <1>3 DEF Init, Participant, Linked, Numbers
<1>5. packetCache \in Seq(Packet) /\ history \in Seq(Packet)
  BY MsgType DEF Init, Kinds
<1>6. /\ out \in [Links -> Seq(Packet)] /\ unmuted \subseteq Links
      /\ FlagsOK
  BY EmptySeq DEF Init, FlagsOK
<1>7. QED
  BY <1>3, <1>4, <1>5, <1>6 DEF TypeOK, PlayerType

\* A change of one participant together with a broadcast keeps the types.
LEMMA EnteredTypeOK ==
  ASSUME TypeOK, NEW n \in 1..(Len(players) + 1), NEW q \in PlayerType, Entered(n, q),
         q.link # NoLink <=> q.myState \in {"connected", "ingame"},
         out' \in [Links -> Seq(Packet)], history' \in Seq(Packet),
         packetCache' \in Seq(Packet), unmuted' \subseteq Links,
         FlagsOK'
  PROVE  TypeOK'
<1>1. /\ players' \in Seq(PlayerType)
      /\ (\A m \in Numbers : m \in Linked <=> players[m].myState \in {"connected", "ingame"})'
  BY EnteredFacts
<1>2. QED
  BY <1>1 DEF TypeOK, PlayerType

\* Nothing that TypeOK says of players is disturbed when they stay.
LEMMA SamePlayersTypeOK ==
  ASSUME TypeOK, UNCHANGED players,
         out' \in [Links -> Seq(Packet)], history' \in Seq(Packet),
         packetCache' \in Seq(Packet), unmuted' \subseteq Links,
         FlagsOK'
  PROVE  TypeOK'
<1>1. Numbers' = Numbers /\ Linked' = Linked
  BY DEF Numbers, Linked
<1>2. QED
  BY <1>1 DEF TypeOK

LEMMA AttemptTypeOK ==
  ASSUME TypeOK, NEW l \in Links, NEW name \in Names, NEW reconnect \in BOOLEAN,
         NEW stale \in BOOLEAN, Attempt(l, name, reconnect, stale)
  PROVE  TypeOK'
<1>1. FlagsOK'
  BY FlagsAssumption DEF Attempt, Reconnects, TypeOK, FlagsOK
<1>2. CASE UNCHANGED <<players, out, unmuted, packetCache, history>>
  <2>1. /\ out' \in [Links -> Seq(Packet)] /\ history' \in Seq(Packet)
        /\ packetCache' \in Seq(Packet) /\ unmuted' \subseteq Links
    BY <1>2 DEF TypeOK
  <2>2. QED
    BY <1>1, <1>2, <2>1, SamePlayersTypeOK
<1>3. ASSUME NEW n, NEW p, NEW announced,
             AdmittedAs(l, name, reconnect, stale, n, p, announced),
             Bind(n, p, l, announced, reconnect)
      PROVE  TypeOK'
  <2>1. n \in 1..(Len(players) + 1) /\ p \in PlayerType /\ announced \in Seq(Packet)
    BY <1>3, AdmittedTypes
  <2>2. /\ Bound(p, l) \in PlayerType /\ Bound(p, l).link = l
        /\ Bound(p, l).myState = "connected" /\ Entered(n, Bound(p, l))
        /\ announced \o Join(n, p) \in Seq(Packet)
        /\ Record(announced \o Join(n, p), Reconnects(l))
        /\ out' \in [Links -> Seq(Packet)] /\ unmuted' \subseteq Links
    BY <1>3, <2>1, BindFacts
  <2>3. history' \in Seq(Packet) /\ packetCache' \in Seq(Packet)
    BY <2>2, RecordFacts
  <2>4. Bound(p, l).link # NoLink
    BY <2>2, NamesAssumption
  <2>5. QED
    BY <1>1, <2>1, <2>2, <2>3, <2>4, EnteredTypeOK
<1>4. QED
  BY <1>2, <1>3, AttemptCases

\* What an action says that broadcasts packets and leaves the flags alone.
LEMMA BroadcastTypes ==
  ASSUME TypeOK, NEW packets \in Seq(Packet), Broadcast(packets), UNCHANGED <<unmuted, flags>>
  PROVE  /\ out' \in [Links -> Seq(Packet)] /\ history' \in Seq(Packet)
         /\ packetCache' \in Seq(Packet) /\ unmuted' \subseteq Links
         /\ FlagsOK'
         /\ history' = history \o packets /\ Record(packets, canReconnect)
         /\ \A n \in Linked : out'[players[n].link] = out[players[n].link] \o packets
<1>1. Record(packets, canReconnect)
      /\ out' = [l \in Links |-> IF l \in Live THEN out[l] \o packets ELSE out[l]]
  BY DEF Broadcast
<1>2. /\ unmuted' \subseteq Links
      /\ FlagsOK'
  BY DEF TypeOK, FlagsOK, flags
<1>3. QED
  BY <1>1, <1>2, RecordFacts, BroadcastFacts

\* The entries that the other actions make, and what they broadcast.
LEMMA EntryTypes ==
  ASSUME TypeOK, NEW n \in Numbers
  PROVE  /\ n \in Nat /\ n \in 1..(Len(players) + 1) /\ players[n] \in PlayerType
         /\ Killed(players[n]) \in PlayerType /\ Killed(players[n]).link = NoLink
         /\ Killed(players[n]).myState = "disconnected"
         /\ [players[n] EXCEPT !.myState = "ingame"] \in PlayerType
<1>1. Len(players) \in Nat /\ players \in Seq(PlayerType)
  BY LenProperties DEF TypeOK, PlayerType
<1>2. n \in Nat /\ n \in 1..(Len(players) + 1) /\ players[n] \in PlayerType
  BY <1>1, ElementOfSeq DEF Numbers
<1>3. QED
  BY <1>2 DEF Killed, PlayerType, States

LEMMA ServersAreSettings ==
  ASSUME settings \in Servers
  PROVE  AllowSpecJoin \in BOOLEAN /\ SavedGame \in BOOLEAN
BY FlagsAssumption DEF AllowSpecJoin, SavedGame

LEMMA StartGameFacts ==
  ASSUME TypeOK, StartGame
  PROVE  \E packets \in Seq(Packet) :
           /\ history' = history \o packets /\ history' \in Seq(Packet)
           /\ packetCache' = (IF canReconnect \/ AllowSpecJoin THEN packetCache \o packets ELSE <<>>)
           /\ packetCache' \in Seq(Packet)
           /\ out' \in [Links -> Seq(Packet)]
           /\ \A n \in Linked : out'[players[n].link] = out[players[n].link] \o packets
<1>1. Msg("start", 0) \in Packet /\ Msg("frame", 0) \in Packet
  BY DEF Msg, Packet, Kinds
<1>2. <<Msg("start", 0)>> \in Seq(Packet) /\ <<Msg("start", 0), Msg("frame", 0)>> \in Seq(Packet)
  BY <1>1
<1>3. PICK packets \in Seq(Packet) :
        /\ history' = history \o packets
        /\ packetCache' = (IF canReconnect \/ AllowSpecJoin THEN packetCache \o packets ELSE <<>>)
        /\ out' = [l \in Links |-> IF l \in Live THEN out[l] \o packets ELSE out[l]]
  BY <1>2 DEF StartGame
<1>4. history' \in Seq(Packet) /\ packetCache' \in Seq(Packet)
  BY <1>3, ConcatProperties, EmptySeq DEF TypeOK
<1>5. /\ out' \in [Links -> Seq(Packet)]
      /\ \A n \in Linked : out'[players[n].link] = out[players[n].link] \o packets
  BY <1>3, BroadcastFacts
<1>6. QED
  BY <1>3, <1>4, <1>5

LEMMA NextTypeOK == TypeOK /\ [Next]_vars => TypeOK'
<1> SUFFICES ASSUME TypeOK, [Next]_vars PROVE TypeOK'
  OBVIOUS
<1>1. ASSUME NEW l \in Links, NEW name \in Names, NEW reconnect \in BOOLEAN,
             NEW stale \in BOOLEAN, Attempt(l, name, reconnect, stale)
      PROVE  TypeOK'
  BY <1>1, AttemptTypeOK
<1>2. ASSUME NEW name \in Guests, NEW spectator \in BOOLEAN, AddUser(name, spectator)
      PROVE  TypeOK'
  <2> DEFINE q == Participant(name, FALSE, spectator, TRUE)
             k == Len(players) + 1
  <2>1. q \in PlayerType /\ q.link = NoLink /\ q.myState = "unconnected"
    BY DEF Participant, PlayerType, States, Names
  <2>2. Entered(k, q)
    BY <1>2, <2>1, AppendEntered DEF AddUser
  <2>3. k \in 1..(Len(players) + 1) /\ NextNumber \in Nat
    BY LenProperties DEF TypeOK, NextNumber
  <2>4. <<Msg("new", NextNumber)>> \in Seq(Packet)
    BY <2>3, MsgType DEF Kinds
  <2>5. /\ out' \in [Links -> Seq(Packet)] /\ history' \in Seq(Packet)
        /\ packetCache' \in Seq(Packet) /\ unmuted' \subseteq Links
        /\ FlagsOK'
    BY <1>2, <2>4, BroadcastTypes DEF AddUser
  <2>6. QED
    <3> HIDE DEF q, k
    <3>1. QED
      BY <2>1, <2>2, <2>3, <2>5, EnteredTypeOK
<1>3. ASSUME NEW n \in Numbers, PlayerName(n)
      PROVE  TypeOK'
  <2> DEFINE q == [players[n] EXCEPT !.myState = "ingame"]
  <2>1. /\ n \in Nat /\ n \in 1..(Len(players) + 1) /\ q \in PlayerType
        /\ players[n] \in PlayerType
    BY EntryTypes
  <2>2. q.link = players[n].link /\ q.myState = "ingame" /\ players[n].link # NoLink
    BY <1>3, <2>1 DEF PlayerName, Linked, PlayerType
  <2>3. players' = [players EXCEPT ![n] = q]
    BY <1>3 DEF PlayerName
  <2>4. Entered(n, q)
    BY <2>3, ExceptEntered
  <2>5. <<Msg("name", n)>> \in Seq(Packet)
    BY <2>1, MsgType DEF Kinds
  <2>6. /\ out' \in [Links -> Seq(Packet)] /\ history' \in Seq(Packet)
        /\ packetCache' \in Seq(Packet) /\ unmuted' \subseteq Links
        /\ FlagsOK'
    BY <1>3, <2>5, BroadcastTypes DEF PlayerName
  <2>7. QED
    <3> HIDE DEF q
    <3>1. QED
      BY <2>1, <2>2, <2>4, <2>6, EnteredTypeOK
<1>4. ASSUME NEW n \in Numbers, Command(n)
      PROVE  TypeOK'
  <2>1. <<Msg("command", n)>> \in Seq(Packet)
    BY EntryTypes, MsgType DEF Kinds
  <2>2. QED
    BY <1>4, <2>1, BroadcastTypes, SamePlayersTypeOK DEF Command
<1>5. ASSUME NEW n \in Numbers, Leave(n)
      PROVE  TypeOK'
  <2>1. /\ n \in Nat /\ n \in 1..(Len(players) + 1) /\ Killed(players[n]) \in PlayerType
        /\ Killed(players[n]).link = NoLink /\ Killed(players[n]).myState = "disconnected"
    BY EntryTypes
  <2>2. Entered(n, Killed(players[n]))
    BY <1>5, ExceptEntered DEF Leave
  <2>3. <<Msg("left", n)>> \in Seq(Packet)
    BY <2>1, MsgType DEF Kinds
  <2>4. /\ out' \in [Links -> Seq(Packet)] /\ history' \in Seq(Packet)
        /\ packetCache' \in Seq(Packet) /\ unmuted' \subseteq Links
        /\ FlagsOK'
    BY <1>5, <2>3, BroadcastTypes DEF Leave
  <2>5. QED
    BY <2>1, <2>2, <2>4, EnteredTypeOK
<1>6. CASE StartGame
  <2>1. /\ unmuted' \subseteq Links /\ UNCHANGED players
        /\ FlagsOK'
    BY <1>6, ServersAreSettings DEF StartGame, Accepts, TypeOK, FlagsOK
  <2>2. QED
    BY <1>6, <2>1, StartGameFacts, SamePlayersTypeOK
<1>7. CASE PostLoad \/ UNCHANGED vars
  <2>1. /\ UNCHANGED <<players, out, unmuted, packetCache, history>>
        /\ FlagsOK'
    BY <1>7 DEF PostLoad, vars, flags, TypeOK, FlagsOK
  <2>2. QED
    BY <2>1, SamePlayersTypeOK DEF TypeOK
<1>8. CASE CreateNewFrame
  <2>1. <<Msg("frame", 0)>> \in Seq(Packet)
    BY MsgType DEF Kinds
  <2>2. QED
    BY <1>8, <2>1, BroadcastTypes, SamePlayersTypeOK DEF CreateNewFrame
<1>9. QED
  BY <1>1, <1>2, <1>3, <1>4, <1>5, <1>6, <1>7, <1>8 DEF Next

\* Every variable stays within its type, and a participant has a link exactly
\* while it is connected or in the game (GameParticipant).
THEOREM TypeCorrect == Spec => []TypeOK
<1>1. Init => TypeOK
  BY InitTypeOK
<1>2. TypeOK /\ [Next]_vars => TypeOK'
  BY NextTypeOK
<1>3. QED
  BY <1>1, <1>2, PTL DEF Spec

-----------------------------------------------------------------------------
(* Nobody misses a packet *)

LEMMA ToldMore ==
  ASSUME NEW n, NEW s \in Seq(Packet), NEW t \in Seq(Packet), NEW h, Told(n, s, h)
  PROVE  Told(n, s \o t, h \o t)
<1>1. PICK k \in 0..Len(s) :
        /\ SubSeq(s, k + 1, Len(s)) = h
        /\ \A i \in 1..k : s[i].kind \in {"new", "gamedata", "setnum", "join"} /\ s[i].who = n
  BY DEF Told
<1>2. /\ k \in 0..Len(s \o t)
      /\ SubSeq(s \o t, k + 1, Len(s \o t)) = SubSeq(s, k + 1, Len(s)) \o t
      /\ \A i \in 1..k : (s \o t)[i] = s[i]
  BY RestGrows
<1>3. QED
  BY <1>1, <1>2 DEF Told

LEMMA ToldOnArrival ==
  ASSUME NEW n, NEW s \in Seq(Packet), NEW h \in Seq(Packet), AddressedTo(n, s)
  PROVE  Told(n, s \o h, h)
<1>1. /\ Len(s) \in 0..Len(s \o h)
      /\ SubSeq(s \o h, Len(s) + 1, Len(s \o h)) = h
      /\ \A i \in 1..Len(s) : (s \o h)[i] = s[i]
  BY RestOfConcat
<1>2. QED
  BY <1>1 DEF Told, AddressedTo

LEMMA ToldSomething ==
  ASSUME NEW n, NEW h, h # <<>>, Told(n, <<>>, h)
  PROVE  FALSE
<1>1. Len(<<>>) = 0 /\ 0..0 = {0} /\ 0 < 0 + 1
  OBVIOUS
<1>2. SubSeq(<<>>, 0 + 1, 0) = <<>>
  BY SubSeqEmpty
<1>3. QED
  BY <1>1, <1>2 DEF Told

LEMMA LinkedFacts ==
  ASSUME TypeOK, NEW n \in Linked
  PROVE  /\ n \in Numbers /\ players[n].link \in Links /\ players[n].link \in Live
         /\ out[players[n].link] \in Seq(Packet)
<1>1. n \in Numbers /\ players[n].link # NoLink
  BY DEF Linked
<1>2. players[n] \in PlayerType
  BY <1>1, EntryTypes
<1>3. players[n].link \in Links
  BY <1>1, <1>2 DEF PlayerType
<1>4. QED
  BY <1>1, <1>3 DEF Live, TypeOK

\* Whoever keeps a link and is sent what is broadcast has been told everything.
LEMMA EveryoneHears ==
  ASSUME SessionInv, NEW packets \in Seq(Packet), history' = history \o packets,
         \A n \in Linked' : n \in Linked /\ players'[n].link = players[n].link,
         \A n \in Linked : out'[players[n].link] = out[players[n].link] \o packets
  PROVE  history' # <<>> /\ OwnLinks' /\ WholeHistory'
<1>1. history' # <<>>
  BY ConcatEqualIffEmpty DEF SessionInv, TypeOK
<1>2. OwnLinks'
  BY DEF SessionInv, OwnLinks
<1>3. ASSUME NEW n \in Linked'
      PROVE  Told(n, out'[players'[n].link], history')
  <2>1. n \in Linked /\ players'[n].link = players[n].link
    OBVIOUS
  <2>2. Told(n, out[players[n].link], history) /\ out[players[n].link] \in Seq(Packet)
    BY <2>1, LinkedFacts DEF SessionInv, WholeHistory
  <2>3. Told(n, out[players[n].link] \o packets, history \o packets)
    BY <2>2, ToldMore
  <2>4. QED
    BY <2>1, <2>3
<1>4. QED
  BY <1>1, <1>2, <1>3 DEF WholeHistory

LEMMA CacheKept ==
  ASSUME SessionInv, NEW packets, NEW reconnect, Record(packets, reconnect),
         UNCHANGED accepting, accepting => Caching(reconnect)
  PROVE  CacheComplete'
BY DEF SessionInv, CacheComplete, Record

\* A broadcast that leaves the flags alone.
LEMMA BroadcastStep ==
  ASSUME SessionInv, NEW packets \in Seq(Packet), Broadcast(packets), UNCHANGED <<unmuted, flags>>,
         \A n \in Linked' : n \in Linked /\ players'[n].link = players[n].link,
         TypeOK'
  PROVE  SessionInv'
<1>1. TypeOK
  BY DEF SessionInv
<1>2. /\ history' = history \o packets /\ Record(packets, canReconnect)
      /\ \A n \in Linked : out'[players[n].link] = out[players[n].link] \o packets
  BY <1>1, BroadcastTypes
<1>3. history' # <<>> /\ OwnLinks' /\ WholeHistory'
  BY <1>2, EveryoneHears
<1>4. UNCHANGED <<gameHasStarted, canReconnect, accepting, settings>>
  BY DEF flags
<1>5. (accepting <=> Caching(canReconnect))'
  BY <1>4 DEF SessionInv, Caching, AllowSpecJoin
<1>6. CacheComplete'
  BY <1>2, <1>4, CacheKept DEF SessionInv
<1>7. QED
  BY <1>3, <1>5, <1>6 DEF SessionInv

\* An attempt never closes the listener to those who could come before.
LEMMA AttemptCaching ==
  ASSUME SessionInv, NEW l \in Links, NEW name, NEW reconnect, NEW stale,
         Attempt(l, name, reconnect, stale)
  PROVE  /\ (accepting <=> Caching(canReconnect))'
         /\ accepting <=> Caching(Reconnects(l))
<1>1. /\ accepting \/ l \in LocalLinks
      /\ canReconnect' = Reconnects(l)
      /\ UNCHANGED <<gameHasStarted, accepting, settings>>
  BY DEF Attempt
<1>2. accepting <=> Caching(Reconnects(l))
  BY <1>1 DEF SessionInv, Caching, Reconnects
<1>3. QED
  BY <1>1, <1>2 DEF Caching, AllowSpecJoin

LEMMA AdmittedSession ==
  ASSUME SessionInv, TypeOK', NEW l \in Links, NEW name \in Names, NEW reconnect, NEW stale,
         out[l] = <<>>, accepting <=> Caching(Reconnects(l)), UNCHANGED accepting,
         NEW n, NEW p, NEW announced,
         AdmittedAs(l, name, reconnect, stale, n, p, announced), Bind(n, p, l, announced, reconnect)
  PROVE  history' # <<>> /\ OwnLinks' /\ WholeHistory' /\ CacheComplete'
<1> DEFINE J == Join(n, p)
           packets == announced \o J
           q == Bound(p, l)
<1>1. TypeOK /\ history # <<>> /\ history \in Seq(Packet)
  BY DEF SessionInv, TypeOK
<1>2. n \in 1..(Len(players) + 1) /\ n \in Nat /\ p \in PlayerType /\ announced \in Seq(Packet)
  <2>1. n \in 1..(Len(players) + 1) /\ p \in PlayerType /\ announced \in Seq(Packet)
    BY <1>1, AdmittedTypes
  <2>2. QED
    BY <1>1, <2>1, LenProperties DEF TypeOK
<1>3. /\ q \in PlayerType /\ q.link = l /\ q.myState = "connected" /\ Entered(n, q)
      /\ packets \in Seq(Packet) /\ Record(packets, Reconnects(l))
      /\ out'[l] = Greeting(n, l, p, announced, J)
  BY <1>1, <1>2, BindFacts
<1>4. history' = history \o packets /\ history' \in Seq(Packet) /\ history' # <<>>
  <2> HIDE DEF packets
  <2>1. history' = history \o packets /\ history' \in Seq(Packet)
    BY <1>1, <1>3, RecordFacts
  <2>2. QED
    BY <1>1, <1>3, <2>1, ConcatEqualIffEmpty
<1>5. accepting /\ packetCache = history /\ Caching(Reconnects(l))
  BY DEF AdmittedAs, MayConnect, MayReplace, Caching, SessionInv, CacheComplete
<1>6. CacheComplete'
  BY <1>3, <1>5, CacheKept
<1>7. l # NoLink
  BY NamesAssumption
<1>8. /\ Linked' = (Linked \ {n}) \cup {n} /\ players'[n].link = l
      /\ \A m \in Numbers : m # n => players'[m] = players[m]
  <2> HIDE DEF q
  <2>1. q.link # NoLink /\ (q.link # NoLink <=> q.myState \in {"connected", "ingame"})
    BY <1>3, <1>7
  <2>2. QED
    BY <1>1, <1>2, <1>3, <2>1, EnteredFacts
\* n itself is greeted
<1>9. Told(n, out'[l], history')
  <2>1. out'[l] = Address(n, p) \o (packetCache \o packets)
    BY <1>1, <1>2, <1>3, <1>5, GreetingFacts
  <2>2. Address(n, p) \in Seq(Packet) /\ AddressedTo(n, Address(n, p))
    BY <1>2, AddressFacts
  <2>3. QED
    BY <1>4, <1>5, <2>1, <2>2, ToldOnArrival
\* all others keep their links, and hear
<1>10. ASSUME NEW m \in Linked, m # n
       PROVE  /\ players'[m].link = players[m].link /\ players[m].link # l
              /\ Told(m, out'[players[m].link], history')
  <2> DEFINE k == players[m].link
  <2>1. m \in Numbers /\ k \in Links /\ k \in Live /\ out[k] \in Seq(Packet)
    BY <1>1, LinkedFacts
  <2>2. Told(m, out[k], history)
    BY DEF SessionInv, WholeHistory
  <2>3. k # l
    BY <1>1, <2>2, ToldSomething
  <2>4. n \in Numbers => k # players[n].link
    <3>1. SUFFICES ASSUME n \in Numbers, k = players[n].link PROVE FALSE
      OBVIOUS
    <3>2. n \in Linked
      BY <2>1, <3>1, NamesAssumption DEF Linked
    <3>3. QED
      BY <1>10, <3>1, <3>2 DEF SessionInv, OwnLinks
  <2>5. out'[k] = out[k] \o packets
    <3> HIDE DEF k
    <3>1. QED
      BY ZenonT(60), <1>1, <1>2, <2>1, <2>3, <2>4, BindHeard
  <2>6. Told(m, out[k] \o packets, history \o packets)
    <3> HIDE DEF k, packets
    <3>1. QED
      BY <1>3, <2>1, <2>2, ToldMore
  <2>7. QED
    BY <1>4, <1>8, <1>10, <2>1, <2>3, <2>5, <2>6
<1>11. OwnLinks'
  <2>1. SUFFICES ASSUME NEW a \in Linked', NEW b \in Linked', a # b
                 PROVE  players'[a].link # players'[b].link
    BY DEF OwnLinks
  <2>2. CASE a = n
    BY <1>8, <1>10, <2>1, <2>2
  <2>3. CASE b = n
    BY <1>8, <1>10, <2>1, <2>3
  <2>4. CASE a # n /\ b # n
    <3>1. a \in Linked /\ b \in Linked
      BY <1>8, <2>4
    <3>2. players[a].link # players[b].link
      BY <2>1, <3>1 DEF SessionInv, OwnLinks
    <3>3. QED
      BY <1>10, <2>4, <3>1, <3>2
  <2>5. QED
    BY <2>2, <2>3, <2>4
<1>12. WholeHistory'
  <2>1. SUFFICES ASSUME NEW m \in Linked'
                 PROVE  Told(m, out'[players'[m].link], history')
    BY DEF WholeHistory
  <2>2. CASE m = n
    BY <1>8, <1>9, <2>2
  <2>3. CASE m # n
    <3>1. m \in Linked
      BY <1>8, <2>3
    <3>2. QED
      BY <1>10, <2>3, <3>1
  <2>4. QED
    BY <2>2, <2>3
<1>13. QED
  BY <1>4, <1>6, <1>11, <1>12

LEMMA InitSession == Init => SessionInv
<1> SUFFICES ASSUME Init PROVE SessionInv
  OBVIOUS
<1>1. TypeOK
  BY InitTypeOK
<1>2. Linked = {}
  <2>1. Len(players) = Len(Listed)
    <3>1. Len(Listed) \in Nat /\ \A n \in 1..Len(Listed) : Listed[n] \in Names
      BY NamesAssumption, LenProperties DEF Names
    <3>2. players \in [1..Len(Listed) -> PlayerType]
      BY <3>1 DEF Init, Participant, PlayerType, States
    <3>3. QED
      BY <3>1, <3>2, FunctionIsSeq
  <2>2. QED
    BY <2>1 DEF Init, Participant, Linked, Numbers
<1>3. history # <<>> /\ packetCache = history /\ accepting /\ Caching(canReconnect)
  BY DEF Init, Caching
<1>4. QED
  BY <1>1, <1>2, <1>3 DEF SessionInv, OwnLinks, CacheComplete, WholeHistory

LEMMA NextSession ==
  ASSUME \A s \in Servers : s.saved => s.specJoin, SessionInv, [Next]_vars
  PROVE  SessionInv'
<1>1. TypeOK /\ TypeOK'
  BY NextTypeOK DEF SessionInv
<1>2. ASSUME NEW l \in Links, NEW name \in Names, NEW reconnect \in BOOLEAN,
             NEW stale \in BOOLEAN, Attempt(l, name, reconnect, stale)
      PROVE  SessionInv'
  <2>1. /\ (accepting <=> Caching(canReconnect))'
        /\ accepting <=> Caching(Reconnects(l))
    BY <1>2, AttemptCaching
  <2>2. UNCHANGED accepting /\ out[l] = <<>>
    BY <1>2 DEF Attempt
  <2>3. CASE UNCHANGED <<players, out, unmuted, packetCache, history>>
    BY <1>1, <2>1, <2>2, <2>3
       DEF SessionInv, OwnLinks, Linked, Numbers, CacheComplete, WholeHistory
  <2>4. ASSUME NEW n, NEW p, NEW announced,
               AdmittedAs(l, name, reconnect, stale, n, p, announced),
               Bind(n, p, l, announced, reconnect)
        PROVE  SessionInv'
    <3>1. history' # <<>> /\ OwnLinks' /\ WholeHistory' /\ CacheComplete'
      BY <1>1, <2>1, <2>2, <2>4, AdmittedSession
    <3>2. QED
      BY <1>1, <2>1, <3>1 DEF SessionInv
  <2>5. QED
    BY <1>2, <2>3, <2>4, AttemptCases
<1>3. ASSUME NEW name \in Guests, NEW spectator \in BOOLEAN, AddUser(name, spectator)
      PROVE  SessionInv'
  <2> DEFINE q == Participant(name, FALSE, spectator, TRUE)
             k == Len(players) + 1
  <2>1. q \in PlayerType /\ q.link = NoLink /\ q.myState = "unconnected"
    BY DEF Participant, PlayerType, States, Names
  <2>2. Entered(k, q)
    BY <1>1, <1>3, <2>1, AppendEntered DEF AddUser
  <2>3. k \in 1..(Len(players) + 1) /\ k \notin Numbers /\ NextNumber \in Nat
    BY <1>1, LenProperties DEF TypeOK, NextNumber, Numbers
  <2>4. Linked' = Linked \ {k} /\ \A m \in Numbers : m # k => players'[m] = players[m]
    <3> HIDE DEF q, k
    <3>1. Linked' = (Linked \ {k}) \cup (IF q.link # NoLink THEN {k} ELSE {})
          /\ \A m \in Numbers : m # k => players'[m] = players[m]
      BY <1>1, <2>1, <2>2, <2>3, EnteredFacts
    <3>2. QED
      BY <2>1, <3>1
  <2>5. \A m \in Linked' : m \in Linked /\ players'[m].link = players[m].link
    BY <2>4 DEF Linked
  <2>6. <<Msg("new", NextNumber)>> \in Seq(Packet)
    BY <2>3, MsgType DEF Kinds
  <2>7. QED
    BY <1>1, <1>3, <2>5, <2>6, BroadcastStep DEF AddUser
<1>4. ASSUME NEW n \in Numbers, PlayerName(n)
      PROVE  SessionInv'
  <2>1. players \in Seq(PlayerType) /\ players[n] \in PlayerType /\ n \in Nat
    BY <1>1, EntryTypes DEF TypeOK, PlayerType
  <2>2. Linked' = Linked /\ \A m \in Numbers : players'[m].link = players[m].link
    BY <1>4, <2>1 DEF PlayerName, Linked, Numbers, PlayerType
  <2>3. <<Msg("name", n)>> \in Seq(Packet)
    BY <2>1, MsgType DEF Kinds
  <2>4. \A m \in Linked' : m \in Linked /\ players'[m].link = players[m].link
    BY <2>2 DEF Linked
  <2>5. QED
    BY <1>1, <1>4, <2>3, <2>4, BroadcastStep DEF PlayerName
<1>5. ASSUME NEW n \in Numbers, Command(n)
      PROVE  SessionInv'
  <2>1. <<Msg("command", n)>> \in Seq(Packet)
    BY <1>1, EntryTypes, MsgType DEF Kinds
  <2>2. \A m \in Linked' : m \in Linked /\ players'[m].link = players[m].link
    BY <1>5 DEF Command, Linked, Numbers
  <2>3. QED
    BY <1>1, <1>5, <2>1, <2>2, BroadcastStep DEF Command
<1>6. ASSUME NEW n \in Numbers, Leave(n)
      PROVE  SessionInv'
  <2>1. /\ n \in Nat /\ n \in 1..(Len(players) + 1) /\ Killed(players[n]) \in PlayerType
        /\ Killed(players[n]).link = NoLink /\ Killed(players[n]).myState = "disconnected"
    BY <1>1, EntryTypes
  <2>2. Entered(n, Killed(players[n]))
    BY <1>1, <1>6, ExceptEntered DEF Leave
  <2>3. Linked' = Linked \ {n} /\ \A m \in Numbers : m # n => players'[m] = players[m]
    BY <1>1, <2>1, <2>2, EnteredFacts
  <2>4. \A m \in Linked' : m \in Linked /\ players'[m].link = players[m].link
    BY <2>3 DEF Linked
  <2>5. <<Msg("left", n)>> \in Seq(Packet)
    BY <2>1, MsgType DEF Kinds
  <2>6. QED
    BY <1>1, <1>6, <2>4, <2>5, BroadcastStep DEF Leave
<1>7. CASE StartGame
  <2>1. PICK packets \in Seq(Packet) :
          /\ history' = history \o packets
          /\ packetCache' = (IF canReconnect \/ AllowSpecJoin THEN packetCache \o packets ELSE <<>>)
          /\ \A n \in Linked : out'[players[n].link] = out[players[n].link] \o packets
    BY <1>1, <1>7, StartGameFacts
  <2>2. /\ ~gameHasStarted /\ gameHasStarted' /\ UNCHANGED <<players, canReconnect, settings>>
        /\ accepting' = (accepting /\ (canReconnect \/ AllowSpecJoin))
    BY <1>7 DEF StartGame, Accepts
  <2>3. \A n \in Linked' : n \in Linked /\ players'[n].link = players[n].link
    BY <2>2 DEF Linked, Numbers
  <2>4. history' # <<>> /\ OwnLinks' /\ WholeHistory'
    BY <2>1, <2>3, EveryoneHears
  <2>5. accepting /\ (accepting <=> Caching(canReconnect))'
    BY <2>2 DEF SessionInv, Caching, AllowSpecJoin
  <2>6. CacheComplete'
    BY <2>1, <2>2, <2>5 DEF SessionInv, CacheComplete
  <2>7. QED
    BY <1>1, <2>4, <2>5, <2>6 DEF SessionInv
<1>8. CASE PostLoad
  <2>1. AllowSpecJoin
    BY <1>1, <1>8 DEF PostLoad, SavedGame, AllowSpecJoin, TypeOK, FlagsOK
  <2>2. /\ UNCHANGED <<players, out, unmuted, packetCache, history, canReconnect, accepting>>
        /\ UNCHANGED settings
    BY <1>8 DEF PostLoad
  <2>3. (accepting <=> Caching(canReconnect))'
    BY <2>1, <2>2 DEF SessionInv, Caching, AllowSpecJoin
  <2>4. QED
    BY <1>1, <2>2, <2>3
       DEF SessionInv, OwnLinks, Linked, Numbers, CacheComplete, WholeHistory
<1>9. CASE CreateNewFrame
  <2>1. <<Msg("frame", 0)>> \in Seq(Packet)
    BY MsgType DEF Kinds
  <2>2. \A m \in Linked' : m \in Linked /\ players'[m].link = players[m].link
    BY <1>9 DEF CreateNewFrame, Linked, Numbers
  <2>3. QED
    BY <1>1, <1>9, <2>1, <2>2, BroadcastStep DEF CreateNewFrame
<1>10. CASE UNCHANGED vars
  BY <1>1, <1>10 DEF vars, flags, SessionInv, OwnLinks, Linked, Numbers, CacheComplete,
                     WholeHistory, Caching, AllowSpecJoin
<1>11. QED
  BY <1>2, <1>3, <1>4, <1>5, <1>6, <1>7, <1>8, <1>9, <1>10 DEF Next

\* Packets are cached exactly as long as the listener is open, the cache is complete
\* until then, and no two participants share a link (Broadcast, StartGame, BindConnection).
THEOREM SessionInvariance ==
  ASSUME \A s \in Servers : s.saved => s.specJoin
  PROVE  Spec => []SessionInv
<1>1. Init => SessionInv
  BY InitSession
<1>2. SessionInv /\ [Next]_vars => SessionInv'
  BY NextSession
<1>3. QED
  BY <1>1, <1>2, PTL DEF Spec

\* Whoever has a link was sent all that was ever broadcast, in order, however
\* late it joined (BindConnection, Broadcast), unless a saved game is loaded by
\* a server that lets no spectators join.
THEOREM NobodyMissesAnything ==
  ASSUME \A s \in Servers : s.saved => s.specJoin
  PROVE  Spec => []WholeHistory
<1>1. SessionInv => WholeHistory
  BY DEF SessionInv
<1>2. QED
  BY <1>1, SessionInvariance, PTL

\* The cache is given up only together with the listener (StartGame).
THEOREM CacheIsKept ==
  ASSUME \A s \in Servers : s.saved => s.specJoin
  PROVE  Spec => []CacheComplete
<1>1. SessionInv => CacheComplete
  BY DEF SessionInv
<1>2. QED
  BY <1>1, SessionInvariance, PTL

-----------------------------------------------------------------------------
(* What the broadcasts tell about who is in the game *)

\* In s, the last arrival of n is not followed by a departure.
Arrived(n, s) ==
  \E i \in 1..Len(s) : s[i] = Msg("name", n) /\ \A j \in i..Len(s) : s[j] # Msg("left", n)

Departs(n, s) == \E i \in 1..Len(s) : s[i] = Msg("left", n)

LEMMA ArrivedConcat ==
  ASSUME NEW n, NEW s \in Seq(Packet), NEW t \in Seq(Packet)
  PROVE  Arrived(n, s \o t) <=> Arrived(n, t) \/ (Arrived(n, s) /\ ~Departs(n, t))
<1>1. /\ Len(s) \in Nat /\ Len(t) \in Nat /\ Len(s \o t) = Len(s) + Len(t)
      /\ \A i \in 1..(Len(s) + Len(t)) :
           (s \o t)[i] = IF i <= Len(s) THEN s[i] ELSE t[i - Len(s)]
  BY LenProperties, ConcatProperties
<1>2. \A i \in 1..Len(t) : Len(s) + i \in 1..(Len(s) + Len(t)) /\ (s \o t)[Len(s) + i] = t[i]
  BY <1>1
<1>3. \A i \in 1..Len(s) : i \in 1..(Len(s) + Len(t)) /\ (s \o t)[i] = s[i]
  BY <1>1
<1>4. ASSUME Arrived(n, t) PROVE Arrived(n, s \o t)
  <2>1. PICK i \in 1..Len(t) : t[i] = Msg("name", n) /\ \A j \in i..Len(t) : t[j] # Msg("left", n)
    BY <1>4 DEF Arrived
  <2>2. ASSUME NEW j \in (Len(s) + i)..(Len(s) + Len(t)) PROVE (s \o t)[j] # Msg("left", n)
    <3>1. j - Len(s) \in i..Len(t) /\ j \in 1..(Len(s) + Len(t)) /\ ~(j <= Len(s))
      BY <1>1, <2>1
    <3>2. QED
      BY <1>1, <2>1, <3>1
  <2>3. QED
    BY <1>1, <1>2, <2>1, <2>2 DEF Arrived
<1>5. ASSUME Arrived(n, s), ~Departs(n, t) PROVE Arrived(n, s \o t)
  <2>1. PICK i \in 1..Len(s) : s[i] = Msg("name", n) /\ \A j \in i..Len(s) : s[j] # Msg("left", n)
    BY <1>5 DEF Arrived
  <2>2. ASSUME NEW j \in i..(Len(s) + Len(t)) PROVE (s \o t)[j] # Msg("left", n)
    <3>1. CASE j <= Len(s)
      BY <1>1, <2>1, <3>1
    <3>2. CASE ~(j <= Len(s))
      <4>1. j - Len(s) \in 1..Len(t) /\ j \in 1..(Len(s) + Len(t))
        BY <1>1, <2>1, <3>2
      <4>2. QED
        BY <1>1, <1>5, <3>2, <4>1 DEF Departs
    <3>3. QED
      BY <3>1, <3>2
  <2>3. QED
    BY <1>1, <1>3, <2>1, <2>2 DEF Arrived
<1>6. ASSUME Arrived(n, s \o t), ~Arrived(n, t)
      PROVE  Arrived(n, s) /\ ~Departs(n, t)
  <2>1. PICK i \in 1..(Len(s) + Len(t)) :
          /\ (s \o t)[i] = Msg("name", n)
          /\ \A j \in i..(Len(s) + Len(t)) : (s \o t)[j] # Msg("left", n)
    BY <1>1, <1>6 DEF Arrived
  <2>2. i <= Len(s)
    <3>1. SUFFICES ASSUME ~(i <= Len(s)) PROVE FALSE
      OBVIOUS
    <3>2. i - Len(s) \in 1..Len(t) /\ t[i - Len(s)] = Msg("name", n)
      BY <1>1, <2>1, <3>1
    <3>3. ASSUME NEW j \in (i - Len(s))..Len(t) PROVE t[j] # Msg("left", n)
      <4>1. Len(s) + j \in i..(Len(s) + Len(t)) /\ j \in 1..Len(t)
        BY <1>1, <2>1, <3>1
      <4>2. QED
        BY <1>2, <2>1, <4>1
    <3>4. QED
      BY <1>6, <3>2, <3>3 DEF Arrived
  <2>3. Arrived(n, s)
    <3>1. i \in 1..Len(s) /\ s[i] = Msg("name", n)
      BY <1>1, <2>1, <2>2
    <3>2. ASSUME NEW j \in i..Len(s) PROVE s[j] # Msg("left", n)
      BY <1>1, <1>3, <2>1, <3>1
    <3>3. QED
      BY <3>1, <3>2 DEF Arrived
  <2>4. ASSUME NEW j \in 1..Len(t) PROVE t[j] # Msg("left", n)
    <3>1. Len(s) + j \in i..(Len(s) + Len(t))
      BY <1>1, <2>1, <2>2
    <3>2. QED
      BY <1>2, <2>1, <3>1
  <2>5. QED
    BY <2>3, <2>4 DEF Departs
<1>7. QED
  BY <1>4, <1>5, <1>6

\* The broadcasts name nobody who is not there: a number is given only once, so
\* that nothing in the history is about the next one.
NamesKnown ==
  \A i \in 1..Len(history) : history[i].kind = "name" => history[i].who \in Numbers

RosterInv == TypeOK /\ RosterAnnounced /\ NamesKnown

\* What a step has to do for the broadcasts to stay true.
LEMMA RosterStep ==
  ASSUME RosterInv, TypeOK', NEW packets \in Seq(Packet), history' = history \o packets,
         Numbers \subseteq Numbers',
         \A i \in 1..Len(packets) : packets[i].kind = "name" => packets[i].who \in Numbers',
         \A n \in Numbers' :
           players'[n].myState = "ingame" <=>
             \/ Arrived(n, packets)
             \/ n \in Numbers /\ players[n].myState = "ingame" /\ ~Departs(n, packets)
  PROVE  RosterInv'
<1>1. history \in Seq(Packet) /\ TypeOK
  BY DEF RosterInv, TypeOK
<1>2. /\ Len(history) \in Nat /\ Len(packets) \in Nat /\ Len(history') = Len(history) + Len(packets)
      /\ \A i \in 1..(Len(history) + Len(packets)) :
           history'[i] = IF i <= Len(history) THEN history[i] ELSE packets[i - Len(history)]
  BY <1>1, LenProperties, ConcatProperties
<1>3. NamesKnown'
  <2>1. SUFFICES ASSUME NEW i \in 1..(Len(history) + Len(packets)), history'[i].kind = "name"
                 PROVE  history'[i].who \in Numbers'
    BY <1>2 DEF NamesKnown
  <2>2. CASE i <= Len(history)
    BY <1>2, <2>1, <2>2 DEF RosterInv, NamesKnown
  <2>3. CASE ~(i <= Len(history))
    <3>1. i - Len(history) \in 1..Len(packets) /\ history'[i] = packets[i - Len(history)]
      BY <1>2, <2>3
    <3>2. QED
      BY <2>1, <3>1
  <2>4. QED
    BY <2>2, <2>3
<1>4. ASSUME NEW n \in Numbers'
      PROVE  players'[n].myState = "ingame" <=> InGame(n)'
  <2>1. InGame(n)' <=> Arrived(n, packets) \/ (Arrived(n, history) /\ ~Departs(n, packets))
    <3>1. InGame(n)' <=> Arrived(n, history')
      BY DEF InGame, Arrived
    <3>2. QED
      BY <1>1, <3>1, ArrivedConcat
  <2>2. Arrived(n, history) <=> n \in Numbers /\ players[n].myState = "ingame"
    <3>1. CASE n \in Numbers
      <4>1. Arrived(n, history) <=> InGame(n)
        BY DEF InGame, Arrived
      <4>2. QED
        BY <3>1, <4>1 DEF RosterInv, RosterAnnounced
    <3>2. CASE n \notin Numbers
      BY <3>2 DEF RosterInv, NamesKnown, Arrived, Msg
    <3>3. QED
      BY <3>1, <3>2
  <2>3. QED
    BY <2>1, <2>2
<1>5. QED
  BY <1>3, <1>4 DEF RosterInv, RosterAnnounced

\* Packets that are not about arrivals or departures.
LEMMA QuietPackets ==
  ASSUME NEW packets, \A i \in 1..Len(packets) : packets[i].kind \notin {"name", "left"}
  PROVE  \A n : ~Arrived(n, packets) /\ ~Departs(n, packets)
BY DEF Arrived, Departs, Msg

LEMMA QuietStep ==
  ASSUME RosterInv, TypeOK', NEW packets \in Seq(Packet), history' = history \o packets,
         \A i \in 1..Len(packets) : packets[i].kind \notin {"name", "left"},
         UNCHANGED players
  PROVE  RosterInv'
<1>1. Numbers' = Numbers
  BY DEF Numbers
<1>2. \A n : ~Arrived(n, packets) /\ ~Departs(n, packets)
  BY QuietPackets
<1>3. QED
  BY <1>1, <1>2, RosterStep

LEMMA InitRoster == Init => RosterInv
<1> SUFFICES ASSUME Init PROVE RosterInv
  OBVIOUS
<1>1. TypeOK
  BY InitTypeOK
<1>2. Len(players) = Len(Listed) /\ \A n \in 1..Len(Listed) : players[n].myState = "unconnected"
  <2>1. Len(Listed) \in Nat /\ \A n \in 1..Len(Listed) : Listed[n] \in Names
    BY NamesAssumption, LenProperties DEF Names
  <2>2. players \in [1..Len(Listed) -> PlayerType]
    BY <2>1 DEF Init, Participant, PlayerType, States
  <2>3. Len(players) = Len(Listed)
    BY <2>1, <2>2, FunctionIsSeq
  <2>4. ASSUME NEW n \in 1..Len(Listed) PROVE players[n].myState = "unconnected"
    <3>1. players[n] = Participant(Listed[n], FALSE, Listed[n] \notin Playing, FALSE)
      BY DEF Init
    <3>2. QED
      BY <3>1 DEF Participant
  <2>5. QED
    BY <2>3, <2>4
<1>3. Len(history) = 1 /\ history[1].kind = "seed"
  BY DEF Init, Msg
<1>4. \A n : ~InGame(n)
  BY <1>3 DEF InGame, Msg
<1>5. NamesKnown
  BY <1>3 DEF NamesKnown
<1>6. QED
  BY <1>1, <1>2, <1>4, <1>5 DEF RosterInv, RosterAnnounced, Numbers

\* Who takes the place of a participant in the game makes him leave first.
LEMMA AdmittedPackets ==
  ASSUME TypeOK, NEW l, NEW name, NEW reconnect, NEW stale, NEW n \in Nat, NEW p, NEW announced,
         AdmittedAs(l, name, reconnect, stale, n, p, announced)
  PROVE  /\ \A i \in 1..Len(announced \o Join(n, p)) :
              (announced \o Join(n, p))[i] \in {Msg("new", n), Msg("left", n), Msg("join", n)}
         /\ n \in Numbers /\ players[n].myState = "ingame" => Departs(n, announced \o Join(n, p))
<1>1. announced \in {<<Msg("new", n)>>, <<Msg("left", n)>>, <<>>}
  BY DEF AdmittedAs, Farewell, NextNumber
<1>2. Join(n, p) \in {<<Msg("join", n)>>, <<>>}
  BY DEF Join
<1>3. \A i \in 1..Len(announced \o Join(n, p)) :
        (announced \o Join(n, p))[i] \in {Msg("new", n), Msg("left", n), Msg("join", n)}
  BY <1>1, <1>2
<1>4. ASSUME n \in Numbers, players[n].myState = "ingame"
      PROVE  Departs(n, announced \o Join(n, p))
  <2>1. players[n].link # NoLink /\ n # NextNumber
    <3>1. n \in Linked
      BY <1>4 DEF TypeOK
    <3>2. Len(players) \in Nat
      BY LenProperties DEF TypeOK
    <3>3. QED
      BY <1>4, <3>1, <3>2 DEF Linked, Numbers, NextNumber
  <2>2. announced = <<Msg("left", n)>>
    BY <2>1 DEF AdmittedAs, Farewell
  <2>3. 1 \in 1..Len(announced \o Join(n, p)) /\ (announced \o Join(n, p))[1] = Msg("left", n)
    BY <1>2, <2>2
  <2>4. QED
    BY <2>3 DEF Departs
<1>5. QED
  BY <1>3, <1>4

LEMMA AdmittedRoster ==
  ASSUME RosterInv, TypeOK', NEW l \in Links, NEW name \in Names, NEW reconnect, NEW stale,
         NEW n, NEW p, NEW announced,
         AdmittedAs(l, name, reconnect, stale, n, p, announced), Bind(n, p, l, announced, reconnect)
  PROVE  RosterInv'
<1> DEFINE packets == announced \o Join(n, p)
           q == Bound(p, l)
<1>1. TypeOK
  BY DEF RosterInv
<1>2. n \in 1..(Len(players) + 1) /\ n \in Nat /\ p \in PlayerType /\ announced \in Seq(Packet)
  <2>1. n \in 1..(Len(players) + 1) /\ p \in PlayerType /\ announced \in Seq(Packet)
    BY <1>1, AdmittedTypes
  <2>2. QED
    BY <1>1, <2>1, LenProperties DEF TypeOK
<1>3. /\ q \in PlayerType /\ q.link = l /\ q.myState = "connected" /\ Entered(n, q)
      /\ packets \in Seq(Packet) /\ Record(packets, Reconnects(l))
  BY <1>1, <1>2, BindFacts
<1>4. history' = history \o packets
  BY <1>3 DEF Record
<1>5. /\ \A i \in 1..Len(packets) : packets[i] \in {Msg("new", n), Msg("left", n), Msg("join", n)}
      /\ n \in Numbers /\ players[n].myState = "ingame" => Departs(n, packets)
  BY <1>1, <1>2, AdmittedPackets
<1>6. /\ Numbers' = Numbers \cup {n} /\ players'[n].myState = "connected"
      /\ \A m \in Numbers : m # n => players'[m] = players[m]
  <2> HIDE DEF q
  <2>1. l # NoLink
    BY NamesAssumption
  <2>2. QED
    BY <1>1, <1>2, <1>3, <2>1, EnteredFacts
<1> HIDE DEF packets
<1>7. \A i \in 1..Len(packets) : packets[i].kind # "name"
  BY <1>5 DEF Msg
<1>8. \A m : ~Arrived(m, packets) /\ (m # n => ~Departs(m, packets))
  BY <1>5, <1>7 DEF Arrived, Departs, Msg
<1>9. QED
  BY <1>3, <1>4, <1>5, <1>6, <1>7, <1>8, RosterStep

LEMMA NextRoster == RosterInv /\ [Next]_vars => RosterInv'
<1> SUFFICES ASSUME RosterInv, [Next]_vars PROVE RosterInv'
  OBVIOUS
<1>1. TypeOK /\ TypeOK'
  BY NextTypeOK DEF RosterInv
<1>2. ASSUME UNCHANGED <<players, history>> PROVE RosterInv'
  BY <1>1, <1>2 DEF RosterInv, RosterAnnounced, InGame, NamesKnown, Numbers
<1>3. ASSUME NEW l \in Links, NEW name \in Names, NEW reconnect \in BOOLEAN,
             NEW stale \in BOOLEAN, Attempt(l, name, reconnect, stale)
      PROVE  RosterInv'
  BY <1>1, <1>2, <1>3, AttemptCases, AdmittedRoster
<1>4. ASSUME NEW name \in Guests, NEW spectator \in BOOLEAN, AddUser(name, spectator)
      PROVE  RosterInv'
  <2> DEFINE q == Participant(name, FALSE, spectator, TRUE)
             k == Len(players) + 1
             packets == <<Msg("new", NextNumber)>>
  <2>1. q \in PlayerType /\ q.link = NoLink /\ q.myState = "unconnected"
    BY DEF Participant, PlayerType, States, Names
  <2>2. Entered(k, q)
    BY <1>1, <1>4, <2>1, AppendEntered DEF AddUser
  <2>3. k \in 1..(Len(players) + 1) /\ k \notin Numbers /\ NextNumber \in Nat
    BY <1>1, LenProperties DEF TypeOK, NextNumber, Numbers
  <2>4. /\ Numbers' = Numbers \cup {k} /\ players'[k].myState = "unconnected"
        /\ \A m \in Numbers : players'[m] = players[m]
    <3> HIDE DEF q, k
    <3>1. QED
      BY <1>1, <2>1, <2>2, <2>3, EnteredFacts
  <2>5. packets \in Seq(Packet) /\ history' = history \o packets
    BY <1>4, <2>3, MsgType DEF Kinds, AddUser, Broadcast, Record
  <2>6. \A i \in 1..Len(packets) : packets[i].kind \notin {"name", "left"}
    BY DEF Msg
  <2> HIDE DEF packets, k
  <2>7. \A n : ~Arrived(n, packets) /\ ~Departs(n, packets)
    BY <2>6, QuietPackets
  <2>8. QED
    BY <1>1, <2>3, <2>4, <2>5, <2>6, <2>7, RosterStep
<1>5. ASSUME NEW n \in Numbers, PlayerName(n)
      PROVE  RosterInv'
  <2> DEFINE packets == <<Msg("name", n)>>
  <2>1. players \in Seq(PlayerType) /\ players[n] \in PlayerType /\ n \in Nat
    BY <1>1, EntryTypes DEF TypeOK, PlayerType
  <2>2. /\ Numbers' = Numbers /\ players'[n].myState = "ingame"
        /\ \A m \in Numbers : m # n => players'[m] = players[m]
    BY <1>5, <2>1 DEF PlayerName, Numbers, PlayerType
  <2>3. packets \in Seq(Packet) /\ history' = history \o packets
    BY <1>5, <2>1, MsgType DEF Kinds, PlayerName, Broadcast, Record
  <2>4. Len(packets) = 1 /\ packets[1] = Msg("name", n) /\ packets[1].who = n
    BY DEF Msg
  <2> HIDE DEF packets
  <2>5. Arrived(n, packets) /\ \A m : m # n => ~Arrived(m, packets) /\ ~Departs(m, packets)
    BY <2>4 DEF Arrived, Departs, Msg
  <2>6. \A i \in 1..Len(packets) : packets[i].kind = "name" => packets[i].who \in Numbers'
    BY <2>2, <2>4
  <2>7. QED
    BY <1>1, <2>2, <2>3, <2>5, <2>6, RosterStep
<1>6. ASSUME NEW n \in Numbers, Command(n)
      PROVE  RosterInv'
  <2>1. <<Msg("command", n)>> \in Seq(Packet)
    BY <1>1, EntryTypes, MsgType DEF Kinds
  <2>2. \A i \in 1..Len(<<Msg("command", n)>>) : <<Msg("command", n)>>[i].kind \notin {"name", "left"}
    BY DEF Msg
  <2>3. QED
    BY <1>1, <1>6, <2>1, <2>2, QuietStep DEF Command, Broadcast, Record
<1>7. ASSUME NEW n \in Numbers, Leave(n)
      PROVE  RosterInv'
  <2> DEFINE packets == <<Msg("left", n)>>
  <2>1. /\ n \in Nat /\ n \in 1..(Len(players) + 1) /\ Killed(players[n]) \in PlayerType
        /\ Killed(players[n]).link = NoLink /\ Killed(players[n]).myState = "disconnected"
    BY <1>1, EntryTypes
  <2>2. Entered(n, Killed(players[n]))
    BY <1>1, <1>7, ExceptEntered DEF Leave
  <2>3. /\ Numbers' = Numbers /\ players'[n].myState = "disconnected"
        /\ \A m \in Numbers : m # n => players'[m] = players[m]
    <3>1. Numbers' = Numbers \cup {n} /\ players'[n] = Killed(players[n])
          /\ \A m \in Numbers : m # n => players'[m] = players[m]
      BY <1>1, <2>1, <2>2, EnteredFacts
    <3>2. QED
      BY <2>1, <3>1
  <2>4. packets \in Seq(Packet) /\ history' = history \o packets
    BY <1>7, <2>1, MsgType DEF Kinds, Leave, Broadcast, Record
  <2>5. Len(packets) = 1 /\ packets[1] = Msg("left", n)
    OBVIOUS
  <2> HIDE DEF packets
  <2>6. /\ \A m : ~Arrived(m, packets) /\ (m # n => ~Departs(m, packets))
        /\ Departs(n, packets)
        /\ \A i \in 1..Len(packets) : packets[i].kind # "name"
    BY <2>5 DEF Arrived, Departs, Msg
  <2>7. QED
    BY <1>1, <2>3, <2>4, <2>6, RosterStep
<1>8. CASE StartGame
  <2>1. Msg("start", 0) \in Packet /\ Msg("frame", 0) \in Packet
    BY DEF Msg, Packet, Kinds
  <2>2. PICK packets \in {<<Msg("start", 0)>>, <<Msg("start", 0), Msg("frame", 0)>>} :
          history' = history \o packets /\ UNCHANGED players
    BY <1>8 DEF StartGame
  <2>3. packets \in Seq(Packet) /\ \A i \in 1..Len(packets) : packets[i].kind \notin {"name", "left"}
    BY <2>1, <2>2 DEF Msg
  <2>4. QED
    BY <1>1, <2>2, <2>3, QuietStep
<1>9. CASE CreateNewFrame
  <2>1. <<Msg("frame", 0)>> \in Seq(Packet)
    BY MsgType DEF Kinds
  <2>2. \A i \in 1..Len(<<Msg("frame", 0)>>) : <<Msg("frame", 0)>>[i].kind \notin {"name", "left"}
    BY DEF Msg
  <2>3. QED
    BY <1>1, <1>9, <2>1, <2>2, QuietStep DEF CreateNewFrame, Broadcast, Record
<1>10. CASE PostLoad \/ UNCHANGED vars
  BY <1>2, <1>10 DEF PostLoad, vars
<1>11. QED
  BY <1>3, <1>4, <1>5, <1>6, <1>7, <1>8, <1>9, <1>10 DEF Next

\* The broadcasts tell who is in the game: every participant who is has arrived and
\* not left, as everybody was sent it, and nobody else (BindConnection 2948-2959,
\* PLAYERNAME 1105, Kill and its announcements).
THEOREM BroadcastsTellTheRoster == Spec => []RosterAnnounced
<1>1. Init => RosterInv
  BY InitRoster
<1>2. RosterInv /\ [Next]_vars => RosterInv'
  BY NextRoster
<1>3. RosterInv => RosterAnnounced
  BY DEF RosterInv
<1>4. QED
  BY <1>1, <1>2, <1>3, PTL DEF Spec

=============================================================================
