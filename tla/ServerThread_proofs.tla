------------------------ MODULE ServerThread_proofs ------------------------
(***************************************************************************)
(* For any clients, addresses and connections, and any datagrams: the      *)
(* thread with its socket implements the one whose clients come and go,    *)
(* and the socket leads to the connections that clients have.              *)
(***************************************************************************)
EXTENDS ServerThread, SequenceTheorems, TLAPS

-----------------------------------------------------------------------------
(* The server thread of ServerShutdown does not leave its loop without a reason *)

Told == killed \/ owner # "uses"

\* quitServer is only up for a reason: while the thread reads the net, where
\* clients may connect, the reason is not that nobody was there
Reasons ==
  /\ quitServer => (linked = {} /\ pc \notin {"read", "update", "check"}) \/ Told
  /\ (pc = "write" /\ quit) => linked = {} \/ Told
  /\ NobodyIsThrownOut

Inv == TypeOK /\ Reasons

LEMMA Initially == Init => Inv
BY DEF Init, Inv, TypeOK, Reasons, NobodyIsThrownOut, Told

LEMMA ThreadStep == Inv /\ Thread => Inv'
<1> SUFFICES ASSUME Inv, Thread PROVE Inv'
  OBVIOUS
<1> USE DEF Inv, TypeOK, Reasons, NobodyIsThrownOut, Told, game
<1>1. CASE Test
  BY <1>1 DEF Test
<1>2. CASE ServerReadNet
  BY <1>2 DEF ServerReadNet
<1>3. CASE Update
  <2>1. CASE killed' = killed
    <3>1. quitServer' = (quitServer \/ FALSE)
      BY <1>3, <2>1 DEF Update
    <3> QED
      BY <1>3, <2>1, <3>1 DEF Update
  <2>2. CASE killed' = TRUE
    <3>1. quitServer' \in BOOLEAN
      BY <1>3 DEF Update
    <3> QED
      BY <1>3, <2>2, <3>1 DEF Update
  <2> QED
    BY <1>3, <2>1, <2>2 DEF Update
<1>4. CASE ReadQuit
  BY <1>4 DEF ReadQuit, QuitValue, CanCheckForPlayers
<1>5. CASE WriteQuit
  BY <1>5 DEF WriteQuit
<1>6. CASE Leave
  BY <1>6 DEF Leave
<1> QED
  BY <1>1, <1>2, <1>3, <1>4, <1>5, <1>6 DEF Thread

LEMMA Step == Inv /\ [Next]_vars => Inv'
<1> SUFFICES ASSUME Inv, [Next]_vars PROVE Inv'
  OBVIOUS
<1>1. CASE Thread
  BY <1>1, ThreadStep
<1> USE DEF Inv, TypeOK, Reasons, NobodyIsThrownOut, Told, game
<1>2. CASE Destroy
  BY <1>2 DEF Destroy
<1>3. CASE Join
  BY <1>3 DEF Join
<1>4. CASE PregameTimeout
  BY <1>4 DEF PregameTimeout
<1>5. CASE UNCHANGED vars
  BY <1>5 DEF vars
<1> QED
  BY <1>1, <1>2, <1>3, <1>4, <1>5 DEF Next

\* For any set of clients: the variables have their types (the threads of
\* CGameServer::UpdateLoop and ~CGameServer).
THEOREM TypeCorrect == Spec => []TypeOK
<1>1. Inv => TypeOK
  BY DEF Inv
<1> QED
  BY <1>1, Initially, Step, PTL DEF Spec

\* For any set of clients: the loop of UpdateLoop is left with clients connected
\* only when the server was told to end or its owner gives it up.
THEOREM LeavesForAReason == Spec => []NobodyIsThrownOut
<1>1. Inv => NobodyIsThrownOut
  BY DEF Inv, Reasons
<1> QED
  BY <1>1, Initially, Step, PTL DEF Spec

-----------------------------------------------------------------------------
(* The composition implements ServerShutdown *)

LEMMA ThreadInitially == ThreadInit => Init
BY DEF ThreadInit

LEMMA ThreadStepImplements == [ThreadNext]_all => [Next]_vars
<1> SUFFICES ASSUME [ThreadNext]_all PROVE Next \/ UNCHANGED vars
  OBVIOUS
<1> USE DEF Next, Thread
<1>1. CASE Listen
  BY <1>1 DEF Listen
<1>2. CASE Attempt
  BY <1>2 DEF Attempt
<1>3. CASE Links
  <2>1. linked' \in SUBSET Clients
    BY <1>3 DEF Links
  <2> QED
    BY <1>3, <2>1 DEF Links, ServerReadNet
<1>4. CASE UpdateGame
  BY <1>4 DEF UpdateGame
<1>5. CASE (Test \/ ReadQuit \/ WriteQuit \/ Leave) /\ UNCHANGED Rest
  BY <1>5
<1>6. CASE Network \/ Time
  BY <1>6 DEF Network, Time
<1>7. CASE (Destroy \/ Join \/ PregameTimeout) /\ UNCHANGED Rest
  BY <1>7
<1>8. CASE UNCHANGED all
  BY <1>8 DEF all
<1> QED
  BY <1>1, <1>2, <1>3, <1>4, <1>5, <1>6, <1>7, <1>8 DEF ThreadNext, ServerLoop

\* For any clients, addresses and connections: the thread with its socket
\* (UpdateLoop, HandleConnectionAttempts, ServerReadNet) does what ServerShutdown
\* says of it, whose clients come and go as they please.
THEOREM ImplementsShutdown == ThreadSpec => Init /\ [][Next]_vars
BY ThreadInitially, ThreadStepImplements, PTL DEF ThreadSpec

\* ... so with the socket, too, clients are left behind only when the server was
\* told to end or its owner gives it up.
THEOREM NobodyThrownOut == ThreadSpec => []NobodyIsThrownOut
<1>1. Inv => NobodyIsThrownOut
  BY DEF Inv, Reasons
<1> QED
  BY <1>1, Initially, Step, ImplementsShutdown, PTL

-----------------------------------------------------------------------------
(* Who has which connection *)

Waits(c) == \E i \in DOMAIN waiting : waiting[i] = c
Linked(c) == \E p \in Clients : clientLink[p] = c

Types ==
  /\ connMap \in [Addresses -> Connections \cup {None, Expired}]
  /\ endpoint \in [Connections -> Addresses \cup {None}]
  /\ waiting \in Seq(Connections)
  /\ clientLink \in [Clients -> Connections \cup {None}]
  /\ available \subseteq Datagrams

\* nobody shares a connection, and none is both new and somebody's
OneEach ==
  /\ \A p, q \in Clients : clientLink[p] = clientLink[q] /\ clientLink[p] # None => p = q
  /\ \A i, j \in DOMAIN waiting : waiting[i] = waiting[j] => i = j
  /\ \A c \in Connections : ~(Waits(c) /\ Linked(c))

Owned == \A c \in Connections : Alive(c) <=> Waits(c) \/ Linked(c)

\* the socket finds a connection under its address, and there only
Found == \A c \in Connections, a \in Addresses : connMap[a] = c <=> Alive(c) /\ endpoint[c] = a

HeardInv == Types /\ OneEach /\ Owned /\ Found

LEMMA HeardSays == HeardInv => EveryLinkIsHeard
BY DEF HeardInv, Owned, Found, Waits, Linked, EveryLinkIsHeard

LEMMA ThingsDiffer ==
  /\ None \notin Connections /\ Expired \notin Connections
  /\ None \notin Addresses
BY ListenerAssumption DEF ListenerAssumption

LEMMA HeardInitially == ThreadInit => HeardInv
<1> SUFFICES ASSUME ThreadInit PROVE HeardInv
  OBVIOUS
<1> USE ThingsDiffer DEF ThreadInit, ListenerInit
<1>1. DOMAIN waiting = {} /\ waiting \in Seq(Connections)
  OBVIOUS
<1>2. Types
  BY <1>1 DEF Types
<1>3. \A c \in Connections : ~Waits(c) /\ ~Linked(c) /\ ~Alive(c)
  BY <1>1 DEF Waits, Linked, Alive
<1>4. OneEach
  BY <1>1, <1>3 DEF OneEach
<1> QED
  BY <1>2, <1>3, <1>4 DEF HeardInv, Owned, Found

-----------------------------------------------------------------------------
(* Giving up connections *)

\* Those of S are nobody's any more, and the others are whose they were
LEMMA GivingUpKeepsFound ==
  ASSUME Types, Found, NEW S \in SUBSET Connections,
         connMap' = Released(connMap, S), endpoint' = Gone(endpoint, S, None)
  PROVE  /\ connMap' \in [Addresses -> Connections \cup {None, Expired}]
         /\ endpoint' \in [Connections -> Addresses \cup {None}]
         /\ Found'
         /\ \A c \in Connections : Alive(c)' <=> Alive(c) /\ c \notin S
<1> USE ThingsDiffer DEF Types
<1>1. \A a \in Addresses : connMap'[a] = IF connMap[a] \in S THEN Expired ELSE connMap[a]
  BY DEF Released
<1>2. \A c \in Connections : endpoint'[c] = IF c \in S THEN None ELSE endpoint[c]
  BY DEF Gone
<1>3. \A c \in Connections : Alive(c)' <=> Alive(c) /\ c \notin S
  BY <1>2 DEF Alive
<1>4. connMap' \in [Addresses -> Connections \cup {None, Expired}]
  BY DEF Released
<1>5. endpoint' \in [Connections -> Addresses \cup {None}]
  BY DEF Gone
<1>6. Found'
  <2> SUFFICES ASSUME NEW c \in Connections, NEW a \in Addresses
               PROVE  connMap'[a] = c <=> Alive(c)' /\ endpoint'[c] = a
    BY DEF Found
  <2>1. connMap[a] = c <=> Alive(c) /\ endpoint[c] = a
    BY DEF Found
  <2> QED
    BY <1>1, <1>2, <1>3, <2>1
<1> QED
  BY <1>3, <1>4, <1>5, <1>6

\* An entry of the map that is none, or expired, does not matter
LEMMA OtherEntries ==
  ASSUME Types, Found, UNCHANGED endpoint,
         connMap' \in [Addresses -> Connections \cup {None, Expired}],
         \A a \in Addresses, c \in Connections : connMap'[a] = c <=> connMap[a] = c
  PROVE  Found'
BY DEF Found, Alive

LEMMA Unchanged ==
  HeardInv /\ UNCHANGED <<connMap, endpoint, waiting, clientLink>>
    /\ available' \subseteq Datagrams => HeardInv'
BY DEF HeardInv, Types, OneEach, Owned, Found, Waits, Linked, Alive

\* The connection a waiting client has is taken off the queue
LEMMA TakingOff ==
  ASSUME Types, OneEach, waiting # <<>>, waiting' = Tail(waiting)
  PROVE  /\ Head(waiting) \in Connections
         /\ waiting' \in Seq(Connections)
         /\ Waits(Head(waiting))
         /\ \A c \in Connections : Waits(c)' <=> Waits(c) /\ c # Head(waiting)
         /\ \A i, j \in DOMAIN waiting' : waiting'[i] = waiting'[j] => i = j
<1> USE DEF Types
<1>1. /\ Len(waiting) \in Nat \ {0} /\ DOMAIN waiting = 1..Len(waiting)
      /\ Head(waiting) = waiting[1] /\ Head(waiting) \in Connections
  BY EmptySeq, LenProperties, HeadTailProperties
<1>2. /\ waiting' \in Seq(Connections)
      /\ DOMAIN waiting' = 1..(Len(waiting) - 1)
      /\ \A i \in 1..(Len(waiting) - 1) : waiting'[i] = waiting[i + 1]
  BY <1>1, HeadTailProperties, LenProperties
<1>3. \A i, j \in DOMAIN waiting : waiting[i] = waiting[j] => i = j
  BY DEF OneEach
<1>4. \A c \in Connections : Waits(c)' <=> Waits(c) /\ c # Head(waiting)
  <2> SUFFICES ASSUME NEW c \in Connections
               PROVE  Waits(c)' <=> Waits(c) /\ c # Head(waiting)
    OBVIOUS
  <2>1. ASSUME Waits(c)' PROVE Waits(c) /\ c # Head(waiting)
    <3>1. PICK i \in 1..(Len(waiting) - 1) : waiting'[i] = c
      BY <1>2, <2>1 DEF Waits
    <3>2. i + 1 \in DOMAIN waiting /\ waiting[i + 1] = c /\ i + 1 # 1 /\ 1 \in DOMAIN waiting
      BY <1>1, <1>2, <3>1
    <3> QED
      BY <1>1, <1>3, <3>2 DEF Waits
  <2>2. ASSUME Waits(c), c # Head(waiting) PROVE Waits(c)'
    <3>1. PICK i \in 1..Len(waiting) : waiting[i] = c
      BY <1>1, <2>2 DEF Waits
    <3>2. i # 1 /\ i - 1 \in 1..(Len(waiting) - 1)
      BY <1>1, <2>2, <3>1
    <3>3. waiting'[i - 1] = c
      BY <1>1, <1>2, <3>1, <3>2
    <3> QED
      BY <1>2, <3>2, <3>3 DEF Waits
  <2> QED
    BY <2>1, <2>2
<1>5. \A i, j \in DOMAIN waiting' : waiting'[i] = waiting'[j] => i = j
  <2> SUFFICES ASSUME NEW i \in DOMAIN waiting', NEW j \in DOMAIN waiting',
                      waiting'[i] = waiting'[j]
               PROVE  i = j
    OBVIOUS
  <2>1. i + 1 \in DOMAIN waiting /\ j + 1 \in DOMAIN waiting /\ waiting[i + 1] = waiting[j + 1]
    BY <1>1, <1>2
  <2>2. i + 1 = j + 1
    BY <1>3, <2>1
  <2> QED
    BY <1>1, <1>2, <2>2
<1>6. Waits(Head(waiting))
  BY <1>1 DEF Waits
<1> QED
  BY <1>1, <1>2, <1>4, <1>5, <1>6

\* A new connection is put at the end of the queue
LEMMA Joining ==
  ASSUME Types, OneEach, NEW c \in Connections, ~Waits(c), waiting' = Append(waiting, c)
  PROVE  /\ waiting' \in Seq(Connections)
         /\ \A x \in Connections : Waits(x)' <=> Waits(x) \/ x = c
         /\ \A i, j \in DOMAIN waiting' : waiting'[i] = waiting'[j] => i = j
<1> DEFINE n == Len(waiting)
<1>1. /\ n \in Nat /\ DOMAIN waiting = 1..n
      /\ waiting' \in Seq(Connections) /\ DOMAIN waiting' = 1..(n + 1)
      /\ \A i \in 1..n : waiting'[i] = waiting[i]
      /\ waiting'[n + 1] = c
  BY AppendProperties, LenProperties DEF Types
<1> HIDE DEF n
<1>2. 1..(n + 1) = (1..n) \cup {n + 1}
  BY <1>1
<1>3. \A x \in Connections : Waits(x)' <=> Waits(x) \/ x = c
  BY <1>1, <1>2 DEF Waits
<1>4. \A i \in 1..n : waiting[i] # c
  BY <1>1 DEF Waits
<1>5. \A i, j \in 1..n : waiting[i] = waiting[j] => i = j
  BY <1>1 DEF OneEach
<1> QED
  BY <1>1, <1>2, <1>3, <1>4, <1>5

-----------------------------------------------------------------------------
(* The steps *)

LEMMA ListenStep == HeardInv /\ Listen => HeardInv'
<1> SUFFICES ASSUME HeardInv, Listen PROVE HeardInv'
  OBVIOUS
<1> USE ThingsDiffer DEF HeardInv
<1>1. UNCHANGED clientLink
  BY DEF Listen
<1>a. available' \subseteq Datagrams
  BY DEF Listen, Receive, Sweep, Types
<1>2. ASSUME NEW d \in available, Receive(d) PROVE HeardInv'
  <2>1. CASE Drop(d) \/ Deliver(d) \/ Ignore(d)
    <3>1. UNCHANGED <<connMap, endpoint, waiting>>
      BY <2>1 DEF Drop, Deliver, Ignore
    <3> QED
      BY <1>1, <1>a, <3>1, Unchanged
  <2>2. CASE Open(d)
    <3>1. PICK c \in Connections :
            /\ ~Alive(c)
            /\ waiting' = Append(waiting, c)
            /\ connMap' = [connMap EXCEPT ![d.from] = c]
            /\ endpoint' = [endpoint EXCEPT ![c] = d.from]
      BY <2>2 DEF Open
    <3>2. connMap[d.from] = None /\ d.from \in Addresses
      BY <2>2, ListenerAssumption DEF Open, ListenerAssumption, Types
    <3>3. ~Waits(c) /\ ~Linked(c)
      BY <3>1 DEF Owned
    <3>4. /\ waiting' \in Seq(Connections)
          /\ \A x \in Connections : Waits(x)' <=> Waits(x) \/ x = c
          /\ \A i, j \in DOMAIN waiting' : waiting'[i] = waiting'[j] => i = j
      BY <3>1, <3>3, Joining
    <3>5. \A x \in Connections : Linked(x)' <=> Linked(x)
      BY <1>1 DEF Linked
    <3>6. \A x \in Connections : endpoint'[x] = IF x = c THEN d.from ELSE endpoint[x]
      BY <3>1 DEF Types
    <3>7. \A x \in Connections : Alive(x)' <=> Alive(x) \/ x = c
      BY <3>2, <3>6 DEF Alive
    <3>8. \A a \in Addresses : connMap'[a] = IF a = d.from THEN c ELSE connMap[a]
      BY <3>1 DEF Types
    <3>9. Types'
      BY <1>1, <1>a, <3>1, <3>2, <3>4 DEF Types
    <3>10. OneEach'
      BY <1>1, <3>3, <3>4, <3>5 DEF OneEach
    <3>11. Owned'
      BY <3>4, <3>5, <3>7 DEF Owned
    <3>12. Found'
      BY <3>1, <3>2, <3>6, <3>7, <3>8 DEF Found
    <3> QED
      BY <3>9, <3>10, <3>11, <3>12
  <2> QED
    BY <1>2, <2>1, <2>2 DEF Receive
<1>3. CASE Sweep
  <2>1. UNCHANGED <<endpoint, waiting>>
    BY <1>3 DEF Sweep
  <2>2. \A a \in Addresses : connMap'[a] = IF connMap[a] = Expired THEN None ELSE connMap[a]
    BY <1>3 DEF Sweep, Swept
  <2>3. connMap' \in [Addresses -> Connections \cup {None, Expired}]
    BY <1>3 DEF Sweep, Swept, Types
  <2>4. Found'
    BY <2>1, <2>2, <2>3, OtherEntries
  <2> QED
    BY <1>1, <1>a, <2>1, <2>3, <2>4 DEF Types, OneEach, Owned, Waits, Linked, Alive
<1> QED
  BY <1>2, <1>3 DEF Listen

\* What the ways through BindConnection have in common: the first that waits
\* is somebody's, or gone
LEMMA AttemptMeans ==
  ASSUME HeardInv, Attempt
  PROVE  \E c \in Connections, p \in Clients :
           /\ Reject(c) \/ Connect(c, p) \/ Replace(c, p) \/ Reconnect(c, p)
           /\ Waits(c) /\ ~Linked(c) /\ endpoint[c] \in Addresses /\ connMap[endpoint[c]] = c
           /\ waiting' \in Seq(Connections)
           /\ \A x \in Connections : Waits(x)' <=> Waits(x) /\ x # c
           /\ \A i, j \in DOMAIN waiting' : waiting'[i] = waiting'[j] => i = j
           /\ UNCHANGED available
<1> USE DEF HeardInv
<1>1. waiting # <<>> /\ waiting' = Tail(waiting) /\ UNCHANGED available
  BY DEF Attempt
<1> DEFINE c == Head(waiting)
           p == Owner[endpoint[c]]
<1>2. c \in Connections /\ Waits(c)
  BY <1>1, TakingOff
<1>3. Alive(c) /\ ~Linked(c)
  BY <1>2 DEF Owned, OneEach
<1>4. endpoint[c] \in Addresses /\ connMap[endpoint[c]] = c
  BY <1>2, <1>3 DEF Alive, Types, Found
<1>5. p \in Clients
  BY <1>4, OwnerAssumption DEF OwnerAssumption
<1>6. Reject(c) \/ Connect(c, p) \/ Replace(c, p) \/ Reconnect(c, p)
  BY DEF Attempt
<1>7. /\ waiting' \in Seq(Connections)
      /\ \A x \in Connections : Waits(x)' <=> Waits(x) /\ x # c
      /\ \A i, j \in DOMAIN waiting' : waiting'[i] = waiting'[j] => i = j
  BY <1>1, TakingOff
<1> HIDE DEF c, p
<1> QED
  BY <1>1, <1>2, <1>3, <1>4, <1>5, <1>6, <1>7

\* Accepting a connection enters it where it is
LEMMA AcceptedIsThere ==
  ASSUME Types, NEW c \in Connections, endpoint[c] \in Addresses, connMap[endpoint[c]] = c
  PROVE  Accepted(c) = connMap
BY DEF Accepted, Types

LEMMA AttemptStep == HeardInv /\ Attempt => HeardInv'
<1> SUFFICES ASSUME HeardInv, Attempt PROVE HeardInv'
  OBVIOUS
<1>1. PICK c \in Connections, p \in Clients :
           /\ Reject(c) \/ Connect(c, p) \/ Replace(c, p) \/ Reconnect(c, p)
           /\ Waits(c) /\ ~Linked(c) /\ endpoint[c] \in Addresses /\ connMap[endpoint[c]] = c
           /\ waiting' \in Seq(Connections)
           /\ \A x \in Connections : Waits(x)' <=> Waits(x) /\ x # c
           /\ \A i, j \in DOMAIN waiting' : waiting'[i] = waiting'[j] => i = j
           /\ UNCHANGED available
  BY AttemptMeans
<1> USE ThingsDiffer DEF HeardInv
<1>2. Accepted(c) = connMap
  BY <1>1, AcceptedIsThere
<1>3. CASE Reject(c)
  <2>1. UNCHANGED clientLink
    BY <1>3 DEF Reject
  <2>2. /\ connMap' \in [Addresses -> Connections \cup {None, Expired}]
        /\ endpoint' \in [Connections -> Addresses \cup {None}]
        /\ Found'
        /\ \A x \in Connections : Alive(x)' <=> Alive(x) /\ x \notin {c}
    BY <1>3, GivingUpKeepsFound DEF Reject
  <2>3. \A x \in Connections : Linked(x)' <=> Linked(x)
    BY <2>1 DEF Linked
  <2>4. Types'
    BY <1>1, <2>1, <2>2 DEF Types
  <2>5. OneEach'
    BY <1>1, <2>1, <2>3 DEF OneEach
  <2>6. Owned'
    BY <1>1, <2>2, <2>3 DEF Owned
  <2> QED
    BY <2>2, <2>4, <2>5, <2>6
<1>4. CASE Connect(c, p)
  <2>1. UNCHANGED <<connMap, endpoint>>
    BY <1>2, <1>4 DEF Connect
  <2>2. /\ clientLink[p] = None
        /\ clientLink' = [clientLink EXCEPT ![p] = c]
    BY <1>4 DEF Connect
  <2>3. \A x \in Connections : Linked(x)' <=> Linked(x) \/ x = c
    BY <2>2 DEF Linked, Types
  <2>4. Types'
    BY <1>1, <2>1, <2>2 DEF Types
  <2>5. OneEach'
    BY <1>1, <2>2, <2>3 DEF OneEach, Linked, Types
  <2>6. Owned'
    BY <1>1, <2>1, <2>3 DEF Owned, Alive
  <2>7. Found'
    BY <2>1 DEF Found, Alive
  <2> QED
    BY <2>4, <2>5, <2>6, <2>7
<1>5. CASE Replace(c, p)
  <2> DEFINE old == clientLink[p]
  <2>1. /\ old # None
        /\ clientLink' = [clientLink EXCEPT ![p] = c]
        /\ connMap' = Released(connMap, {old})
        /\ endpoint' = Gone(endpoint, {old}, None)
    BY <1>2, <1>5 DEF Replace
  <2>2. old \in Connections /\ Linked(old) /\ old # c
    BY <1>1, <2>1 DEF Types, Linked
  <2>3. /\ connMap' \in [Addresses -> Connections \cup {None, Expired}]
        /\ endpoint' \in [Connections -> Addresses \cup {None}]
        /\ Found'
        /\ \A x \in Connections : Alive(x)' <=> Alive(x) /\ x \notin {old}
    BY <2>1, <2>2, GivingUpKeepsFound
  <2>4. \A x \in Connections : Linked(x)' <=> (Linked(x) /\ x # old) \/ x = c
    BY <2>1, <2>2 DEF Linked, Types, OneEach
  <2>5. Types'
    BY <1>1, <2>1, <2>3 DEF Types
  <2>6. OneEach'
    BY <1>1, <2>1, <2>4 DEF OneEach, Linked, Types
  <2>7. Owned'
    BY <1>1, <2>2, <2>3, <2>4 DEF Owned, OneEach
  <2> QED
    BY <2>3, <2>5, <2>6, <2>7
<1>6. CASE Reconnect(c, p)
  <2> DEFINE old == clientLink[p]
             here == endpoint[c]
             there == endpoint[old]
             E == [endpoint EXCEPT ![old] = here]
  <2>1. /\ old # None /\ there # here
        /\ endpoint' = Gone(E, {c}, None)
        /\ connMap' = Released(Rekeyed(connMap, E), {c})
        /\ UNCHANGED clientLink
    BY <1>2, <1>6 DEF Reconnect, CanMove
  <2>2. old \in Connections /\ Linked(old) /\ old # c
    BY <1>1, <2>1 DEF Types, Linked
  <2>3. Alive(old) /\ there \in Addresses /\ connMap[there] = old
    BY <2>2 DEF Owned, Alive, Types, Found
  <2>4. here \in Addresses /\ connMap[here] = c
    BY <1>1
  <2>5. \A x \in Connections : E[x] = IF x = old THEN here ELSE endpoint[x]
    BY <2>2 DEF Types
  <2> HIDE DEF E
  <2>6. \A a \in Addresses :
          Rekeyed(connMap, E)[a] = IF a = here THEN old ELSE IF a = there THEN None ELSE connMap[a]
    <3> DEFINE Moved(a) == {x \in Connections : E[x] = a /\ \E b \in Addresses \ {a} : connMap[b] = x}
    <3>1. \A a \in Addresses :
            Rekeyed(connMap, E)[a] = IF Moved(a) # {} THEN CHOOSE x \in Moved(a) : TRUE
                                     ELSE IF connMap[a] \in Connections /\ E[connMap[a]] # a THEN None
                                     ELSE connMap[a]
      BY DEF Rekeyed
    <3>2. \A x \in Connections, b \in Addresses : connMap[b] = x => endpoint[x] = b
      BY DEF Found
    <3>3. Moved(here) = {old}
      BY <2>1, <2>2, <2>3, <2>4, <2>5, <3>2
    <3>4. \A a \in Addresses : a # here => Moved(a) = {}
      BY <2>5, <3>2
    <3>5. \A a \in Addresses :
            connMap[a] \in Connections /\ E[connMap[a]] # a <=> a = there
      BY <2>1, <2>2, <2>3, <2>5, <3>2
    <3> HIDE DEF Moved
    <3>6. (CHOOSE x \in Moved(here) : TRUE) = old
      BY <3>3
    <3> SUFFICES ASSUME NEW a \in Addresses
                 PROVE  Rekeyed(connMap, E)[a] =
                          IF a = here THEN old ELSE IF a = there THEN None ELSE connMap[a]
      OBVIOUS
    <3>7. CASE a = here
      BY <3>1, <3>3, <3>6, <3>7
    <3>8. CASE a # here
      BY <3>1, <3>4, <3>5, <3>8
    <3> QED
      BY <3>7, <3>8
  <2>7. /\ \A a \in Addresses :
             connMap'[a] = IF a = here THEN old ELSE IF a = there THEN None ELSE connMap[a]
        /\ connMap' \in [Addresses -> Connections \cup {None, Expired}]
    <3>1. \A a \in Addresses : Rekeyed(connMap, E)[a] # c
      BY <2>2, <2>4, <2>6, <1>1 DEF Found
    <3>2. connMap' = [a \in Addresses |-> Rekeyed(connMap, E)[a]]
      BY <2>1, <3>1 DEF Released
    <3> QED
      BY <2>2, <2>6, <3>2 DEF Types
  <2>8. /\ \A x \in Connections :
             endpoint'[x] = IF x = c THEN None ELSE IF x = old THEN here ELSE endpoint[x]
        /\ endpoint' \in [Connections -> Addresses \cup {None}]
    BY <2>1, <2>2, <2>4, <2>5 DEF Gone, Types
  <2>9. \A x \in Connections : Alive(x)' <=> Alive(x) /\ x # c
    BY <2>2, <2>3, <2>4, <2>8 DEF Alive
  <2>10. \A x \in Connections : Linked(x)' <=> Linked(x)
    BY <2>1 DEF Linked
  <2>11. Found'
    <3> SUFFICES ASSUME NEW x \in Connections, NEW a \in Addresses
                 PROVE  connMap'[a] = x <=> Alive(x)' /\ endpoint'[x] = a
      BY DEF Found
    <3>1. connMap[a] = x <=> Alive(x) /\ endpoint[x] = a
      BY DEF Found
    <3>2. CASE x = c
      BY <2>2, <2>4, <2>7, <2>9, <3>1, <3>2
    <3>3. CASE x = old
      BY <2>2, <2>3, <2>7, <2>8, <2>9, <3>1, <3>3
    <3>4. CASE x # c /\ x # old
      BY <2>3, <2>4, <2>7, <2>8, <2>9, <3>1, <3>4
    <3> QED
      BY <3>2, <3>3, <3>4
  <2>12. Types'
    BY <1>1, <2>1, <2>7, <2>8 DEF Types
  <2>13. OneEach'
    BY <1>1, <2>1, <2>10 DEF OneEach
  <2>14. Owned'
    BY <1>1, <2>9, <2>10 DEF Owned
  <2> QED
    BY <2>11, <2>12, <2>13, <2>14
<1> QED
  BY <1>1, <1>3, <1>4, <1>5, <1>6

LEMMA LinksStep == HeardInv /\ Links => HeardInv'
<1> SUFFICES ASSUME HeardInv, Links PROVE HeardInv'
  OBVIOUS
<1> USE ThingsDiffer DEF HeardInv
<1>1. PICK quitting \in SUBSET {p \in Clients : clientLink[p] # None} :
        LET left == TimedOut \cup quitting
            S == {clientLink[p] : p \in left}
        IN  /\ clientLink' = [p \in Clients |-> IF p \in left THEN None ELSE clientLink[p]]
            /\ connMap' = Released(connMap, S)
            /\ endpoint' = Gone(endpoint, S, None)
  BY DEF Links
<1>2. UNCHANGED <<available, waiting>>
  BY DEF Links
<1> DEFINE left == TimedOut \cup quitting
           S == {clientLink[p] : p \in left}
<1>3. left \subseteq {p \in Clients : clientLink[p] # None}
  BY DEF TimedOut
<1> HIDE DEF left
<1>4. /\ clientLink' = [p \in Clients |-> IF p \in left THEN None ELSE clientLink[p]]
      /\ connMap' = Released(connMap, S)
      /\ endpoint' = Gone(endpoint, S, None)
  BY <1>1 DEF left
<1>5. S \subseteq Connections
  BY <1>3 DEF Types
<1>6. \A x \in Connections : Linked(x)' <=> Linked(x) /\ x \notin S
  BY <1>3, <1>4 DEF Linked, OneEach, Types
<1>7. \A x \in Connections : x \in S => ~Waits(x)
  BY <1>3 DEF OneEach, Linked
<1> HIDE DEF S
<1>8. /\ connMap' \in [Addresses -> Connections \cup {None, Expired}]
      /\ endpoint' \in [Connections -> Addresses \cup {None}]
      /\ Found'
      /\ \A x \in Connections : Alive(x)' <=> Alive(x) /\ x \notin S
  BY <1>4, <1>5, GivingUpKeepsFound
<1>9. \A x \in Connections : Waits(x)' <=> Waits(x)
  BY <1>2 DEF Waits
<1>10. Types'
  BY <1>2, <1>4, <1>8 DEF Types
<1>11. OneEach'
  BY <1>2, <1>4, <1>6, <1>9 DEF OneEach
<1>12. Owned'
  BY <1>6, <1>7, <1>8, <1>9 DEF Owned
<1> QED
  BY <1>8, <1>10, <1>11, <1>12

LEMMA HeardStep == HeardInv /\ [ThreadNext]_all => HeardInv'
<1> SUFFICES ASSUME HeardInv, [ThreadNext]_all PROVE HeardInv'
  OBVIOUS
<1>1. CASE Listen
  BY <1>1, ListenStep
<1>2. CASE Attempt
  BY <1>2, AttemptStep
<1>3. CASE Links
  BY <1>3, LinksStep
<1>4. available \subseteq Datagrams
  BY DEF HeardInv, Types
<1>5. CASE UpdateGame \/ Time \/ UNCHANGED Rest
  <2>1. UNCHANGED <<connMap, endpoint, waiting, clientLink, available>>
    BY <1>5 DEF UpdateGame, Time, Age, Rest, listener
  <2> QED
    BY <1>4, <2>1, Unchanged
<1>6. CASE Network
  <2>1. UNCHANGED <<connMap, endpoint, waiting, clientLink>> /\ available' \subseteq Datagrams
    BY <1>4, <1>6 DEF Network, Arrive
  <2> QED
    BY <2>1, Unchanged
<1>7. CASE UNCHANGED all
  BY <1>5, <1>7 DEF all, Rest
<1> QED
  BY <1>1, <1>2, <1>3, <1>5, <1>6, <1>7 DEF ThreadNext, ServerLoop

\* For any clients, addresses and connections, and whatever datagrams arrive: a
\* connection that somebody has, or that waits, is found under the address it
\* sends to and under no other (UDPListener::Update, AcceptConnection and
\* UpdateConnections, as CGameServer::BindConnection uses them).
THEOREM LinksAreHeard == ThreadSpec => []EveryLinkIsHeard
BY HeardInitially, HeardStep, HeardSays, PTL DEF ThreadSpec
=============================================================================
