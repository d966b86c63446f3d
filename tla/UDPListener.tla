---------------------------- MODULE UDPListener ----------------------------
(***************************************************************************)
(* The UDP socket of the game server (rts/System/Net/UDPListener.cpp):     *)
(* connMap leads from the address of a datagram to the connection it is    *)
(* for.  It holds weak pointers: a connection lives as long as it waits to *)
(* be accepted or somebody else has it, and its entry is found to be       *)
(* expired later.  A connection that is reestablished from another address *)
(* is moved to it.                                                         *)
(*                                                                         *)
(* Datagrams may be lost, repeated, delayed and reordered: any may arrive  *)
(* at any time.  What a connection does with one is UDPConnection; here it *)
(* only shows that the other side is there.  dropMap counts for the log.   *)
(***************************************************************************)
EXTENDS Integers, Sequences, FiniteSets

CONSTANTS
  Addresses,
  Connections,  \* connection objects; one that is gone may be used again
  None,         \* no connection, no address, no message
  Expired,      \* a weak pointer to a connection that is gone
  Datagrams,    \* what may arrive
  MaxAvailable  \* bound: datagrams that arrive between two calls of Update

\* The first chunk of a client is an attempt to connect, or to reconnect: these
\* have lastContinuous = -1, no naks, and the chunk with number 0
Openings == {"attempt", "reattempt"}

ASSUME ListenerAssumption ==
  /\ IsFiniteSet(Addresses) /\ IsFiniteSet(Connections) /\ MaxAvailable \in Nat
  /\ Datagrams \subseteq [from : Addresses, kind : Openings \cup {"other"}]
  /\ {None, Expired} \cap (Addresses \cup Connections) = {}

VARIABLES
  available,    \* the datagrams in the socket
  connMap,
  waiting,      \* new connections nobody has looked at
  acceptNewConnections,
  endpoint,     \* the address a connection sends to; None if there is no such object
  opening,      \* the message of a new connection that has not been read
  silence       \* time since its last datagram: 1 after reconnectTimeout, 2 after networkTimeout

listener == <<available, connMap, waiting, acceptNewConnections, endpoint, opening, silence>>

Alive(c) == endpoint[c] # None

ListenerInit ==
  /\ available = {} /\ waiting = <<>> /\ acceptNewConnections = TRUE
  /\ connMap = [a \in Addresses |-> None]
  /\ endpoint = [c \in Connections |-> None]
  /\ opening = [c \in Connections |-> None]
  /\ silence = [c \in Connections |-> 0]

Arrive(d) ==
  /\ Cardinality(available) < MaxAvailable
  /\ available' = available \cup {d}
  /\ UNCHANGED <<connMap, waiting, acceptNewConnections, endpoint, opening, silence>>

Age(c) ==
  /\ Alive(c) /\ silence[c] < 2
  /\ silence' = [silence EXCEPT ![c] = @ + 1]
  /\ UNCHANGED <<available, connMap, waiting, acceptNewConnections, endpoint, opening>>

-----------------------------------------------------------------------------
(* Update *)

\* "known connection but expired"
Drop(d) ==
  /\ connMap[d.from] = Expired
  /\ UNCHANGED <<connMap, waiting, endpoint, opening, silence>>

\* ProcessRawPacket
Deliver(d) ==
  /\ connMap[d.from] \in Connections
  /\ silence' = [silence EXCEPT ![connMap[d.from]] = 0]
  /\ UNCHANGED <<connMap, waiting, endpoint, opening>>

Open(d) ==
  LET c == CHOOSE x \in Connections : ~Alive(x)
  IN  /\ connMap[d.from] = None
      /\ acceptNewConnections /\ d.kind \in Openings
      /\ \E x \in Connections : ~Alive(x)
      /\ waiting' = Append(waiting, c)
      /\ connMap' = [connMap EXCEPT ![d.from] = c]
      /\ endpoint' = [endpoint EXCEPT ![c] = d.from]
      /\ opening' = [opening EXCEPT ![c] = d.kind]
      /\ silence' = [silence EXCEPT ![c] = 0]

\* dropMap
Ignore(d) ==
  /\ connMap[d.from] = None
  /\ ~(acceptNewConnections /\ d.kind \in Openings)
  /\ UNCHANGED <<connMap, waiting, endpoint, opening, silence>>

Receive(d) ==
  /\ available' = available \ {d}
  /\ Drop(d) \/ Deliver(d) \/ Open(d) \/ Ignore(d)
  /\ UNCHANGED acceptNewConnections

\* fault: expired entries stay
Kept(M) == M

Swept(M) == [a \in Addresses |-> IF M[a] = Expired THEN None ELSE M[a]]

\* the second loop, when nothing is available any more.  An error of the socket
\* (CheckErrorCode) would begin it with datagrams left; sockets have none here.
Sweep ==
  /\ available = {}
  /\ connMap' = Swept(connMap)
  /\ UNCHANGED <<available, waiting, acceptNewConnections, endpoint, opening, silence>>

-----------------------------------------------------------------------------
(* What the server does with connections *)

\* AcceptConnection
Accepted(c) == [connMap EXCEPT ![endpoint[c]] = c]

\* fault: the entry of the old address is not erased
RekeyedTwice(M, E) ==
  LET Moved(a) == {c \in Connections : E[c] = a /\ \E b \in Addresses \ {a} : M[b] = c}
  IN  [a \in Addresses |-> IF Moved(a) # {} THEN CHOOSE c \in Moved(a) : TRUE ELSE M[a]]

\* UpdateConnections, when the endpoints are E
Rekeyed(M, E) ==
  LET Moved(a) == {c \in Connections : E[c] = a /\ \E b \in Addresses \ {a} : M[b] = c}
  IN  [a \in Addresses |->
         IF Moved(a) # {} THEN CHOOSE c \in Moved(a) : TRUE
         ELSE IF M[a] \in Connections /\ E[M[a]] # a THEN None
         ELSE M[a]]

\* when the last pointers to the connections of S are gone
Released(M, S) == [a \in Addresses |-> IF M[a] \in S THEN Expired ELSE M[a]]

\* their addresses and the rest go with them
Gone(f, S, v) == [c \in Connections |-> IF c \in S THEN v ELSE f[c]]
=============================================================================
