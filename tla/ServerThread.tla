---------------------------- MODULE ServerThread ----------------------------
(***************************************************************************)
(* The thread of a dedicated game server with its socket: ServerShutdown,  *)
(* in which clients come and go as they please, composed with UDPListener, *)
(* which has them.  Each round of UpdateLoop (rts/Net/GameServer.cpp)      *)
(* reads the socket, takes or rejects the connections that are new, gives  *)
(* up those whose clients are silent or quit, and updates the game.        *)
(*                                                                         *)
(* Only players of the start script are modelled, each with one name; more *)
(* about who may join is in GameSession.  Datagrams arrive, and time       *)
(* passes, while the thread sleeps, and Update gets to the end of what has *)
(* arrived.                                                                *)
(***************************************************************************)
EXTENDS ServerShutdown, UDPListener

CONSTANT Owner   \* whose datagrams come from an address

ASSUME OwnerAssumption == Owner \in [Addresses -> Clients]

VARIABLES
  clientLink,    \* the connection a player has, or None
  canReconnect,
  phase          \* within "read": "listen", or "attempts" and the links there are

all == <<vars, listener, clientLink, canReconnect, phase>>

ThreadInit ==
  /\ Init /\ ListenerInit
  /\ clientLink = [p \in Clients |-> None]
  /\ canReconnect = FALSE
  /\ phase = "listen"

-----------------------------------------------------------------------------
(* udpListener->Update() *)

Listen ==
  /\ pc = "read" /\ phase = "listen"
  /\ \/ /\ \E d \in available : Receive(d)
        /\ UNCHANGED phase
     \/ Sweep /\ phase' = "attempts"
  /\ UNCHANGED <<vars, clientLink, canReconnect>>

-----------------------------------------------------------------------------
(* HandleConnectionAttempts: c is the first that waits, of player p *)

\* the message is not what it should be, or the version, password or name
Reject(c) ==
  /\ connMap' = Released(connMap, {c})
  /\ endpoint' = Gone(endpoint, {c}, None)
  /\ silence' = Gone(silence, {c}, 0)
  /\ canReconnect' \in {canReconnect, TRUE}
  /\ UNCHANGED clientLink

\* From the first attempt on, "if (clientLink->CanReconnect()) canReconnect =
\* true": ReconnectTimeout is positive.

Connect(c, p) ==
  /\ clientLink[p] = None /\ opening[c] = "attempt"
  /\ clientLink' = [clientLink EXCEPT ![p] = c]
  /\ connMap' = Accepted(c)
  /\ canReconnect' = TRUE
  /\ UNCHANGED <<endpoint, silence>>

\* a new client of a player whose old one is silent
Replace(c, p) ==
  LET old == clientLink[p]
  IN  /\ old # None /\ opening[c] = "attempt" /\ silence[old] > 0
      /\ clientLink' = [clientLink EXCEPT ![p] = c]
      /\ connMap' = Released(Accepted(c), {old})
      /\ endpoint' = Gone(endpoint, {old}, None)
      /\ silence' = Gone(silence, {old}, 0)
      /\ canReconnect' = TRUE

CanMove(c, old) == endpoint[old] # endpoint[c]

\* ReconnectTo, UpdateConnections; c dies when BindConnection returns
Reconnect(c, p) ==
  LET old == clientLink[p]
      E == [endpoint EXCEPT ![old] = endpoint[c]]
  IN  /\ old # None /\ opening[c] = "reattempt" /\ silence[old] > 0
      /\ CanMove(c, old)
      /\ endpoint' = Gone(E, {c}, None)
      /\ connMap' = Released(Rekeyed(Accepted(c), E), {c})
      /\ silence' = Gone(silence, {c}, 0)
      /\ canReconnect' = TRUE
      /\ UNCHANGED clientLink

Attempt ==
  LET c == Head(waiting)
      p == Owner[endpoint[c]]
  IN  /\ pc = "read" /\ phase = "attempts" /\ waiting # <<>>
      /\ Reject(c) \/ Connect(c, p) \/ Replace(c, p) \/ Reconnect(c, p)
      /\ waiting' = Tail(waiting)
      /\ opening' = Gone(opening, {c}, None)
      /\ UNCHANGED <<available, acceptNewConnections, vars, phase>>

-----------------------------------------------------------------------------
(* the rest of ServerReadNet *)

\* fault: a link is given up when the client quits, and not when it is silent
NobodyIsSilent == {}

TimedOut == {p \in Clients : clientLink[p] # None /\ silence[clientLink[p]] = 2}

\* Kill drops the only pointer to the connection
Links ==
  /\ pc = "read" /\ phase = "attempts" /\ waiting = <<>>
  /\ \E quitting \in SUBSET {p \in Clients : clientLink[p] # None} :
       LET left == TimedOut \cup quitting
           S == {clientLink[p] : p \in left}
       IN  /\ clientLink' = [p \in Clients |-> IF p \in left THEN None ELSE clientLink[p]]
           /\ connMap' = Released(connMap, S)
           /\ endpoint' = Gone(endpoint, S, None)
           /\ silence' = Gone(silence, S, 0)
  /\ linked' = {p \in Clients : clientLink'[p] # None}
  /\ pc' = "update" /\ phase' = "listen"
  /\ UNCHANGED <<available, waiting, acceptNewConnections, opening, canReconnect,
                 quitServer, game, quit, owner, killed>>

\* StartGame: no new connections when nobody could reconnect
UpdateGame ==
  /\ Update
  /\ acceptNewConnections' =
       (acceptNewConnections /\ (gameHasStarted' = gameHasStarted \/ canReconnect))
  /\ UNCHANGED <<available, connMap, waiting, endpoint, opening, silence,
                 clientLink, canReconnect, phase>>

-----------------------------------------------------------------------------
Network ==
  /\ pc = "test"
  /\ \E d \in Datagrams : Arrive(d)
  /\ UNCHANGED <<vars, clientLink, canReconnect, phase>>

Time ==
  /\ pc = "test"
  /\ \E c \in Connections : Age(c)
  /\ UNCHANGED <<vars, clientLink, canReconnect, phase>>

Rest == <<listener, clientLink, canReconnect, phase>>

ServerLoop ==
  \/ Listen \/ Attempt \/ Links \/ UpdateGame
  \/ (Test \/ ReadQuit \/ WriteQuit \/ Leave) /\ UNCHANGED Rest

ThreadNext ==
  \/ ServerLoop
  \/ Network \/ Time
  \/ (Destroy \/ Join \/ PregameTimeout) /\ UNCHANGED Rest

\* the threads run and time passes; datagrams need not arrive
ThreadSpec ==
  /\ ThreadInit /\ [][ThreadNext]_all
  /\ WF_all(ServerLoop)
  /\ WF_all(Join /\ UNCHANGED Rest) /\ WF_all(PregameTimeout /\ UNCHANGED Rest)
  /\ SF_all(Time)

-----------------------------------------------------------------------------
(* Properties *)

\* Every connection a player has, or that waits, is found under the address it
\* sends to, and under no other, whichever of them moved, were replaced or given
\* up (UDPListener.cpp:196-224): what its client sends reaches it.
EveryLinkIsHeard ==
  \A c \in Connections :
    /\ Alive(c) <=> c \in {clientLink[p] : p \in Clients} \cup {waiting[i] : i \in DOMAIN waiting}
    /\ \A a \in Addresses : connMap[a] = c <=> Alive(c) /\ endpoint[c] = a

\* The thread ends when "Server killed!" was asked for (2501), and when nothing
\* arrives any more: links that nobody uses, those that old datagrams opened and
\* those that moved are given up in time (1931-1940, 845-857).
ServerEnds ==
  <>killed \/ <>[](available = {}) => <>(pc = "done")

\* A client that keeps trying is heard again and again, as long as connections
\* are accepted, although datagrams for a connection that has expired are
\* dropped (UDPListener.cpp:128-130).
AttemptsAreHeard ==
  \A a \in Addresses :
    /\ []<>(\E d \in available : d.from = a /\ d.kind \in Openings)
    /\ []acceptNewConnections
    => []<>(connMap[a] \in Connections) \/ <>(pc = "done")
=============================================================================
