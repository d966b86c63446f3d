---------------------------- MODULE GameSession ----------------------------
(***************************************************************************)
(* Who takes part in a game, and what each participant is sent: the part   *)
(* of CGameServer (rts/Net/GameServer.cpp) that binds connections to       *)
(* players, and the broadcast with its packet cache.  The simulation runs  *)
(* in lockstep, so every client must be sent the same packets in the same  *)
(* order, however late it joins.                                           *)
(*                                                                         *)
(* A link is a connection object of the server; out[l] is all that was     *)
(* handed to its SendData, which the other end receives in this order      *)
(* (UDPConnection).  Left out: packets outside of the broadcast (for one   *)
(* client, pings, progress of loading), demo playback, passwords and       *)
(* versions beyond that they may make the server reject an attempt, and    *)
(* the readiness of teams: the host may force the start at any time.       *)
(***************************************************************************)
EXTENDS Naturals, Sequences

CONSTANTS
  Listed,         \* the players of the start script, in order
  Playing,        \* those of them that play, the others are spectators
  Guests,         \* names that are not in the start script
  Links,          \* connections to clients
  LocalLinks,     \* those of them to the host itself
  NoLink,
  ReconnectOn,    \* reconnectTimeout > 0
  Servers,        \* settings a server may run with
  MaxBroadcasts,  \* bound: packets broadcast
  MaxPlayers      \* bound: participants

Names == {Listed[i] : i \in 1..Len(Listed)} \cup Guests

ASSUME NamesAssumption ==
  /\ Listed \in Seq(Names)
  /\ \A i, j \in 1..Len(Listed) : Listed[i] = Listed[j] => i = j
  /\ \A i \in 1..Len(Listed) : Listed[i] \notin Guests
  /\ NoLink \notin Links /\ LocalLinks \subseteq Links
ASSUME FlagsAssumption ==
  ReconnectOn \in BOOLEAN /\ Servers \subseteq [specJoin : BOOLEAN, saved : BOOLEAN]
ASSUME BoundsAssumption == MaxBroadcasts \in Nat /\ MaxPlayers \in Nat

VARIABLES
  players,         \* the participants, by player number
  out,             \* by link: all packets handed to SendData
  unmuted,         \* the links that may send
  packetCache,
  history,         \* history: all packets that were broadcast
  gameHasStarted,
  canReconnect,
  accepting,       \* acceptNewConnections of the UDPListener
  loaded,          \* whether the saved game has been loaded
  settings         \* those of this server

flags == <<gameHasStarted, canReconnect, accepting, loaded, settings>>
vars  == <<players, out, unmuted, packetCache, history, flags>>

AllowSpecJoin == settings.specJoin  \* allowSpecJoin
SavedGame     == settings.saved     \* whether the host loads a saved game

States == {"unconnected", "connected", "ingame", "disconnected"}
Kinds  == {"seed", "gamedata", "setnum", "new", "join", "left", "name", "start", "frame", "command"}
Packet == [kind : Kinds, who : Nat]
Participant(name, anonymous, spectator, midgame) ==
  [name |-> name, anonymous |-> anonymous, spectator |-> spectator, midgame |-> midgame,
   myState |-> "unconnected", link |-> NoLink]

Msg(kind, n) == [kind |-> kind, who |-> n]
Numbers == 1..Len(players)
Linked == {n \in Numbers : players[n].link # NoLink}
Live == {players[n].link : n \in Linked}

Init ==
  /\ players = [n \in 1..Len(Listed) |->
                  Participant(Listed[n], FALSE, Listed[n] \notin Playing, FALSE)]
  /\ out = [l \in Links |-> <<>>]
  /\ unmuted = {}
  /\ packetCache = <<Msg("seed", 0)>> /\ history = <<Msg("seed", 0)>>
  /\ gameHasStarted = FALSE /\ canReconnect = FALSE /\ accepting = TRUE /\ loaded = FALSE
  /\ settings \in Servers

-----------------------------------------------------------------------------
(* Broadcast: every participant with a link gets the packets, and the cache *)
(* keeps them for those who come later.                                     *)

Caching(reconnect) == reconnect \/ AllowSpecJoin \/ ~gameHasStarted

Record(packets, reconnect) ==
  /\ Len(history) + Len(packets) <= MaxBroadcasts
  /\ history' = history \o packets
  /\ packetCache' = IF Caching(reconnect) THEN packetCache \o packets ELSE packetCache

Broadcast(packets) ==
  /\ Record(packets, canReconnect)
  /\ out' = [l \in Links |-> IF l \in Live THEN out[l] \o packets ELSE out[l]]

-----------------------------------------------------------------------------
(* BindConnection *)

\* the number of the participant with this name, if there is one: anonymous
\* spectators have a tilde in front of theirs and are not found by it
Found(name) == {n \in Numbers : players[n].name = name /\ ~players[n].anonymous}

Reconnects(l) == canReconnect \/ (ReconnectOn /\ l \notin LocalLinks)

\* GetConnectionFlags: whether a client may take the place of n by a new link,
\* or, with reconnect, get the link that n has; stale if that one is silent
MayConnect(n, l, reconnect) ==
  ~reconnect /\ players[n].link = NoLink /\ (Reconnects(l) \/ ~gameHasStarted)

MayReplace(n, l, reconnect, stale) ==
  ~reconnect /\ players[n].link # NoLink /\ Reconnects(l) /\ stale

MayReconnect(n, l, reconnect, stale) ==
  reconnect /\ players[n].link # NoLink /\ Reconnects(l) /\ stale

Farewell(n) == IF players[n].link # NoLink THEN <<Msg("left", n)>> ELSE <<>>

\* fault: the newcomer is sent what was broadcast before it was announced
GreetingOfCache(n, l, p, announced, join) ==
  <<Msg("gamedata", n), Msg("setnum", n)>> \o packetCache \o join

\* what the newcomer n is sent: the game and its number, its own arrival, and
\* "all packets he missed until now"
Greeting(n, l, p, announced, join) ==
  (IF p.midgame THEN <<Msg("new", n)>> ELSE <<>>)
    \o <<Msg("gamedata", n), Msg("setnum", n)>> \o join
    \o (IF Caching(Reconnects(l)) THEN packetCache \o announced \o join ELSE packetCache)

\* fault: the number of the last participant
NumberTaken == Len(players)

\* the number of the participant that is added to players
NextNumber == Len(players) + 1

\* n, a participant or the next number, is bound to the new link l; announced
\* has been broadcast before
Bind(n, p, l, announced, reconnect) ==
  LET join == IF p.spectator THEN <<>> ELSE <<Msg("join", n)>>
      last == IF n \in Numbers THEN {players[n].link} ELSE {}
  IN  /\ Record(announced \o join, Reconnects(l))
      /\ out' = [k \in Links |->
           IF k = l THEN Greeting(n, l, p, announced, join)
           ELSE IF k \in Live
                THEN out[k] \o announced \o (IF k \in last THEN <<>> ELSE join)
                ELSE out[k]]
      /\ players' = [m \in Numbers \cup {n} |->
           IF m = n THEN [p EXCEPT !.link = l, !.myState = "connected"] ELSE players[m]]
      /\ unmuted' = IF reconnect THEN unmuted ELSE unmuted \cup {l}

\* an attempt over the new link l to take part under a name; a client that
\* has been connected makes one with reconnect when it hears nothing
Attempt(l, name, reconnect, stale) ==
  /\ out[l] = <<>> /\ (accepting \/ l \in LocalLinks)
  /\ reconnect => l \notin LocalLinks /\ \E n \in Numbers :
                     players[n].name = name /\ players[n].myState # "unconnected"
  /\ canReconnect' = Reconnects(l)
  /\ UNCHANGED <<gameHasStarted, accepting, loaded, settings>>
  /\ \/ \E n \in Found(name) :
          /\ MayConnect(n, l, reconnect) \/ MayReplace(n, l, reconnect, stale)
          /\ Bind(n, players[n], l, Farewell(n), reconnect)
     \/ /\ \E n \in Found(name) : MayReconnect(n, l, reconnect, stale)
        \* n keeps its link, which now leads to the address of l
        /\ UNCHANGED <<players, out, unmuted, packetCache, history>>
     \/ /\ Found(name) = {} /\ AllowSpecJoin /\ Len(players) < MaxPlayers
        /\ Bind(NextNumber, Participant(name, TRUE, TRUE, TRUE), l,
                <<Msg("new", NextNumber)>>, reconnect)
     \* rejected: not allowed, wrong version, wrong password
     \/ UNCHANGED <<players, out, unmuted, packetCache, history>>

\* "adduser": a name and password for a player or spectator to come
AddUser(name, spectator) ==
  /\ Found(name) = {} /\ Len(players) < MaxPlayers
  /\ players' = Append(players, Participant(name, FALSE, spectator, TRUE))
  /\ Broadcast(<<Msg("new", NextNumber)>>)
  /\ UNCHANGED <<unmuted, flags>>

-----------------------------------------------------------------------------
(* Messages of the clients, and the end of a link *)

\* NETMSG_PLAYERNAME, which a client sends when it has loaded the game, with the
\* name the server has for it (LoadScreen.cpp:168): names do not change
PlayerName(n) ==
  /\ n \in Linked
  /\ players' = [players EXCEPT ![n].myState = "ingame"]
  /\ Broadcast(<<Msg("name", n)>>)
  /\ UNCHANGED <<unmuted, flags>>

\* NETMSG_COMMAND and the like, passed on to everybody
Command(n) ==
  /\ n \in Linked
  /\ Broadcast(<<Msg("command", n)>>)
  /\ UNCHANGED <<players, unmuted, flags>>

\* fault: the link is given up but not the state
KilledLink(p) == [p EXCEPT !.link = NoLink]

Killed(p) == [p EXCEPT !.link = NoLink, !.myState = "disconnected"]

\* NETMSG_QUIT, a timeout (never of the host) or a kick: announced, then Kill
Leave(n) ==
  /\ n \in Linked
  /\ Broadcast(<<Msg("left", n)>>)
  /\ players' = [players EXCEPT ![n] = Killed(players[n])]
  /\ UNCHANGED <<unmuted, flags>>

-----------------------------------------------------------------------------
(* The course of the game *)

\* fault: the listener goes on accepting connections
AcceptsAlways == accepting

\* nobody is accepted any more when nobody can be sent what was missed
Accepts == accepting /\ (canReconnect \/ AllowSpecJoin)

\* the cache is given up when nobody may come later; the start is broadcast,
\* and the first frame unless the game is paused
StartGame ==
  \E packets \in {<<Msg("start", 0)>>, <<Msg("start", 0), Msg("frame", 0)>>} :
    /\ ~gameHasStarted
    /\ gameHasStarted' = TRUE
    /\ accepting' = Accepts
    /\ Len(history) + Len(packets) <= MaxBroadcasts
    /\ history' = history \o packets
    /\ packetCache' = IF canReconnect \/ AllowSpecJoin THEN packetCache \o packets ELSE <<>>
    /\ out' = [l \in Links |-> IF l \in Live THEN out[l] \o packets ELSE out[l]]
    /\ UNCHANGED <<players, unmuted, canReconnect, loaded, settings>>

\* the host, who takes part itself, has loaded the saved game: it runs from
\* here on
PostLoad ==
  /\ SavedGame /\ ~loaded
  /\ \E n \in Linked : players[n].link \in LocalLinks
  /\ loaded' = TRUE /\ gameHasStarted' = TRUE
  /\ UNCHANGED <<players, out, unmuted, packetCache, history, canReconnect, accepting, settings>>

CreateNewFrame ==
  /\ gameHasStarted
  /\ Broadcast(<<Msg("frame", 0)>>)
  /\ UNCHANGED <<players, unmuted, flags>>

Next ==
  \/ \E l \in Links, name \in Names, reconnect, stale \in BOOLEAN :
       Attempt(l, name, reconnect, stale)
  \/ \E name \in Guests, spectator \in BOOLEAN : AddUser(name, spectator)
  \/ \E n \in Numbers : PlayerName(n) \/ Command(n) \/ Leave(n)
  \/ StartGame \/ PostLoad \/ CreateNewFrame

Spec == Init /\ [][Next]_vars

-----------------------------------------------------------------------------
(* Properties *)

FlagsOK ==
  {gameHasStarted, canReconnect, accepting, loaded} \subseteq BOOLEAN /\ settings \in Servers

TypeOK ==
  /\ players \in Seq([name : Names, anonymous : BOOLEAN, spectator : BOOLEAN,
                      midgame : BOOLEAN, myState : States, link : Links \cup {NoLink}])
  /\ out \in [Links -> Seq(Packet)]
  /\ unmuted \subseteq Links
  /\ packetCache \in Seq(Packet) /\ history \in Seq(Packet)
  /\ FlagsOK
  /\ \A n \in Numbers : n \in Linked <=> players[n].myState \in {"connected", "ingame"}

\* s is what n alone is told on arrival, and then all of h
Told(n, s, h) ==
  \E k \in 0..Len(s) :
    /\ SubSeq(s, k + 1, Len(s)) = h
    /\ \A i \in 1..k : s[i].kind \in {"new", "gamedata", "setnum", "join"} /\ s[i].who = n

\* "finally send player all packets he missed until now" (2998): whoever has a
\* link was sent every packet that was ever broadcast, in order, whenever he
\* joined and whatever he missed (Broadcast 545-552, StartGame 2145).
WholeHistory == \A n \in Linked : Told(n, out[players[n].link], history)

\* As long as somebody may still connect the cache holds all that was broadcast
\* ("do not accept new connections", StartGame 2145-2149).
CacheComplete == accepting => packetCache = history

InGame(n) ==
  \E i \in 1..Len(history) :
    /\ history[i] = Msg("name", n)
    /\ \A j \in i..Len(history) : history[j] # Msg("left", n)

\* The broadcasts tell who is in the game: a participant whose last announced
\* arrival was not followed by an announced departure, and nobody else (every
\* Kill has its SendPlayerLeft before it: 1078, 1932, 2723, 2951).
RosterAnnounced ==
  \A n \in Numbers : players[n].myState = "ingame" <=> InGame(n)

-----------------------------------------------------------------------------
(* The inductive invariant *)

OwnLinks == \A m, n \in Linked : players[m].link = players[n].link => m = n

\* The listener accepts connections exactly as long as packets are cached, the
\* cache is complete until then, and no two participants share a link: that is
\* why nobody who has a link has missed a packet.
SessionInv ==
  /\ TypeOK /\ history # <<>> /\ OwnLinks
  /\ accepting <=> Caching(canReconnect)
  /\ CacheComplete /\ WholeHistory

=============================================================================
