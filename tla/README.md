# Verification of the ArcLight RTS engine's multiplayer core

These modules model parts of the ArcLight engine (a Spring RTS descendant, C++, in
`src/rts`).  The engine runs one deterministic simulation on every client in lockstep: a game
server orders all input and broadcasts it, clients simulate the same frames and answer each
with a checksum.  A game is right as long as **every client is sent the same packets in the
same order**, and a wrong one must be noticed.  That promise is kept by a stack of stateful,
concurrent, failure-prone C++ code that is hard to test:

    clients' simulation  --checksums-->  CGameServer::CheckSync        SyncCheck
    CGameServer: who takes part, broadcast, packet cache               GameSession
    CGameServer: its thread, its end, and its connections              ServerShutdown, ServerThread
    netcode::UDPListener: which connection a datagram is for           UDPListener
    netcode::UDPConnection: messages as chunks                         MessageFraming
    netcode::UDPConnection: chunks as datagrams, both ends             UDPConnection
    what CConnection promises its users                                ReliableChannel

Below the protocol, the simulation must do the same on every client and survive its own
objects.  Three pieces that everything else stands on are modelled:

    CUnitHandler with the pool of ids: units come, die, are deleted    UnitHandler, SimObjectIDPool
      what users of unit ids count on                                  UnitLives
    CObject: who must hear of whose death                              ObjectDependence
    ThreadPool: parallel loops and tasks                               ThreadPool
      what callers of for_mt and parallel count on                     ParallelLoops

Everything is written in TLA+, checked with TLC on small instances, and proved with TLAPS
where the table under "Proofs" says so.

## 1. Inventory

Sizes are lines under `src/`.  "State" names what the component keeps, "hard" what a test
hardly reaches.

| component | state | operations | interaction | hard | what makes it correct |
|---|---|---|---|---|---|
| UDP connection `rts/System/Net/UDPConnection.cpp` (1151) | outgoing data, new / unacked / requested chunks, chunk numbers, waiting packets, message queue, muted, closed | SendData, Flush, SendIfNecessary, ProcessRawPacket, AckChunks, Close, Unmute | called by clients, server and listener; datagrams | loss, repetition, reordering, timers, resend policies, bandwidth | in-order, exactly-once delivery; nothing forgotten; all arrives |
| framing `ProtocolDef`, chunk cutting and joining | fragment buffer, message queue, count of pings | Flush 716-763, ProcessRawPacket 616-690, GetData, DeleteBufferPacketAt | inside the connection; the client takes pings out of turn | messages and length fields over chunk boundaries | messages come out whole, once, in time |
| UDP listener `UDPListener.cpp` (219) | map address -> weak connection, queue of waiting connections, accepting | Update, AcceptConnection, UpdateConnections | creates connections for the server; holds them weakly | expiry, address changes, rekeying | datagrams reach the link of their sender |
| local / loopback connections (174) | two static queues, instance counter | SendData, GetData, Peek, Close | client and server thread | two threads, reload | FIFO between the two |
| game server `rts/Net/GameServer.cpp` (3058), `GameParticipant.cpp` | players, teams, AIs, packet cache, outstanding frames, speed, flags | ProcessPacket (one case per message), BindConnection, CheckSync, CreateNewFrame, StartGame, ServerReadNet, PushAction, ... | reads all links, broadcasts, autohost | late join, reconnect, replaced links, answers out of order, bandwidth limits, shutdown from another thread | equal packet streams, right sync verdicts, teams have a leader |
| client network loop `NetCommands.cpp` (1520), `PreGame.cpp` (604), `Game.cpp` (1941) | frame queue, pacing | ClientReadNet, SendClientProcUsage | connection, simulation | consumption rate | frames in order |
| protocol packing, autohost `rts/Net/Protocol`, `AutohostInterface.cpp` | none | pack, unpack | server, client | - | - |
| unit handler `Sim/Units/UnitHandler.cpp` (442), ids `Sim/Misc/SimObjectIDPool.cpp` (138) | table of units by id, active units, units to delete, iterator of the slow updates, free and waiting ids | CanAddUnit, AddUnit, Update, QueueDeleteUnits, DeleteUnits, SlowUpdateUnits, GarbageCollectUnit; Expand, ExtractID, ReserveID, FreeID, RecycleID | called by the simulation frame, builders and scripts at any point of it | lists changed while walked through over many frames, ids freed with delay | ids are unique and come back; each unit is deleted once, updated once a round |
| death dependences `System/Object.cpp` (120) | lists of listeners and of those listened to, by kind | AddDeathDependence, DeleteDeathDependence, ~CObject, DependentDied | units, weapons, projectiles, command queues, waits | callbacks from destructors that change the lists or destroy other objects | no pointer outlives its object |
| wait commands `WaitCommandsAI.cpp` (1092) | waits, waiting units, death dependences | Update, DependentDied, RemoveWaitCommand | command queues, objects | units that die or change orders while waited for | a wait ends |
| the rest of the simulation `rts/Sim` (68380) | features, projectiles, teams, line of sight, paths | SimFrame | Lua, rendering | numeric determinism, delayed LOS updates | determinism |
| thread pool `System/Threading/ThreadPool.cpp` (687) | task queues, a pool of groups, counters and flags of each | for_mt, parallel, Enqueue, PushTaskGroup, WaitForFinished, DoTask | every parallel loop | lifetime of groups, nested loops, who waits for whom | each task once, no early return, wait returns |
| load/save, demos, creg (5700) | streams | - | server, game | - | what is loaded is what was saved |
| Lua (49511), rendering (54820), UI (19633), sound, map, files, platform, AI wrappers, vendored libraries | - | - | - | not protocol code | - |
| grand strategy prototype (547), sample program with its entity containers | - | - | nothing calls them | - | - |

`PROJECT.json` lists all components with what is modelled of each, and the hazards of the code
line by line; every hazard names the property that covers it or the module planned for it.

## 2. Plan

Done, in this order: `UDPConnection` over `ReliableChannel`, `SyncCheck`, `GameSession`,
`ServerShutdown`; then `ThreadPool` over `ParallelLoops`, `MessageFraming` over
`ReliableChannel`, `SimObjectIDPool` and `UnitHandler` over `UnitLives`, `ObjectDependence`,
and `UDPListener`, composed with `ServerShutdown` in `ServerThread`.

Proved since: all safety properties of `SyncCheck`, `RosterAnnounced`, and of the thread pool
`NoWorkerUsesDeleted` and that it implements `ParallelLoops`, and all safety properties of
`MessageFraming`.  With these every invariant, action property and refinement that a passing run
checks is a theorem, some of them under a hypothesis (section 6); what is left to the runs is
liveness.

Models next: `ServerReadNet` (bandwidth accounts, peeking and dropping, composed with
`SyncCheck` for "non-droppable packets may be processed more than once"), `GameServerTeams`
(leaders, AIs, giving away), `LocalConnection`, `WaitCommands` over `ObjectDependence`,
`FeatureHandler`, `CobThread`, `LosHandler`, and `Lockstep`, which composes session, channels and
clients: all clients simulate prefixes of one history.

## 3. The modules

### UDPConnection, ReliableChannel

Two connection objects and the network between them.  Variables have the names of the
members they model; `outgoingData` counts data in chunks, `net[e]` is the set of datagrams in
flight towards `e` (a set: datagrams are reordered at will; one that is received may stay, so
it is repeated at will; `Lose` removes one), `log` is a history of all chunks cut.

| action | code |
|---|---|
| `SendData`, `Unmute` | the members of these names |
| `Flush` | `Flush(forced)`: cutting (`Cuts`), then `SendIfNecessary`: gaps (`DroppedPackets`, `AckHeader`), timers (`Expired`), resends in order or, with loss factor, from front, back and middle (`ResendOrders`), in alternation with new chunks (`Alternate`), packet by packet (`SendPackets`) |
| `Close` | `Close(flush)` |
| `Receive` | `Update` / `UDPListener::Update`, `ProcessRawPacket`: `Discarded`, `TakeAcks` (`AckChunks`, the two nak loops), `TakeChunks` |

`Unmute` has the guard that the connection is not closed, which its one line in the class
(`UDPConnection.h:131`) has not: its callers unmute links that were just made
(`NetProtocol.cpp:58, 78`, `GameServer.cpp:1893, 2934`).

Abstracted: clocks (a timer that is armed may have expired or not), the sizes of chunks (one
size, `PacketRoom` of them in a packet), checksums (a damaged datagram is a lost one), and
assertions (as in a release build).
`NakMax`, `NakSpan`, `NakBurst`, `AckWindow`, `FloodFactor` are the literals 127, 255, 8, 256
and 20 of the code.

`ReliableChannel` is what users of `CConnection` count on: what is given comes out in order.
`Channels` states that each direction implements it, with the mapping
`given <- log \o outgoingData`, `taken <- msgQueue`.

### MessageFraming

The same class one level up: messages are sequences of bytes as the functions of
`BaseNetProtocol.cpp` write them (`Bytes`): the type, for some types the length of the
message, and a payload.  These functions cast the length to the one or two bytes of its field
without a test, so `Field` keeps its lower digits only, whether they say all or not.  `Flush`
throws away messages that are not valid (`Gathered`): those of no known type, and those
shorter than they say.  It cuts the others into chunks of `MaxChunkSize` bytes wherever they
end (`Cut`), chunks arrive in order, which is what `UDPConnection` shows, and
`ProcessRawPacket` puts each after `fragmentBuffer` (`Joined`) and splits off messages by
`PacketLength`, of fixed size, or with a length field of one or two bytes (`Split`). The
reader takes the next message (`GetData`), or looks through all of them and takes out those
that skip the queue, pings and the server's progress (`ReadAhead`): `Peeked` is one turn of
that loop in `GetNumQueuedSimFrameMessages`, with `DeleteBufferPacketAt`. It runs while pings
are counted, and now and then without (`NetCommands.cpp:135, 156`), so it has no guard.
`ImplementsChannel` is `ReliableChannel` again, with messages in the place of chunks.  It
speaks of the messages up to the first whose length does not fit its field (`Whole`), since
the receiver takes that one out cut short, and what is behind it is split anywhere.
`NothingLeftBehind` and `EverythingIsRead` hold of those too: what comes is what all the bytes
that were written (`Written`) are split into.

### SyncCheck

The server's `outstandingSyncFrames`, each player's `syncResponse`, `lastFrameResponse` and
`desynced`, the frames of the last messages, and of the clients what produces answers: the
last frame simulated, the state of the simulation (in sync or one of the wrong ones), and the
messages on the way.  `CreateNewFrame(n)` is `CheckSync` followed by n new frames, as in the
code.  The loops of `CheckSync` are written as sets: `Decisive` is the player whose answer
first brought a checksum to the highest count (ties by player number, as the loop over
`players` does), `LastMessage` folds the ascending frames into the frame of the last message,
`Verdict` is the flag the last frame leaves.  Comparisons are unsigned as in the code
(`Unsigned`, `WordSize`). `Kill` empties the inbox of the player, while `ServerReadNet` goes
on with what stands behind a QUIT in the same turn (1990-2025); a client of this code sends
nothing behind it.

### GameSession

`players` with their links and states, `out[l]`, all that was handed to `SendData` of link
`l`, the packet cache, a history of all broadcasts, and the flags that decide about caching
and accepting.  `Attempt` is `HandleConnectionAttempts` or `AddLocalClient` with the whole of
`BindConnection` in its order: farewell to a replaced link, midgame newcomer told about
himself, game data, number, join, cache.  A link is a connection object: new, bound once.  A
client attempts with `reconnect` only after it was connected (`Game.cpp:1087`). `PlayerName`
leaves out that the server takes over the name in the message (`GameServer.cpp:1094`), since a
client sends the one the server has for it (`LoadScreen.cpp:168`).

The settings of a server (`Servers`: whether spectators may join, whether it may resume a saved
game) are chosen in `Init`, so one run has several kinds of server.

### ServerShutdown, UDPListener, ServerThread

`ServerShutdown`: the server thread's loop with the read and the write of
`quitServer = (quitServer || !hasPlayers)` as two steps, and the destructor in another thread,
which takes no lock.  In it clients come and go as they like.

`UDPListener` has the map from addresses to weak pointers, the connections that wait, and of
each connection its address, the kind of its first message, and how long its other side has
been silent.  An entry is a connection, `Expired` or none.  `Receive` is one turn of the first
loop of `Update`, `Sweep` the second loop; `Accepted`, `Rekeyed` and `Released` are what the
server's calls do to the map.  `Sweep` begins when the socket is empty; an error of the
socket, which ends the first loop early (131-132), is left out.

`ServerThread` puts the two together: one round of `UpdateLoop` is `Test`, `Listen` until the socket
is empty, `Attempt` for each connection that waits (`Reject`, `Connect`, `Replace`, `Reconnect` are
the ways through `HandleConnectionAttempts` and `BindConnection`), `Links` for those who time out
or quit, `UpdateGame`, and the test for players.  It keeps `linked` equal to those with a link, so
that the properties of `ServerShutdown` are about the links the listener feeds.

### ThreadPool, ParallelLoops

The main thread runs a `Program` of loops, parallel sections and asynchronous tasks;
`stack[t]` are the calls each thread is in, since a thread that waits takes other tasks in the
meantime (`DoTask` within `WaitForFinished`). Each step is one access to memory that another
thread may see: `Enqueue` of a loop is four stores (`ForMT`, `Count`, `Zero`, `Func`),
`ExecuteStep` a fetch-and-add and a call, `ExecuteLoop` the stores of the three flags that
decide when a group may go (`EndOfSlice`, `EndOfTask`, `SelfDelete`). Queues are bags; a loop
pushes one pointer per worker.  Two places take more than one access at a time: `Step` reads
the counter and the end of the loop, which does not change while the loop runs, and
`GetTaskGroup` moves the position of the pool and resets the group it found.  Accesses are
sequentially consistent in the model; the code marks some as relaxed.  `ParallelLoops` is what
callers count on: each item runs once, a call returns after all of its items.

### SimObjectIDPool, UnitHandler, UnitLives

`SimObjectIDPool` has the operators of the pool, over its two sets: `free` ids and those that
wait (`temp`). `UnitHandler` has the table of cells, the active units, those to delete, and
the iterator of the slow updates.  Its `Update` is cut where other code runs: `BeginUpdate`,
`QueueNext` for each unit looked at, `BeginSlowUpdate`, `SlowUpdateNext`, `EndUpdate`; between
any two of these units may be created (`LoadUnit`), killed (`Kill`) or asked for their id
(`GarbageCollectUnit`). `UnitLives` is the abstract life of an id: created, dead, removed.
They may ask for the id of any dead unit while others wait.  `RecycleQueued` says whether they
may ask for that of a unit that waits for deletion itself, which the code would delete twice
(section 5).

### ObjectDependence

`listening` and `listeners` by kind, a `pointer` for each kind as users keep it, and the stack
`running` of destructors: ~CObject walks over its lists (`NextList`), calls `DependentDied`
(`Tell`), inside which all users' actions are possible again, `Destroy` among them, and goes on
(`Return`), until it takes itself off the lists of those it listened to (`End`).  `MayDie` is the
duty `Object.h:26-30` puts on callers, as far as the code relies on it: nobody is destroyed from
inside a `DependentDied` while the list being walked has it.

Each module has fault operators ("fault: ..."), plausible bugs of the definition next to them:
with one of them in the place of the right definition TLC finds the property violated.
`PROJECT.json` lists which one breaks which property.

## 4. The runs

Distinct states and seconds are those of two workers.

| run | instance | what it shows | states | s |
|---|---|---|---|---|
| `udp_lossy` | 3 + 1 chunks, packets of 2, 2 datagrams in flight each way, loss factor 1, any flush cut short by the bandwidth limit, both sockets shared (datagrams reach a closed end) | types, in-order delivery, no chunk lost, requests are for unacknowledged chunks, refinement of the channels | 62,671 | 73 |
| `udp_live` | 2 + 1 chunks, 1 datagram in flight each way; fair timers, fair network | all arrives and is acknowledged | 14,958 | 142 |
| `framing_joins` | eight messages of all kinds of length, one too long for its length field, bytes that count to 8, chunks of 3 bytes, flushes cut short | refinement of the channel up to the one too long, what comes is what all bytes are split into, pings counted, all is read | 2,644 | 71 |
| `sync_dedicated` | no host, 3 clients, one may come back, 2 frames | types, bookkeeping, no false alarm, majority | 102,082 | 10 |
| `sync_live` | a host and a client, 5 frames in bursts of 2, timeout 1 | outstanding frames bounded and never given up early, the host decides, divergence reported | 223,664 | 77 |
| `session_joins` | 2 listed players, 1 guest, 3 links (1 local), reconnecting on; a server open to spectators and saved games, and one that is not | types, complete cache, whole history, roster | 286,757 | 40 |
| `thread_lives` | 2 clients, one of which moves between two of 3 addresses, 3 connections, 5 datagrams of which any 2 arrive per round | datagrams reach their link, nobody is thrown out, the server ends, nobody is shut out | 473,741 | 68 |
| `shutdown_join` | violation, 2 clients | finding 1 | 502 | 2 |
| `pool_work` | 3 threads and 2 asynchronous workers; a loop of 2 with a loop in each iteration, a parallel section, a task | each item once, no early return, no worker uses a deleted task, all return | 283,806 | 82 |
| `units_life` | 3 ids, 3 cells, slow updates over 2 frames | types, ids, deletion, order of a round, refinement of `UnitLives`, deaths complete, all are updated | 354,362 | 177 |
| `units_dry` | violation, 2 ids | finding 2 | about 2,000 | 2 |
| `depend_deaths` | 3 objects, 2 kinds of dependence | lists and pointers never lead to what is gone, lists agree, lists stay while walked | 239,600 | 12 |

**Bounds and why they are enough.**  `Script` bounds the data: three chunks make a gap in the
middle, a resend of the front, back and middle, and an acknowledgement between naks.
`NetCap` 2 keeps an old and a new datagram in flight at once, which is what reordering and
stale acknowledgements need; in `udp_live` it is 1.  The literals of the code are shrunk to
2-3 so that each is reached.  `udp_lossy` has the constraint `ThreeChunks`: of the four chunks of
its script, three for one end and one for the other, any three may be given to `SendData`, so states
with two on one side and one on the other are in it as well as those with three on one.  In
`framing_joins` bytes count to 8 and chunks have 3 of them, so messages of one to ten bytes are cut
everywhere, between the bytes of a length field too, a length takes both bytes of its field, and one
is too long for a field of one byte.  `SyncCheck` runs start at
a frame that all clients have answered and late enough that no timeout is negative when a frame is
outstanding; a timeout of 1 frame and up to five frames make every frame
go through answer, timeout and removal; two checksums suffice because verdicts
compare with one.  `Rejoins` bounds reconnections.  In `GameSession`, `MaxBroadcasts` 6 allows a
join, a name, a departure or replacement, another join and a start; `MaxPlayers` 3 with two
listed players.  `ServerThread` has a client with two addresses, since moving and coming back to
an address that another connection holds is the hard case, and one with none to spare;
`MaxAvailable` bounds what arrives in one round, not in all.  `NumThreads` 3 is the main thread and
two workers, so that one helps while another finishes; nested loops make each of them wait.
`units_life` has as many cells as ids, the ratio of the game, and frames without end;
`depend_deaths` has destructors nested three deep.
`NetCap`, `Script`, `LastFrame`, `Rejoins`, `MaxBroadcasts`, `MaxPlayers`, `MaxAvailable` and
`Program` are the only bounds in guards.  Deadlock is not checked where the
bounds or the end of the server stop the model.  `depend_deaths` uses symmetry of objects and
kinds of dependence, which is sound as it checks no liveness; no other run does.

**Fairness.**  `udp_live`: `Update` is called every frame, so each timer is seen expired again
and again (weak fairness per timer); a datagram with a given chunk, acknowledgement or nak that
is sent again and again arrives at last (strong fairness), without which no protocol delivers.
Nothing is assumed of loss itself.  `EverythingArrives` is about two ends that both have said
something, since an end that never sends discards all but the first packet of its peer
(544-548).  `framing_joins`: flushes that are not cut short, arrivals and reads go on.
`sync_live`: clients simulate, the server reads, `CreateNewFrame` is called from the
server's loop, with frames due unless paused; nobody has to unpause, disconnect or diverge.
That property speaks of the time when no more frames come: a client that stays more than
`SYNCCHECK_TIMEOUT` behind while frames go on is never compared by the code.
`thread_lives`: the server thread runs, the join returns when it may, and time passes
whenever the thread sleeps (strong fairness of `Time`); datagrams need not arrive and clients
need not leave.  `UDPListener::Update` reads until the socket is empty, without the limit of ten
milliseconds that `UDPConnection::Update` has; the model lets datagrams arrive while the thread
sleeps, so the loop ends.  `ServerEnds` is about a thread nobody has asked to end and a
network that falls silent.  `shutdown_join`: the threads run and time passes.
`pool_work`: each thread that can take a step does.  `units_life`: the simulation goes on from
frame to frame, and the scripts that run between two steps of a frame come to an end (strong
fairness of `BeginUpdate`); no unit has to die, and none to be created.

## 5. Findings

Each is a run of its own that TLC finds violated, with the text it disagrees with quoted in
`PROJECT.json`.

1. `GameServer.cpp:856` (`shutdown_join`): the destructor's request to quit is overwritten by the
   server thread, which reads `quitServer` and writes it back.
2. `SimObjectIDPool.cpp:73` (`units_dry`): ids freed with delay return only at the moment the last
   free id is taken; when none waits at that moment, they never return and no unit can be made.

The models also have, or were cut to leave out, behaviour for which no run states a property.
It was met while writing them, and is named here for whoever extends the runs.

*Connections.*  The assertions about nak positions (`UDPConnection.cpp:564, 584`) fail for a
datagram older than the last acknowledgement; a release build requests the wrong chunks.  On a
lossy connection a chunk the other end lacks can lose its resend request (574, against the
comment at 990).  `CLocalConnection::DeleteBufferPacketAt` tests the first packet of the queue in
place of the one it takes out (`LocalConnection.cpp:107`), which is the fault `PingInFront` of
`MessageFraming`: once a ping is taken out behind another packet, the count of pings is wrong for
the client that plays on its own server.

*Framing.* The length of a message is cast to its field without a test
(`BaseNetProtocol.cpp:45, 70, 349, 490` and the like). A message that is longer than 255 bytes
with a field of one byte passes `IsValidPacket`, which asks only that it has as many bytes as
it says (`ProtocolDef.cpp:61-69`; one that says 0 or 1 is thrown away); `Flush` sends all of
them, the receiver takes out as many as it says, and the rest as further messages.  A marker's
label comes from a script as long as it likes (`LuaUnsyncedCtrl.cpp:2709-2715`). The comment
at `BaseNetProtocol.cpp:37-38` ("transmit size as uint16, but calculate it using uint32's so
overflow is safe") is true of the calculation and the buffer, not of what is sent.  The model
has it: `ImplementsChannel` and the second half of `NothingLeftBehind` end at the first such
message, and `framing_joins` sends one.

*Server.* In the first 300 frames the timeout of a sync check is computed from a negative
number as unsigned: unanswered frames are removed at once (`GameServer.cpp:676`; the runs
start later, and `Patient` speaks of the frames from the timeout on). After loading a saved
game without `AllowSpectatorJoin`, broadcasts before the first UDP client are cached for
nobody, and later clients are accepted (283, 551; excluded by the hypothesis in section 6). A
game started by a local client before any UDP client has tried to connect stops accepting for
good (2148). On a dedicated server the vote counts early answers only (613); an error found
for an older frame is reported inside the spam interval (713); a player who joins a team is
sent his NETMSG_JOIN_TEAM by the broadcast and again from the cache (2994); an anonymous
spectator who reconnects is not found by name and becomes a second participant on a muted link
(2870, 2920). `bandwidthUsage` of a link is read into a copy that is not written back, and
asking for the link of an AI that was erased makes a new entry (1974). When the units of an AI
team are given away the server frees its slot while the client keeps the AI (1501,
`SkirmishAIHandler.cpp:154`); the server counts disconnected players of a team, the client
only active ones (958, `PlayerHandler.cpp:69-79`).

*Simulation and threads.* Asking for the id of a dead unit that is already queued deletes it
twice (`UnitHandler.cpp:222, 227`; the assert is not in release builds, and the caller,
`LuaSyncedCtrl.cpp:1353`, does not test it). `RecycleQueued = FALSE` leaves it out of the
runs; `DeletedOnce` names that call as the one exception, and is proved with and without it.
A unit created behind the iterator has its first slow update in the next round.  A group of
`for_mt` is handed out again 256 loops later while nothing counts the workers that still hold
its pointer (`ThreadPool.h:147, 661`). `PushTaskGroup` asks a group whether it is asynchronous
after it was enqueued, when a worker may have deleted it (`ThreadPool.cpp:328`): a use after
delete, against "avoids UAF" at `ThreadPool.h:157`. The model has the steps (`SelfDelete` of
the worker, then `Pushed`); `NoWorkerUsesDeleted` speaks of workers and queues only, as its
name says.  A `parallel` inside a `parallel` would wait for itself (the test for it is
compiled out).

## 6. Proofs

| module | theorem | says, for all values of the constants |
|---|---|---|
| `UDPConnection_proofs` | `Invariance` | `IInv` holds |
| | `TypeCorrect`, `InOrder`, `NothingForgotten`, `ResendsUnacked` | the invariants of `udp_lossy` |
| | `Contiguous` | the two queues hold consecutive numbers up to the last one cut |
| | `ImplementsChannels` | each direction implements `ReliableChannel` |
| `SyncCheck_proofs` | `Invariance` | `SyncInv` holds |
| | `Bookkeeping`, `InnocentsAreSafe` | `ResponsesOutstanding`, `NoFalseAlarm` |
| | `DictatorshipOfTheHost` | `HostDecides`, if there is a host |
| | `MajorityRules` | `MajorityDecides`, if there is none |
| | `FramesInvariance`, `NothingStaysOutstanding`, `FramesWaitForAnswers` | `FramesInv`, `OutstandingRecent`, `Patient` |
| | `TypeCorrect` | `TypeOK` |
| `GameSession_proofs` | `TypeCorrect` | `TypeOK` |
| | `SessionInvariance`, `NobodyMissesAnything`, `CacheIsKept` | `SessionInv`, `WholeHistory`, `CacheComplete`, for servers that let spectators join if they resume a saved game |
| | `BroadcastsTellTheRoster` | `RosterAnnounced`, for all servers |
| `MessageFraming_proofs` | `Framing` | `FramingInv` holds |
| | `PingsAreCounted`, `NothingIsLeftBehind` | `PingsCounted`, `NothingLeftBehind`, whether lengths fit or not |
| | `FramingIsReliable` | cutting and joining implement `ReliableChannel` for the messages before the first that is too long for its length field |
| `ServerThread_proofs` | `TypeCorrect`, `LeavesForAReason` | of `ServerShutdown`: the thread leaves clients behind only when told to |
| | `ImplementsShutdown`, `NobodyThrownOut` | the thread with its socket implements `ServerShutdown` without its fairness; `NobodyIsThrownOut` |
| | `LinksAreHeard` | `EveryLinkIsHeard` |
| `UnitHandler_proofs` | `HandlerInvariance`, `TypeCorrect` | `HandlerInv` and `TypeOK` hold |
| | `NoIdIsLost`, `NothingIsDeletedTwice`, `RoundsKeepOrder` | `IdsAccounted`, `DeletedOnce`, `RoundInOrder` |
| | `UnitsLiveAndDie` | the handler implements `UnitLives`, if no script asks for a unit that waits for deletion |
| `ObjectDependence_proofs` | `Invariance`, `TypeCorrect` | `IInv` and `TypeOK` hold |
| | `ListsSafe`, `PointersSafe`, `ListsMatch`, `ListsStay` | the four properties of `depend_deaths` |
| `ThreadPool_proofs` | `Invariance`, `NoWorkerHasDeleted` | `PoolInv` and `NoWorkerUsesDeleted` hold |
| | `LoopInvariance`, `EachItemRunsOnce` | `PoolLoopInv` holds and the pool implements `ParallelLoops`, while no group is reused that is still referred to |

*UDPConnection.*  From `EndsAssumption`, `ParamAssumption` and `BoundAssumption`, for any script,
window, packet size, loss factor and number of datagrams.  In-order delivery is not inductive
by itself: it needs that datagrams carry only chunks of the log and acknowledge only what was
received (`FlightInv`), that the two queues of a sender are the end of its log (`SenderInv`), and
that what a sender has forgotten its peer has (`LinkInv`).  `IInv` is the conjunction.  Each
action is proved to keep each part: cutting appends to log and queue; sending moves a prefix of
`newChunks` to `unackedChunks`, so the queues stay the end of the log; an acknowledgement removes
a prefix not beyond what the peer has; arrival extends `msgQueue` by the next chunks of the log.
Refinement: `SendData` maps to `Send`, an arrival of new chunks in order to `Deliver`, all else to
stuttering, by the same invariant.

*MessageFraming.* From `ScriptAssumption` and `BoundsAssumption`, for any messages, any table
of types, any size of bytes and of chunks, and flushes of any number of messages at any time.
Nothing is assumed of lengths: a message may be longer than its length field can say.  The
bytes of the messages that `Flush` does not throw away make one stream (`Stream`); `Ends[n]`
is where message n ends in it, and `Piece(p, q)` what lies between two places.  `FramingInv`
says where everything is: messages in `outgoingData` are the last ones of the script so far,
the chunks are pieces of the stream, each from where the one before ends, up to the end of the
last message cut, and what lies before the first of them, split as a whole, gives the messages
that came and the fragment (`Places`). Neither that nothing is left behind nor the refinement
is inductive without it, because what a chunk means depends on what came before.

A flush lays down the piece of the messages it takes and cuts it at multiples of the chunk
size (`GatheredIsPiece`, `CutOfPiece`). An arrival is the case that needs an argument about
`Split`: what came was split without the bytes that arrive, and these are split together with
the fragment only.  `SplitJoins` says that this makes no difference, for any two sequences of
bytes: a buffer is split alike whether its bytes come at once or in parts.  Its argument takes
parts in the order of their length: either a message is complete at the front of the first
part, and its length is the same with more bytes behind it (`PacketLengthStays`); or it is
not, and all that is left of the first part is the fragment, which the bytes that follow
complete or not; or no message begins there, and the byte is skipped either way; what remains
of the first part is shorter.  `ChunksJoin` is the same for many chunks.  With no chunks on
the way this is the first half of `NothingLeftBehind`.

That messages come whole is the other half, and here lengths have to fit: `TwoDigits` and
`BytesState` show that a message as it is written states its own length if its field holds it,
so it is split off as one message, and the bytes of the first n are split into `Sent(n)`, with
no fragment (`SplitOfSent`). `Messages!Deliver` is then that what is found in a longer piece
begins with what was found in a shorter one (`FoundGrows`), both cut off at the messages
before the first that does not fit (`Whole`).

`Split` is a recursive function and `Flush`, `ProcessRawPacket`,
`GetNumQueuedSimFrameMessages`, `Written` and `Sent` are folds, whose library definition
chooses a recursive function on sets of indices.  That these exist is proved as in
*SyncCheck*, with least counterexamples (`Upwards`, `Downwards`, `FoldExists`, `SplitIs`);
then each fold is a sequence of intermediate results (`GatheredFold`, `JoinedFold`,
`PeekedFold`, `AddedFold`), and `SplitStep` is the recursion as a reader of the code has it in
mind.  `PingsCounted` needs only that the number of pings in a queue is the sum of those of
its parts (`PingsJoin`, `PingsWithout`), as cardinalities of sets of places.

*SyncCheck.*  From its assumptions, for any players, host, timeouts, burst and word size.  That
nobody in sync is accused is not a fact about one state: what a player answered over an earlier
connection, or before it went out of sync and came back, must not be compared.  `SyncInv` says so:
a client with a connection and in sync has only given, or has on the way, answers that are in
sync (`Honest`), a player without a connection has none on the way, and checksums are kept for
outstanding frames and connected players only.  `Kill` and `Connect` keep it because they empty
what the player answered.  A verdict against p rests on a frame that p and another connected
client answered differently (`AccusedDiffers`), so one of the two is not in sync; with a host
the other one is the host.  Without a host the accused's answer lost the vote: when all connected
clients have answered the frame, everybody in sync gave the same checksum, so if they are more than
half of all, no other checksum has as many answers (`MajorityRules`; `Votes` are cardinalities of
disjoint sets of players).

How long a frame stays outstanding is another invariant, `FramesInv`, independent of what
clients do: the server's frame number only grows, by at most `Burst` at a time, and each
growth is preceded by a `CheckSync` that removes what is older than the timeout.  `Patient`
follows from the same facts, from the frame on at which `serverFrameNum - SyncCheckTimeout` is
not negative, which is where the unsigned comparison is the one meant; `WordSizeAssumption`
says that frame numbers fit the word.

`TypeOK` is the one that needs to know what a recursive function computes: the frame of a
player's last message, folded over the outstanding frames in ascending order.  Induction over
data is out of reach, but not the argument by least counterexample: numbers have a smallest
one for which a function is not the one wanted, and there the recursive equation gives a
contradiction.  Both that the function of `LastMessage` exists and that its values are frames
are shown so.

*GameSession.*  From `NamesAssumption` and the module's other assumptions, for any script, guests
and links, and any number of broadcasts.  `WholeHistory` needs three facts that together are
`SessionInv`: the listener is open exactly as long as `Broadcast` caches, the cache is the whole
history until then, and no two participants share a link, so what is sent over a link was sent to
its participant.  A participant who arrives is sent what concerns him alone and the cache, which
is the history; from then on each broadcast is appended to both.  `StartGame` gives up the cache
and the listener at once, `Attempt` never lowers `canReconnect`.  The hypothesis
that a server which resumes a saved game lets spectators join excludes one case in which the
three fail: `PostLoad` starts the game while the listener is open and nothing is cached.

`RosterAnnounced` is about the history and needs no hypothesis: a participant is in the game
if and only if his arrival is in it after his last departure.  What it needs besides types is
that names are announced of known numbers only (`NamesKnown`). `RosterStep` is the argument
for all actions: packets put at the end of the history change who is announced for those they
speak of and for nobody else, so each action has only to show that it speaks of those whose
state it changes.

*ServerShutdown.*  `quitServer` is up, or about to be written, for a reason: nobody is linked, or
somebody told the server to end.  While the thread reads the net, and clients may come, only the
second reason is possible, because the loop's test comes before; this is the strengthening.

*ServerThread.* From its assumptions, for any clients, addresses, connections and datagrams.
Each step is one of `ServerShutdown` or leaves its variables alone, since whatever the socket
brings, a round ends with some set of clients linked.  For `EveryLinkIsHeard` the invariant
`HeardInv` adds that nobody shares a connection and that none both waits and is somebody's:
giving up a link, or the connection a client came back with, then takes away one entry of the
map and no other's.  Rekeying is the case that needs the map to be right before: only the link
that moves has an address that differs from its entry, and the entry it moves to is that of
the connection which is given up (`AttemptStep`).

*UnitHandler.* From `ObjectsAssumption` and the module's other assumptions, for any number of
ids, cells and frames, and whatever scripts ask for.  `HandlerInv` joins what the pool, the
table and the lists say of each other: an id is free, waiting, or that of one active unit,
never two; a unit is in its cell as long as it is active; those to delete are active, dead and
all different; the iterator stays within the list and what is before it is the round so far.
None of these is inductive alone: deleting a unit shifts the list under the iterator, so
`RoundInOrder` needs that the position `DeleteUnit` steps back by is the one the unit had,
which needs that active units are all different.  A script that asks for a unit that waits
already puts it into the list of those to delete a second time.  The second deletion finds the
unit neither in its cell nor active; the invariant says how the list looks until then, and
that at the end of the call it is sound again (`DeleteAgainStep`). What it does to the unit's
storage is not in the model, so this is no licence to do it.  Refinement of `UnitLives` needs
that no script does it, and follows then: an id is taken only when it is in nobody's cell.

*ObjectDependence.*  From `NoneAssumption` alone, for any objects and kinds of dependence, and any
depth of nested destructors.  That lists lead to living objects is not inductive: while
destructors run, a link may be known on one side only.  `LinkInv` says when: whoever o listens to
has o on its list, unless it is being destroyed and has told o; `BackInv` is the other direction:
whoever is on the list of o listens to o, unless o has told it or its own destructor has ended its
links; `EmptyInv` that what is gone is on no list; `PointerInv` that a pointer has its dependence;
`WalkInv` and `RunningInv` that a destructor is on the stack exactly while it runs, and that the
ones inside it are of objects it is not walking over, which is `MayDie` kept over time.

*ThreadPool.* From `ThreadsAssumption` and `ProgramAssumption`, for any number of threads,
size of the pools and program.  A thread is a stack of frames, and most steps change the frame
on top; the proofs speak of frames by their place, a thread and a height from the bottom,
which stays when frames are put on top (`frames`, and `SetFrames`, `PopFrames`, `PushFrames`,
`NestedFrames` for what a step does to it). `PoolInv` says which frames there are, and of a
group that is no loop's (a child of `parallel`, or a task) that it is at one place at most: in
a queue, once, or in a frame that runs it (`OneUser`); that it is undeleted as long (`Alive`),
and that `execLoopDone`, the last of the three flags, is stored by that one user as the last
thing before it leaves.  `NoWorkerUsesDeleted` follows, though several threads look at the
flags at once.  Of a task that is deleted only the thread that enqueued it may still have the
pointer; of that the theorem says nothing, because it does use it (section 5).

That each item runs once is about the loops, whose groups many threads have.  `LoopInv` says,
of a group that is open (its caller is past the four stores of `Enqueue`): `func` and `to` are
those of its caller; an item was run exactly if it is below the counter `ctr` and nobody is
still about to run it; no two threads have the same item; and `remaining` is the number of
items not yet counted (`Pending`), so that it is zero only when all were run.  A thread that
comes late, to a group whose caller has gone, finds `ctr` not below `to` and takes nothing.
While the caller still stores, no other thread refers to the group.  The calls form a tree, so
`CallersInv` says that a call has one frame that waits for it, and that what is not yet called
has run nothing.  From it every step is a `Run` or `Return` of `ParallelLoops` or a stutter
(`StepMaps`).

None of it holds when a group is handed out again while somebody refers to it, and the code
does not prevent that: `GetTaskGroup` takes the next of 256 groups, used or not
(`ThreadPool.h:661`; a comment at 646 calls more than 256 nested loops uncommon, but loops
that follow each other count as well, since nothing waits for workers that still hold a
pointer). So `EachItemRunsOnce` has the hypothesis `ReuseIsSafe`, an action property: whenever
a pool's position moves, the group it hands out is in no queue and no frame.  `pool_work`
meets it, whose pools have as many groups as it has loops for them.  A game does not have to:
it begins more than 256 loops within seconds, and whether a worker is late by that many is up
to the speed of the threads.  Nothing is claimed without `ReuseIsSafe`.

Model-checked only: liveness under fairness, which is out of TLAPS's reach (`EverythingArrives`,
`EverythingIsRead`, `DivergenceIsReported`, `ServerEnds`, `AttemptsAreHeard`, `AllReturn`,
`DeathsComplete`, `EveryUnitSlowUpdated`).

## 7. Not modelled, and why

The limiter of `ServerReadNet`, teams and AIs, local connections, waits, features, unit scripts and
line of sight are planned (section 2).  Of the thread pool `parallel_reduce`, the start and stop of
threads and their sleep are left out; of messages the packing of their fields, which has no state.
Passwords, versions, demo playback and chat do not take part in the properties.  What units,
weapons and paths compute (floating point over large maps), rendering, Lua, files and vendored
libraries are out of TLC's reach or have no protocol to check.
