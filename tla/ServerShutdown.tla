--------------------------- MODULE ServerShutdown ---------------------------
(***************************************************************************)
(* How the thread of the game server ends (rts/Net/GameServer.cpp): the    *)
(* loop of UpdateLoop, the test for players at the end of Update, and the  *)
(* destructor, which runs in another thread, asks the loop to end and      *)
(* waits for it.  The loop holds gameServerMutex, the destructor does not. *)
(*                                                                         *)
(* Of the clients only matters whether they have a link.  They come and go *)
(* in ServerReadNet; when the game starts is not modelled.  Exceptions in  *)
(* the server thread are left out.                                         *)
(***************************************************************************)
EXTENDS FiniteSets

CONSTANT Clients

ASSUME ClientsAssumption == IsFiniteSet(Clients)

VARIABLES
  quitServer,
  linked,               \* the clients whose clientLink is not null
  gameHasStarted,
  pregameTimeoutReached,
  pc,                   \* what the server thread does next
  quit,                 \* server thread: the value to be written to quitServer
  owner,                \* the thread that owns the server: "uses", "joins", "gone"
  killed                \* history: whether the server was told to end

game == <<gameHasStarted, pregameTimeoutReached>>
vars == <<quitServer, linked, game, pc, quit, owner, killed>>

\* AddAutohostInterface asks to quit when there is no autohost
Init ==
  /\ quitServer \in BOOLEAN /\ killed = quitServer
  /\ linked = {}
  /\ gameHasStarted = FALSE /\ pregameTimeoutReached = FALSE
  /\ pc = "test" /\ quit = FALSE
  /\ owner = "uses"

-----------------------------------------------------------------------------
(* UpdateLoop *)

Test ==
  /\ pc = "test"
  /\ pc' = IF quitServer THEN "leave" ELSE "read"
  /\ UNCHANGED <<quitServer, linked, game, quit, owner, killed>>

\* clients connect, quit or time out
ServerReadNet ==
  /\ pc = "read"
  /\ linked' \in SUBSET Clients
  /\ pc' = "update"
  /\ UNCHANGED <<quitServer, game, quit, owner, killed>>

\* the game may start, and a command of the autohost may be "kill"
Update ==
  /\ pc = "update"
  /\ gameHasStarted' \in {gameHasStarted, TRUE}
  /\ killed' \in {killed, TRUE}
  /\ quitServer' = (quitServer \/ (killed' /\ ~killed))
  /\ pc' = "check"
  /\ UNCHANGED <<linked, pregameTimeoutReached, quit, owner>>

CanCheckForPlayers == gameHasStarted \/ pregameTimeoutReached

\* fault: "hasPlayers &=" for "hasPlayers |="
QuitValueUnlessAll == quitServer \/ linked # Clients

QuitValue == quitServer \/ linked = {}

\* quitServer = (quitServer || !hasPlayers): a read, and then a write
ReadQuit ==
  /\ pc = "check"
  /\ IF CanCheckForPlayers
     THEN pc' = "write" /\ quit' = QuitValue
     ELSE pc' = "test" /\ UNCHANGED quit
  /\ UNCHANGED <<quitServer, linked, game, owner, killed>>

WriteQuit ==
  /\ pc = "write"
  /\ quitServer' = quit
  /\ pc' = "test"
  /\ UNCHANGED <<linked, game, quit, owner, killed>>

\* after the loop: all are told to quit, and have time to close their links
Leave ==
  /\ pc = "leave"
  /\ pc' = "done"
  /\ UNCHANGED <<quitServer, linked, game, quit, owner, killed>>

-----------------------------------------------------------------------------
(* The owner, and time *)

Destroy ==
  /\ owner = "uses"
  /\ quitServer' = TRUE
  /\ owner' = "joins"
  /\ UNCHANGED <<linked, game, pc, quit, killed>>

\* thread.join() returns
Join ==
  /\ owner = "joins" /\ pc = "done"
  /\ owner' = "gone"
  /\ UNCHANGED <<quitServer, linked, game, pc, quit, killed>>

PregameTimeout ==
  /\ ~pregameTimeoutReached
  /\ pregameTimeoutReached' = TRUE
  /\ UNCHANGED <<quitServer, linked, gameHasStarted, pc, quit, owner, killed>>

Thread == Test \/ ServerReadNet \/ Update \/ ReadQuit \/ WriteQuit \/ Leave

Next == Thread \/ Destroy \/ Join \/ PregameTimeout

\* both threads run, and time passes; the owner need not give up the server
Spec ==
  /\ Init /\ [][Next]_vars
  /\ WF_vars(Thread) /\ WF_vars(Join) /\ WF_vars(PregameTimeout)

-----------------------------------------------------------------------------
(* Properties *)

TypeOK ==
  /\ {quitServer, quit, gameHasStarted, pregameTimeoutReached, killed} \subseteq BOOLEAN
  /\ linked \subseteq Clients
  /\ pc \in {"test", "read", "update", "check", "write", "leave", "done"}
  /\ owner \in {"uses", "joins", "gone"}

\* The loop is left with clients connected only when the server was told to end
\* or its owner gives it up, although the test for players and the loop's own
\* test are made at different times (846-857, 2679).
NobodyIsThrownOut ==
  pc \in {"leave", "done"} => linked = {} \/ killed \/ owner # "uses"

\* "after this, demoRecorder goes out of scope and its dtor is called" (154):
\* the destructor gets past the join, also while clients stay connected (148).
ShutdownCompletes == (owner = "joins") ~> (owner = "gone")
=============================================================================
