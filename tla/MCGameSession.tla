--------------------------- MODULE MCGameSession ---------------------------
(***************************************************************************)
(* Small instances of GameSession for TLC.                                 *)
(***************************************************************************)
EXTENDS GameSession

Two == <<"ann", "bob">>

\* one that lets spectators join and loads a saved game, and one of players only
OpenOrClosed == {[specJoin |-> TRUE, saved |-> TRUE], [specJoin |-> FALSE, saved |-> FALSE]}
=============================================================================
