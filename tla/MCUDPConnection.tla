-------------------------- MODULE MCUDPConnection --------------------------
(***************************************************************************)
(* Small instances of UDPConnection for TLC.                               *)
(***************************************************************************)
EXTENDS UDPConnection, TLC

Talk31 == A :> <<"a1", "a2", "a3">> @@ B :> <<"b1">>
Talk21 == A :> <<"a1", "a2">> @@ B :> <<"b1">>

\* three chunks in all, whoever sends them
ThreeChunks == Len(log[A] \o outgoingData[A]) + Len(log[B] \o outgoingData[B]) <= 3

AllData == {"a1", "a2", "a3", "b1"}
=============================================================================
