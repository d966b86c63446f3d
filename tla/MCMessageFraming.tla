-------------------------- MODULE MCMessageFraming --------------------------
(***************************************************************************)
(* Bytes count to eight.  Messages of all kinds, shorter and longer than a *)
(* chunk, and at the end one of ten bytes whose length field says 2: the   *)
(* rest of it looks like a ping and other messages, the last of which      *)
(* takes in the message that follows.                                      *)
(***************************************************************************)
EXTENDS MessageFraming, TLC

Known == 0 :> 0 @@ 1 :> 1 @@ 2 :> -1 @@ 3 :> -2 @@ 4 :> 5 @@ 5 :> 0 @@ 6 :> 0 @@ 7 :> 0

M(type, payload) == [type |-> type, payload |-> payload]

AllKinds == <<M(1, <<>>), M(3, <<1, 3>>), M(2, <<>>), M(5, <<2>>), M(4, <<3, 1, 0, 2>>),
              M(3, <<1, 2, 3, 4, 5, 6>>), M(2, <<1, 5, 3, 4, 0, 1, 4, 2>>), M(1, <<>>)>>
=============================================================================
