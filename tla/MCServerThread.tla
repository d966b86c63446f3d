--------------------------- MODULE MCServerThread ---------------------------
(***************************************************************************)
(* Small instances of ServerThread for TLC: one client with two addresses, *)
(* another with one.                                                       *)
(***************************************************************************)
EXTENDS ServerThread, TLC

CONSTANTS a1, a2, b1, c1, c2

TwoAndOne == a1 :> c1 @@ a2 :> c1 @@ b1 :> c2

\* c1 connects from a1, and moves between a1 and a2
Moves ==
  {[from |-> a1, kind |-> "attempt"], [from |-> a1, kind |-> "reattempt"],
   [from |-> a2, kind |-> "reattempt"], [from |-> a2, kind |-> "other"],
   [from |-> b1, kind |-> "attempt"]}
=============================================================================
