-------------------------- MODULE ReliableChannel --------------------------
(***************************************************************************)
(* What CConnection promises its users (rts/System/Net/Connection.h): the  *)
(* data given to SendData at one end comes out of GetData at the other     *)
(* end, in the same order, without loss, duplicates or inventions.         *)
(***************************************************************************)
EXTENDS Naturals, Sequences

CONSTANT Data

VARIABLES
  given,  \* all data handed to SendData, in order
  taken   \* all data that has come out at the other end

chan == <<given, taken>>

Init == given = <<>> /\ taken = <<>>

Send == \E d \in Data : given' = Append(given, d) /\ UNCHANGED taken

\* one or more pieces of data become available to the other end
Deliver ==
  /\ \E n \in (Len(taken) + 1)..Len(given) : taken' = SubSeq(given, 1, n)
  /\ UNCHANGED given

Next == Send \/ Deliver

Spec == Init /\ [][Next]_chan

=============================================================================
