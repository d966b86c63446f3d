---------------------------- MODULE ParallelLoops ----------------------------
(***************************************************************************)
(* What callers of the thread pool count on (rts/System/Threading/         *)
(* ThreadPool.h): each item of work of a call runs exactly once, and a     *)
(* call that waits returns only after all of its items have run.           *)
(***************************************************************************)
EXTENDS Naturals

CONSTANTS
  Calls,        \* calls of for_mt, parallel and Enqueue
  Waiting,      \* those that return only when finished
  Items         \* the work of each call

VARIABLES ran, returned

Init ==
  /\ ran = [c \in Calls |-> [i \in Items[c] |-> 0]]
  /\ returned = {}

Run ==
  /\ \E c \in Calls \ (returned \cap Waiting) : \E i \in Items[c] :
       /\ ran[c][i] = 0
       /\ ran' = [ran EXCEPT ![c][i] = 1]
  /\ UNCHANGED returned

Return ==
  /\ \E c \in Calls \ returned :
       /\ c \in Waiting => \A i \in Items[c] : ran[c][i] = 1
       /\ returned' = returned \cup {c}
  /\ UNCHANGED ran

Spec == Init /\ [][Run \/ Return]_<<ran, returned>>
=============================================================================
