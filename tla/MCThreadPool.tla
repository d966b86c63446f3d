---------------------------- MODULE MCThreadPool ----------------------------
(* Programs of the main thread for TLC *)
EXTENDS ThreadPool

For(n, inner) == [kind |-> "for", size |-> n, inner |-> inner]
One(kind) == [kind |-> kind, size |-> 1, inner |-> 0]

Mixed == <<For(2, 1), One("parallel"), One("async")>>
=============================================================================
