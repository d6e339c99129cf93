---------------------------- MODULE MCWorkQueue ----------------------------
(* Instances of WorkQueue for TLC. *)
EXTENDS WorkQueue

CONSTANTS w1, d1, q1, q2, c1, c2

\* One client flushes and cancels, the other drains and stops.
MayMixed == c1 :> {"flush", "cancel"} @@ c2 :> {"flush", "drain", "stop"}

\* Two threads cancel.
MayCancel == c1 :> {"cancel"} @@ c2 :> {"cancel"}

Symmetric == Permutations(Queues)
=============================================================================
