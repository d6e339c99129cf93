--------------------------- MODULE MCTimeoutQueue ---------------------------
(* Instances of TimeoutQueue for TLC. *)
EXTENDS TimeoutQueue, TLC

CONSTANTS t1, t2, t3, p1, p2

\* Timeouts are interchangeable.
Symmetric == Permutations(Timeouts)
=============================================================================
