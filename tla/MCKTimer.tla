------------------------------ MODULE MCKTimer ------------------------------
(* Instances of KTimer for TLC. *)
EXTENDS KTimer, TLC

CONSTANTS t1, t2

\* Timers are interchangeable.
Symmetric == Permutations(Timers)
=============================================================================
