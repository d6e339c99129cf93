----------------------------- MODULE MCCondVar -----------------------------
(* An instance of CondVar for TLC. *)
EXTENDS CondVar, TLC

CONSTANTS t1, t2, t3, m1, m2, cv1

\* The first thread is above the ceiling of 1.
Prios == t1 :> 0 @@ t2 :> 2 @@ t3 :> 3
=============================================================================
