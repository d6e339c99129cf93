------------------------------ MODULE MCMutex ------------------------------
(* Instances of Mutex for TLC. *)
EXTENDS Mutex, TLC

CONSTANTS t1, t2, t3, m1, m2

\* The first thread is above the ceiling of 1.
Prios == t1 :> 0 @@ t2 :> 2 @@ t3 :> 3
=============================================================================
