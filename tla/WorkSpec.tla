------------------------------ MODULE WorkSpec ------------------------------
(***************************************************************************)
(* What a work queue promises about the execution of work items, whatever  *)
(* queues, lists, flags and threads are behind it.                         *)
(***************************************************************************)
CONSTANTS
  Works,
  Threads   \* that execute items
VARIABLES
  queued,   \* items that wait to be executed
  running   \* <<thread, item>>: the executions in progress

vars == <<queued, running>>

Init == queued = {} /\ running = {}

\* A submission; one of an item that is queued already has no effect.
Submit(w) ==
  /\ w \notin queued
  /\ queued' = queued \cup {w}
  /\ UNCHANGED running

\* One execution starts, never beside another one of the same item.
Start(t, w) ==
  /\ w \in queued
  /\ \A r \in running : r[1] # t /\ r[2] # w
  /\ queued' = queued \ {w}
  /\ running' = running \cup {<<t, w>>}

Finish(t, w) ==
  /\ <<t, w>> \in running
  /\ running' = running \ {<<t, w>>}
  /\ UNCHANGED queued

\* The item is cancelled before it is executed.
Withdraw(w) ==
  /\ w \in queued
  /\ queued' = queued \ {w}
  /\ UNCHANGED running

Next ==
  \E w \in Works :
    \/ Submit(w)
    \/ \E t \in Threads : Start(t, w) \/ Finish(t, w)
    \/ Withdraw(w)

Spec == Init /\ [][Next]_vars

\* Executions end, and what is queued is executed or cancelled.
FairSpec ==
  /\ Spec
  /\ \A w \in Works : WF_vars(Withdraw(w) \/ \E t \in Threads : Start(t, w))
  /\ \A t \in Threads, w \in Works : WF_vars(Finish(t, w))
=============================================================================
