--------------------------------- MODULE Sem ---------------------------------
(***************************************************************************)
(* Counting semaphores of the Zephyr kernel (kernel/sem.c).  Give and      *)
(* reset may be called by threads and interrupts.                          *)
(***************************************************************************)
EXTENDS PollEvents

CONSTANT Limit   \* of every semaphore

ASSUME SemAssumption == Limit \in Nat \ {0}

VARIABLES
  count,
  credit   \* history: gives that had an effect, less the takes that returned 0
           \* and what was reset

semVars == <<count, credit>>

SemInit ==
  /\ count = [s \in Sems |-> 0]
  /\ credit = [s \in Sems |-> 0]

-----------------------------------------------------------------------------
\* A give wakes the first waiter, or else counts, up to the limit.
Given(s) == IF count[s] # Limit THEN count[s] + 1 ELSE count[s]

k_sem_give(s) ==
  /\ Unlocked(s)
  /\ \/ /\ wait_q[s] # <<>>
        /\ WakeWith({Head(wait_q[s])}, s, "0")
        /\ credit' = [credit EXCEPT ![s] = @ + 1]
        /\ UNCHANGED <<count, handling>>
     \/ /\ wait_q[s] = <<>>
        /\ count' = [count EXCEPT ![s] = Given(s)]
        /\ credit' = [credit EXCEPT ![s] = @ + count'[s] - count[s]]
        /\ handling' = [handling EXCEPT ![s] = "AVAILABLE"]
        /\ UNCHANGED waitVars
  /\ UNCHANGED <<prio, call, data, eventVars, triggerVars, tworkVars>>

\* (With K_NO_WAIT a take that finds no count returns -EBUSY, without effect.)
k_sem_take(t, s, timeout) ==
  /\ Running(t) /\ Unlocked(s)
  /\ \/ /\ count[s] > 0
        /\ count' = [count EXCEPT ![s] = @ - 1]
        /\ credit' = [credit EXCEPT ![s] = @ - 1]
        /\ UNCHANGED <<waitVars, call>>
     \/ /\ count[s] = 0
        /\ Pend(t, s, timeout, "take")
        /\ UNCHANGED semVars
  /\ UNCHANGED <<prio, data, handling, eventVars, triggerVars, tworkVars>>

TakeReturns(t) ==
  /\ Returning(t, {"take"})
  /\ credit' = [credit EXCEPT ![call[t].obj] = IF swap_retval[t] = "0" THEN @ - 1 ELSE @]
  /\ call' = [call EXCEPT ![t] = Idle]
  /\ UNCHANGED <<prio, waitVars, count, data, handling, eventVars, triggerVars, tworkVars>>

\* All waiters are woken, without the semaphore.
ResetAsGive(s) == "0"

ResetAnswer(s) == "-EAGAIN"

k_sem_reset(s) ==
  /\ Unlocked(s)
  /\ WakeWith(ToSet(wait_q[s]), s, ResetAnswer(s))
  /\ count' = [count EXCEPT ![s] = 0]
  /\ credit' = [credit EXCEPT ![s] = @ - count[s]]
  /\ handling' = [handling EXCEPT ![s] = "AVAILABLE"]
  /\ UNCHANGED <<prio, call, data, eventVars, triggerVars, tworkVars>>

-----------------------------------------------------------------------------
\* No semaphore is taken that was not given, and none is lost: what was given
\* is the count, or on its way to a thread that was woken for it, whatever
\* waits timed out, were reset, or were ended by the polling code.
SemConserved ==
  \A s \in Sems :
    credit[s] = count[s]
      + Cardinality({t \in Threads : /\ Returning(t, {"take"}) /\ call[t].obj = s
                                     /\ swap_retval[t] = "0"})
=============================================================================
