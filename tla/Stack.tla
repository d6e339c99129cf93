-------------------------------- MODULE Stack --------------------------------
(***************************************************************************)
(* Stacks of the Zephyr kernel (kernel/stack.c): an array of words, and    *)
(* threads that wait for one.  What is pushed is a word that nobody else   *)
(* has, so that each can be told from the others.                          *)
(***************************************************************************)
EXTENDS PollEvents

CONSTANTS Stacks, Words, num_entries

ASSUME StackAssumption ==
  Stacks \subseteq Objects /\ None \notin Words /\ num_entries \in Nat \ {0}

VARIABLE pushed   \* the words from base to next

StackInit == pushed = [k \in Stacks |-> <<>>]

Pushed == UNION {ToSet(pushed[k]) : k \in Stacks}

-----------------------------------------------------------------------------
\* By a thread or an interrupt.  (A full stack takes none: -ENOMEM.)
k_stack_push(k, i) ==
  /\ i \notin Pushed \cup HandedOver
  /\ Len(pushed[k]) # num_entries
  /\ \/ /\ wait_q[k] # <<>>
        /\ swap_data' = [swap_data EXCEPT ![Head(wait_q[k])] = i]
        /\ WakeWith({Head(wait_q[k])}, k, "0")
        /\ UNCHANGED pushed
     \/ /\ wait_q[k] = <<>>
        /\ pushed' = [pushed EXCEPT ![k] = Append(@, i)]
        /\ UNCHANGED <<swap_data, waitVars>>
  /\ UNCHANGED <<prio, call, data, handling, eventVars, triggerVars, tworkVars>>

\* (With K_NO_WAIT an empty stack returns -EBUSY, without effect.)
k_stack_pop(t, k, timeout) ==
  /\ Running(t)
  /\ \/ /\ pushed[k] # <<>>
        /\ pushed' = [pushed EXCEPT ![k] = Front(@)]
        /\ UNCHANGED <<waitVars, call>>
     \/ /\ pushed[k] = <<>>
        /\ Pend(t, k, timeout, "pop")
        /\ UNCHANGED pushed
  /\ UNCHANGED <<prio, swap_data, data, handling, eventVars, triggerVars, tworkVars>>
=============================================================================
