-------------------------------- MODULE Mutex --------------------------------
(***************************************************************************)
(* Mutexes of the Zephyr kernel (kernel/mutex.c): recursive locking, the   *)
(* hand-over to a waiting thread, waits that time out, and priority        *)
(* inheritance.  One spinlock protects all mutexes, an action is one       *)
(* critical section.                                                       *)
(***************************************************************************)
EXTENDS WaitQueue

CONSTANTS
  Mutexes,
  PRIORITY_CEILING,  \* CONFIG_PRIORITY_CEILING
  MaxCount,          \* bound: how often a mutex is locked recursively
  Reverse_order      \* do threads unlock in the reverse order of locking?

ASSUME MutexAssumption ==
  /\ Mutexes \subseteq Objects
  /\ PRIORITY_CEILING \in Int
  /\ MaxCount \in Nat \ {0}
  /\ Reverse_order \in BOOLEAN

VARIABLES
  owner,
  lock_count,
  owner_orig_prio,  \* priority the owner had when it got the mutex
  locking,          \* the mutex a thread waits for in k_mutex_lock
  held,             \* history: what each thread has locked, in that order
  nested            \* history: has a thread locked one mutex while it had another?

mutexVars == <<owner, lock_count, owner_orig_prio>>
vars == <<prio, waitVars, mutexVars, locking, held, nested>>

TypeOK ==
  /\ WaitTypeOK
  /\ owner \in [Mutexes -> Threads \cup {None}]
  /\ lock_count \in [Mutexes -> 0 .. MaxCount]
  /\ owner_orig_prio \in [Mutexes -> Int]
  /\ locking \in [Threads -> Mutexes \cup {None}]
  /\ held \in [Threads -> Seq(Mutexes)]

Init ==
  /\ WaitInit
  /\ owner = [m \in Mutexes |-> None]
  /\ lock_count = [m \in Mutexes |-> 0]
  /\ owner_orig_prio = [m \in Mutexes |-> 0]
  /\ locking = [t \in Threads |-> None]
  /\ held = [t \in Threads |-> <<>>] /\ nested = FALSE

-----------------------------------------------------------------------------
HigherPrio(a, b) == IF a < b THEN a ELSE b

new_prio_for_inheritance(target, limit) ==
  LET p == HigherPrio(target, limit)
  IN  IF p >= PRIORITY_CEILING THEN p ELSE PRIORITY_CEILING

Running(t) == locking[t] = None /\ pended_on[t] = None

\* From here on, locking m was locking a second mutex.
Nests(t, m) == nested \/ (ToSet(held[t]) \ {m}) # {}

\* The mutex is free, or t has locked it already.
SavedAgain(m, t) == prio[t]

SavedPrio(m, t) == IF lock_count[m] = 0 THEN prio[t] ELSE owner_orig_prio[m]

LockFree(t, m) ==
  /\ lock_count[m] = 0 \/ owner[m] = t
  /\ lock_count[m] < MaxCount
  /\ owner_orig_prio' = [owner_orig_prio EXCEPT ![m] = SavedPrio(m, t)]
  /\ lock_count' = [lock_count EXCEPT ![m] = @ + 1]
  /\ owner' = [owner EXCEPT ![m] = t]
  /\ held' = IF owner[m] = t THEN held ELSE [held EXCEPT ![t] = Append(@, m)]
  /\ nested' = Nests(t, m)
  /\ UNCHANGED <<prio, waitVars, locking>>

\* Another thread owns it: its priority is raised, and t waits.  (With
\* K_NO_WAIT the call returns -EBUSY and changes nothing.)
Raised(t, m) ==
  LET new == new_prio_for_inheritance(prio[t], prio[owner[m]])
  IN  IF new < prio[owner[m]] THEN [prio EXCEPT ![owner[m]] = new] ELSE prio

LockWait(t, m, timeout) ==
  /\ lock_count[m] # 0 /\ owner[m] # t
  /\ prio' = Raised(t, m)
  /\ z_pend_curr(t, m, timeout, prio')
  /\ locking' = [locking EXCEPT ![t] = m]
  /\ nested' = Nests(t, m)
  /\ UNCHANGED <<mutexVars, held>>

k_mutex_lock(t, m, timeout) ==
  /\ Running(t)
  /\ LockFree(t, m) \/ LockWait(t, m, timeout)

\* z_pend_curr has returned 0: the mutex was handed over.
LockDone(t) ==
  /\ locking[t] # None /\ pended_on[t] = None
  /\ swap_retval[t] = "0"
  /\ locking' = [locking EXCEPT ![t] = None]
  /\ UNCHANGED <<prio, waitVars, mutexVars, held, nested>>

\* z_pend_curr has returned -EAGAIN: the owner, whoever that is by now, gets
\* the priority it has without t.
NotLowered(m) == prio

Lowered(m) ==
  IF owner[m] = None THEN prio
  ELSE [prio EXCEPT ![owner[m]] =
          IF wait_q[m] = <<>> THEN owner_orig_prio[m]
          ELSE new_prio_for_inheritance(prio[Head(wait_q[m])], owner_orig_prio[m])]

LockTimedOut(t) ==
  /\ locking[t] # None /\ pended_on[t] = None
  /\ swap_retval[t] = "-EAGAIN"
  /\ prio' = Lowered(locking[t])
  /\ locking' = [locking EXCEPT ![t] = None]
  /\ UNCHANGED <<waitVars, mutexVars, held, nested>>

\* The owner unlocks m: the priority it had before comes back, and the first
\* waiter becomes the owner.  (Calls by other threads return an error.)
Restored(t, m) == [prio EXCEPT ![t] = owner_orig_prio[m]]

Release(t, m) ==
  /\ lock_count[m] = 1
  /\ prio' = Restored(t, m)
  /\ \/ /\ wait_q[m] # <<>>
        /\ owner' = [owner EXCEPT ![m] = Head(wait_q[m])]
        /\ owner_orig_prio' = [owner_orig_prio EXCEPT ![m] = prio'[Head(wait_q[m])]]
        /\ held' = [held EXCEPT ![t] = RemoveFirst(@, m),
                                ![Head(wait_q[m])] = Append(@, m)]
        /\ Wake({Head(wait_q[m])}, m)
        /\ UNCHANGED lock_count
     \/ /\ wait_q[m] = <<>>
        /\ owner' = [owner EXCEPT ![m] = None]
        /\ lock_count' = [lock_count EXCEPT ![m] = 0]
        /\ held' = [held EXCEPT ![t] = RemoveFirst(@, m)]
        /\ UNCHANGED <<waitVars, owner_orig_prio>>

UnlockOnce(t, m) ==
  /\ lock_count[m] > 1
  /\ lock_count' = [lock_count EXCEPT ![m] = @ - 1]
  /\ UNCHANGED <<prio, waitVars, owner, owner_orig_prio, held>>

k_mutex_unlock(t, m) ==
  /\ Running(t) /\ owner[m] = t
  /\ Reverse_order => m = Last(held[t])
  /\ Release(t, m) \/ UnlockOnce(t, m)
  /\ UNCHANGED <<locking, nested>>

-----------------------------------------------------------------------------
Call(t) ==
  \E m \in Mutexes :
    \/ \E timeout \in {"ticks", "forever"} : k_mutex_lock(t, m, timeout)
    \/ k_mutex_unlock(t, m)

Return(t) == LockDone(t) \/ LockTimedOut(t)

TimeoutStep ==
  /\ z_thread_timeout
  /\ UNCHANGED <<mutexVars, locking, held, nested>>

Next ==
  \/ TimeoutStep
  \/ /\ firing = None \/ LateCallback
     /\ \E t \in Threads :
          \/ Call(t) \/ Return(t)
          \/ Expire(t) /\ UNCHANGED <<mutexVars, locking, held, nested>>

Spec == Init /\ [][Next]_vars

-----------------------------------------------------------------------------
(* What has to hold *)

\* "@retval 0 Mutex locked.  @retval -EAGAIN Waiting period timed out."
\* (k_mutex_lock): a wait ends with 0 exactly when the thread owns the mutex,
\* and only a wait that had a timeout ends otherwise.
AnswerTrue ==
  \A t \in Threads :
    locking[t] # None /\ pended_on[t] = None =>
      /\ swap_retval[t] = "0" <=> owner[locking[t]] = t
      /\ t \in forever => swap_retval[t] = "0"

\* Nobody waits for a mutex that is free, whatever unlocks and timeouts came
\* together, and nobody waits in two places or for a mutex of its own.
WaitersHaveOwner ==
  /\ \A m \in Mutexes :
       /\ owner[m] = None <=> lock_count[m] = 0
       /\ wait_q[m] # <<>> => owner[m] # None /\ owner[m] \notin ToSet(wait_q[m])
  /\ \A o \in Objects, t \in Threads :
       t \in ToSet(wait_q[o]) <=> pended_on[t] = o

\* A thread that has no mutex has its own priority back, if threads unlock in
\* reverse order, however its mutexes raised it, waits timed out or were nested.
PrioRestored ==
  Reverse_order =>
    \A t \in Threads : (\A m \in Mutexes : owner[m] # t) => prio[t] = Base[t]

-----------------------------------------------------------------------------
(* ... and as long as threads lock one mutex at a time *)

\* The owner of a mutex is not below any thread that waits for it, as far as
\* the ceiling allows, and not raised by threads that do not wait any more.
Inherits ==
  ~nested => \A m \in Mutexes :
    owner[m] # None =>
      /\ \A t \in ToSet(wait_q[m]) :
           prio[owner[m]] <= prio[t] \/ prio[owner[m]] <= PRIORITY_CEILING
      /\ (\A t \in Threads : locking[t] = m => pended_on[t] = m)
           => \/ prio[owner[m]] >= owner_orig_prio[m]
              \/ \E t \in ToSet(wait_q[m]) : prio[owner[m]] >= prio[t]

\* "When the mutex becomes unlocked it is then locked by the highest-priority
\* thread that has waited the longest" (mutexes.rst).
BestIsNext ==
  [][~nested => \A m \in Mutexes :
       owner[m] # None /\ owner'[m] \notin {None, owner[m]}
         => \A t \in ToSet(wait_q[m]) : prio[owner'[m]] <= prio[t]]_vars
=============================================================================
