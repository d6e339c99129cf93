------------------------------- MODULE CondVar -------------------------------
(***************************************************************************)
(* Condition variables of the Zephyr kernel (kernel/condvar.c), which      *)
(* release a mutex (module Mutex) while a thread waits.  The file's one    *)
(* spinlock is held from the release of the mutex until the thread is on   *)
(* the wait queue; the mutex code, under its own lock, runs meanwhile on   *)
(* other CPUs.                                                             *)
(***************************************************************************)
EXTENDS Mutex

CONSTANT Condvars

ASSUME CondVarAssumption ==
  Condvars \subseteq Objects /\ Condvars \cap Mutexes = {}

VARIABLES
  lock,    \* the thread that holds the spinlock between two steps
  waits,   \* where a thread is in k_condvar_wait
  on,      \* the condition variable it waits for ...
  with,    \* ... and the mutex it released
  missed   \* history: threads a signal or a broadcast should have woken

condVars == <<lock, waits, on, with, missed>>
cvars == <<vars, condVars>>

CondTypeOK ==
  /\ TypeOK
  /\ lock \in Threads \cup {None}
  /\ waits \in [Threads -> {"no", "unlocked", "pended", "relock"}]
  /\ on \in [Threads -> Condvars \cup {None}]
  /\ with \in [Threads -> Mutexes \cup {None}]
  /\ missed \in SUBSET Threads

CondInit ==
  /\ Init
  /\ lock = None
  /\ waits = [t \in Threads |-> "no"]
  /\ on = [t \in Threads |-> None]
  /\ with = [t \in Threads |-> None]
  /\ missed = {}

-----------------------------------------------------------------------------
\* k_condvar_wait: takes the lock and unlocks the mutex ...
LockDropped(t, cv, m) ==
  /\ waits[t] = "no" /\ lock = None
  /\ k_mutex_unlock(t, m)
  /\ waits' = [waits EXCEPT ![t] = "unlocked"]
  /\ on' = [on EXCEPT ![t] = cv]
  /\ with' = [with EXCEPT ![t] = m]
  /\ UNCHANGED <<lock, missed>>

k_condvar_wait(t, cv, m) ==
  /\ waits[t] = "no" /\ lock = None
  /\ k_mutex_unlock(t, m)
  /\ waits' = [waits EXCEPT ![t] = "unlocked"]
  /\ on' = [on EXCEPT ![t] = cv]
  /\ with' = [with EXCEPT ![t] = m]
  /\ lock' = t
  /\ UNCHANGED missed

\* ... pends, which releases the lock ...
WaitPend(t, timeout) ==
  /\ waits[t] = "unlocked"
  /\ z_pend_curr(t, on[t], timeout, prio)
  /\ waits' = [waits EXCEPT ![t] = "pended"]
  /\ lock' = None
  /\ UNCHANGED <<prio, mutexVars, locking, held, nested, on, with, missed>>

\* ... and once it is woken or timed out, locks the mutex, without a timeout
\* and whatever the result ...
NotRelocked(t) ==
  /\ waits[t] = "pended" /\ pended_on[t] = None
  /\ waits' = [waits EXCEPT ![t] = "relock"]
  /\ UNCHANGED <<vars, lock, on, with, missed>>

WaitWoken(t) ==
  /\ waits[t] = "pended" /\ pended_on[t] = None
  /\ k_mutex_lock(t, with[t], "forever")
  /\ waits' = [waits EXCEPT ![t] = "relock"]
  /\ UNCHANGED <<lock, on, with, missed>>

\* ... and returns.
WaitDone(t) ==
  /\ waits[t] = "relock" /\ Running(t)
  /\ waits' = [waits EXCEPT ![t] = "no"]
  /\ on' = [on EXCEPT ![t] = None]
  /\ with' = [with EXCEPT ![t] = None]
  /\ UNCHANGED <<vars, lock, missed>>

\* Threads that have begun to wait for cv and were not woken.
Waiting(cv) ==
  {t \in Threads : on[t] = cv /\ (waits[t] = "unlocked" \/ pended_on[t] = cv)}

\* From a thread or an ISR.
k_condvar_signal(cv) ==
  /\ lock = None
  /\ \/ /\ wait_q[cv] # <<>>
        /\ Wake({Head(wait_q[cv])}, cv)
        /\ UNCHANGED missed
     \/ /\ wait_q[cv] = <<>>
        /\ missed' = missed \cup Waiting(cv)
        /\ UNCHANGED waitVars
  /\ UNCHANGED <<prio, mutexVars, locking, held, nested, lock, waits, on, with>>

k_condvar_broadcast(cv) ==
  /\ lock = None
  /\ Wake(ToSet(wait_q[cv]), cv)
  /\ missed' = missed \cup {u \in Waiting(cv) : pended_on[u] = pended_on'[u]}
  /\ UNCHANGED <<prio, mutexVars, locking, held, nested, lock, waits, on, with>>

-----------------------------------------------------------------------------
\* What a thread does outside of k_condvar_wait, and in its k_mutex_lock.
MutexStep(t) ==
  /\ (waits[t] = "no" /\ Call(t)) \/ Return(t)
  /\ UNCHANGED condVars

CondNext ==
  \/ TimeoutStep /\ UNCHANGED condVars
  \/ /\ firing = None \/ LateCallback
     /\ \/ \E t \in Threads :
             \/ MutexStep(t)
             \/ Expire(t) /\ UNCHANGED <<mutexVars, locking, held, nested, condVars>>
             \/ \E cv \in Condvars, m \in Mutexes : k_condvar_wait(t, cv, m)
             \/ \E timeout \in {"ticks", "forever"} : WaitPend(t, timeout)
             \/ WaitWoken(t)
             \/ WaitDone(t)
        \/ \E cv \in Condvars : k_condvar_signal(cv) \/ k_condvar_broadcast(cv)

CondSpec == CondInit /\ [][CondNext]_cvars

-----------------------------------------------------------------------------
(* What has to hold *)

\* "Atomically releases the currently owned mutex, blocks the current thread":
\* whoever signals after a thread has released the mutex in order to wait finds
\* a waiting thread, and a broadcast finds all of them.
SignalsArrive == missed = {}

\* k_condvar_wait "finally acquires the mutex again": it returns to its caller
\* with the mutex locked, woken or timed out, and whoever wanted the mutex too.
ReturnsLocked ==
  \A t \in Threads : waits[t] = "relock" /\ Running(t) => owner[with[t]] = t
=============================================================================
