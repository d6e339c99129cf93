---------------------------- MODULE CondVarProofs ----------------------------
(***************************************************************************)
(* Proofs about CondVar, and about the mutexes that its threads use, for   *)
(* any threads, mutexes, condition variables and priorities: signals       *)
(* arrive, k_condvar_wait returns with the mutex locked, and what          *)
(* MutexProofs shows of mutexes stays true with condition variables.       *)
(***************************************************************************)
EXTENDS CondVar, MutexProofs

\* Who has released the mutex in order to wait holds the lock until it is on the
\* wait queue, and only who waits is on it.
CondInv ==
  /\ CondTypeOK
  /\ lock # None => waits[lock] = "unlocked"
  /\ \A t \in Threads : waits[t] = "unlocked" => lock = t /\ Running(t)
  /\ \A t \in Threads : waits[t] # "no" => on[t] \in Condvars /\ with[t] \in Mutexes
  /\ \A t \in Threads : pended_on[t] \in Condvars => waits[t] = "pended"
  /\ SignalsArrive

\* Who locks the mutex again has it, or waits for it without a timeout.
Relocks ==
  \A t \in Threads :
    waits[t] = "relock" =>
      IF locking[t] = None THEN pended_on[t] = None /\ owner[with[t]] = t
                           ELSE locking[t] = with[t] /\ t \in forever

\* What a step of the thread t, or of none if t is None, may do to the others:
\* wake them.
Others(t) ==
  \A u \in Threads \ {t} :
    /\ locking'[u] = locking[u]
    /\ pended_on'[u] \in {pended_on[u], None}
    /\ u \in forever' <=> u \in forever
    /\ \A m \in Mutexes : owner[m] = u => owner'[m] = u

-----------------------------------------------------------------------------
(* Steps of the mutexes *)

\* k_mutex_lock, k_mutex_unlock and the end of a wait.
LEMMA LockOthers ==
  ASSUME IInv, NEW t \in Threads, NEW m \in Mutexes, NEW timeout, k_mutex_lock(t, m, timeout)
  PROVE  Others(t) /\ pended_on'[t] \in {None, m}
<1> USE WaitQueueAssumption, MutexAssumption
<1>0. pended_on[t] = None
  BY DEF k_mutex_lock, Running
<1>1. CASE LockFree(t, m)
  <2>1. /\ UNCHANGED <<pended_on, locking, forever>> /\ owner' = [owner EXCEPT ![m] = t]
        /\ owner[m] \in {None, t}
    BY <1>1 DEF LockFree, waitVars, IInv, WaitersHaveOwner
  <2>2. \A n \in Mutexes, u \in Threads \ {t} : owner[n] = u => owner'[n] = u
    BY <2>1 DEF IInv, TypeOK
  <2> QED BY <1>0, <2>1, <2>2 DEF Others
<1>2. CASE LockWait(t, m, timeout)
  <2>1. /\ UNCHANGED owner /\ locking' = [locking EXCEPT ![t] = m]
        /\ pended_on' = [pended_on EXCEPT ![t] = m]
        /\ forever' = IF timeout = "forever" THEN forever \cup {t} ELSE forever \ {t}
    BY <1>2 DEF LockWait, mutexVars, z_pend_curr
  <2> QED BY <2>1 DEF Others, IInv, TypeOK, WaitTypeOK
<1> QED BY <1>1, <1>2 DEF k_mutex_lock

LEMMA UnlockOthers ==
  ASSUME IInv, NEW t \in Threads, NEW m \in Mutexes, k_mutex_unlock(t, m)
  PROVE  /\ Others(t) /\ pended_on'[t] = None /\ UNCHANGED locking
         /\ pended_on[t] = None /\ locking[t] = None
<1> USE WaitQueueAssumption, MutexAssumption
<1>0. owner[m] = t /\ UNCHANGED locking /\ pended_on[t] = None /\ locking[t] = None
  BY DEF k_mutex_unlock, Running
<1>1. UNCHANGED forever /\ \A n \in Mutexes : n # m => owner'[n] = owner[n]
  BY DEF k_mutex_unlock, Release, UnlockOnce, Wake, WakeWith, Unpend, SetReturn, waitVars,
         IInv, TypeOK
<1>2. \A u \in Threads : pended_on'[u] \in {pended_on[u], None}
  BY DEF k_mutex_unlock, Release, UnlockOnce, Wake, WakeWith, Unpend, SetReturn, waitVars,
         IInv, TypeOK, WaitTypeOK
<1>3. ASSUME NEW u \in Threads \ {t}, NEW n \in Mutexes, owner[n] = u
      PROVE  owner'[n] = u
  BY <1>0, <1>1, <1>3
<1> QED BY <1>0, <1>1, <1>2, <1>3 DEF Others

LEMMA ReturnOthers ==
  ASSUME IInv, NEW t \in Threads, Return(t)
  PROVE  /\ Others(t) /\ pended_on'[t] = None /\ locking[t] # None
         /\ UNCHANGED <<owner, forever>> /\ locking'[t] = None
<1> USE WaitQueueAssumption, MutexAssumption
<1>1. /\ UNCHANGED <<pended_on, forever, owner>> /\ pended_on[t] = None
      /\ locking[t] # None /\ locking' = [locking EXCEPT ![t] = None]
  BY DEF Return, LockDone, LockTimedOut, waitVars, mutexVars
<1> QED BY <1>1 DEF Others, IInv, TypeOK

\* Timeouts belong to no thread.
LEMMA TimeoutOthers ==
  ASSUME IInv, TimeoutStep
  PROVE  Others(None)
<1> USE WaitQueueAssumption
<1>1. UNCHANGED <<locking, owner, forever>> /\ z_thread_timeout
  BY DEF TimeoutStep, mutexVars, z_thread_timeout
<1>2. firing \in Threads /\ pended_on' = [pended_on EXCEPT ![firing] = None]
  BY <1>1, TimeoutKeeps DEF IInv
<1> QED BY <1>1, <1>2 DEF Others, IInv, TypeOK, WaitTypeOK

-----------------------------------------------------------------------------
(* Steps that concern the queue of a condition variable *)

\* They leave the mutexes as they are.
LEMMA QueueKeeps ==
  ASSUME IInv, NEW o \in Objects, o \notin Mutexes, WaitInv',
         \A m \in Mutexes : wait_q'[m] = wait_q[m],
         UNCHANGED <<prio, mutexVars, locking, held>>
  PROVE  IInv'
<1> USE WaitQueueAssumption, MutexAssumption
<1>1. TypeOK'
  BY DEF IInv, TypeOK, WaitInv, mutexVars
<1>2. WaitersHaveOwner'
  BY DEF IInv, WaitersHaveOwner, WaitInv, mutexVars
<1>3. HeldInv'
  BY DEF IInv, HeldInv, PrioSaved, mutexVars
<1> QED BY <1>1, <1>2, <1>3 DEF IInv

\* A thread pends, with the lock of the file.
LEMMA WaitPendKeeps ==
  ASSUME IInv, CondInv, NEW t \in Threads, NEW timeout, WaitPend(t, timeout)
  PROVE  /\ IInv' /\ CondInv'
         /\ \A m \in Mutexes : wait_q'[m] = wait_q[m]
         /\ Others(t)
<1> USE WaitQueueAssumption, MutexAssumption, CondVarAssumption
<1> DEFINE cv == on[t]
<1>1. /\ waits[t] = "unlocked" /\ lock = t /\ Running(t)
      /\ cv \in Condvars /\ cv \in Objects /\ cv \notin Mutexes
  BY DEF WaitPend, CondInv
<1>2. /\ z_pend_curr(t, cv, timeout, prio') /\ prio' \in [Threads -> Int]
      /\ UNCHANGED <<prio, mutexVars, locking, held, on, with, missed>>
      /\ waits' = [waits EXCEPT ![t] = "pended"] /\ lock' = None
      /\ pended_on' = [pended_on EXCEPT ![t] = cv]
      /\ pended_on[t] = None
  BY <1>1 DEF WaitPend, IInv, TypeOK, WaitTypeOK, z_pend_curr, Running
<1>3. /\ WaitInv'
      /\ wait_q' = [wait_q EXCEPT ![cv] = z_priq_dumb_add(wait_q[cv], t, prio')]
  <2> HIDE DEF cv
  <2> QED BY <1>1, <1>2, PendKeeps DEF IInv
<1>4. \A m \in Mutexes : wait_q'[m] = wait_q[m]
  BY <1>1, <1>3 DEF IInv, TypeOK, WaitTypeOK
<1>5. IInv'
  BY <1>1, <1>2, <1>3, <1>4, QueueKeeps
<1> HIDE DEF cv
<1>6. \A u \in Threads : u # t => pended_on'[u] = pended_on[u] /\ waits'[u] = waits[u]
  BY <1>2 DEF IInv, TypeOK, WaitTypeOK, CondInv, CondTypeOK
<1>7. waits'[t] = "pended"
  BY <1>2 DEF CondInv, CondTypeOK
<1>8. CondTypeOK'
  BY <1>2, <1>5 DEF IInv, CondInv, CondTypeOK
<1>9. \A u \in Threads : waits[u] = "unlocked" => u = t
  BY <1>1 DEF CondInv
<1>10. CondInv'
  BY <1>1, <1>2, <1>6, <1>7, <1>8, <1>9 DEF CondInv, SignalsArrive
<1>11. Others(t)
  <2>1. \A u \in Threads \ {t} : u \in forever' <=> u \in forever
    BY <1>2 DEF z_pend_curr
  <2> QED BY <1>2, <1>6, <2>1 DEF Others, mutexVars
<1> QED BY <1>4, <1>5, <1>10, <1>11

\* Threads are woken that pend on a condition variable.
LEMMA CondWakeKeeps ==
  ASSUME IInv, CondInv, NEW cv \in Condvars, NEW ts \in SUBSET ToSet(wait_q[cv]),
         Wake(ts, cv), missed' = {},
         UNCHANGED <<prio, mutexVars, locking, held, lock, waits, on, with>>
  PROVE  /\ IInv' /\ CondInv'
         /\ \A m \in Mutexes : wait_q'[m] = wait_q[m]
         /\ Others(None)
<1> USE WaitQueueAssumption, MutexAssumption, CondVarAssumption
<1>1. cv \in Objects /\ cv \notin Mutexes /\ prio' \in [Threads -> Int]
  BY DEF IInv, TypeOK, WaitTypeOK
<1>2. WaitInv' /\ wait_q' = [wait_q EXCEPT ![cv] = Remaining(wait_q[cv], ts)]
  BY <1>1, WakeKeeps DEF IInv
<1>3. \A m \in Mutexes : wait_q'[m] = wait_q[m]
  BY <1>1, <1>2 DEF IInv, TypeOK, WaitTypeOK
<1>4. IInv'
  BY <1>1, <1>2, <1>3, QueueKeeps
<1>5. /\ \A u \in Threads : pended_on'[u] \in {pended_on[u], None}
      /\ UNCHANGED forever
  BY DEF Wake, WakeWith, Unpend, SetReturn
<1>6. CondTypeOK'
  BY <1>4 DEF IInv, CondInv, CondTypeOK
<1>7. CondInv'
  <2>1. \A u \in Threads : waits'[u] = "unlocked" => lock' = u /\ Running(u)'
    BY <1>5 DEF CondInv, Running
  <2>2. \A u \in Threads : pended_on'[u] \in Condvars => waits'[u] = "pended"
    BY <1>5 DEF CondInv
  <2> QED BY <1>6, <2>1, <2>2 DEF CondInv, SignalsArrive
<1>8. Others(None)
  BY <1>5 DEF Others, mutexVars
<1> QED BY <1>3, <1>4, <1>7, <1>8

\* k_condvar_signal and k_condvar_broadcast find whoever waits.
LEMMA SignalKeeps ==
  ASSUME IInv, CondInv, NEW cv \in Condvars, k_condvar_signal(cv) \/ k_condvar_broadcast(cv)
  PROVE  /\ missed' = {}
         /\ UNCHANGED <<prio, mutexVars, locking, held, lock, waits, on, with>>
         /\ \/ UNCHANGED waitVars
            \/ \E ts \in SUBSET ToSet(wait_q[cv]) : Wake(ts, cv)
<1> USE WaitQueueAssumption, MutexAssumption, CondVarAssumption
<1>1. /\ lock = None /\ UNCHANGED <<prio, mutexVars, locking, held, lock, waits, on, with>>
      /\ missed = {} /\ cv \in Objects /\ wait_q[cv] \in Seq(Threads)
  BY DEF k_condvar_signal, k_condvar_broadcast, CondInv, SignalsArrive, IInv, TypeOK, WaitTypeOK
<1>2. \A u \in Threads : u \in Waiting(cv) => pended_on[u] = cv /\ u \in ToSet(wait_q[cv])
  BY <1>1 DEF Waiting, CondInv, IInv, WaitInv
<1>3. CASE k_condvar_signal(cv) /\ wait_q[cv] # <<>>
  <2>1. Wake({Head(wait_q[cv])}, cv) /\ missed' = missed
    BY <1>3 DEF k_condvar_signal
  <2>2. {Head(wait_q[cv])} \in SUBSET ToSet(wait_q[cv])
    BY <1>1, <1>3, TailList
  <2> QED BY <1>1, <2>1, <2>2
<1>4. CASE k_condvar_signal(cv) /\ wait_q[cv] = <<>>
  <2>1. UNCHANGED waitVars /\ missed' = missed \cup Waiting(cv)
    BY <1>4 DEF k_condvar_signal
  <2>2. Waiting(cv) = {}
    BY <1>2, <1>4, EmptyList DEF Waiting
  <2> QED BY <1>1, <2>1, <2>2
<1>5. CASE k_condvar_broadcast(cv)
  <2>1. /\ Wake(ToSet(wait_q[cv]), cv)
        /\ missed' = missed \cup {u \in Waiting(cv) : pended_on[u] = pended_on'[u]}
    BY <1>5 DEF k_condvar_broadcast
  <2>2. \A u \in Threads : u \in Waiting(cv) => pended_on[u] # pended_on'[u]
    BY <1>1, <1>2, <2>1 DEF Wake, WakeWith, Unpend, SetReturn
  <2>3. {u \in Waiting(cv) : pended_on[u] = pended_on'[u]} = {}
    BY <2>2 DEF Waiting
  <2> QED BY <1>1, <2>1, <2>3
<1> QED BY <1>3, <1>4, <1>5

-----------------------------------------------------------------------------
(* Every step *)

\* A step of the system is one of the mutexes, or one of a queue of a condition
\* variable.
LEMMA CondStep ==
  ASSUME IInv, CondInv, [CondNext]_cvars
  PROVE  \/ [Next]_vars
         \/ /\ firing = None \/ LateCallback
            /\ \E t \in Threads, timeout \in {"ticks", "forever"} : WaitPend(t, timeout)
         \/ /\ firing = None \/ LateCallback
            /\ \E cv \in Condvars : k_condvar_signal(cv) \/ k_condvar_broadcast(cv)
<1>1. CASE TimeoutStep
  BY <1>1 DEF Next
<1>2. ASSUME firing = None \/ LateCallback, NEW t \in Threads, MutexStep(t)
      PROVE  Next
  BY <1>2 DEF Next, MutexStep
<1>3. ASSUME firing = None \/ LateCallback, NEW t \in Threads,
             Expire(t) /\ UNCHANGED <<mutexVars, locking, held, nested, condVars>>
      PROVE  Next
  BY <1>3 DEF Next
<1>4. ASSUME firing = None \/ LateCallback, NEW t \in Threads, NEW cv \in Condvars,
             NEW m \in Mutexes, k_condvar_wait(t, cv, m)
      PROVE  Next
  BY <1>4 DEF Next, Call, k_condvar_wait
<1>5. ASSUME firing = None \/ LateCallback, NEW t \in Threads, WaitWoken(t)
      PROVE  Next
  <2>1. with[t] \in Mutexes /\ k_mutex_lock(t, with[t], "forever")
    BY <1>5 DEF WaitWoken, CondInv
  <2>2. Call(t)
    BY <2>1 DEF Call
  <2> QED BY <1>5, <2>2 DEF Next
<1>6. ASSUME NEW t \in Threads, WaitDone(t)
      PROVE  UNCHANGED vars
  BY <1>6 DEF WaitDone
<1>7. CASE UNCHANGED cvars
  BY <1>7 DEF cvars
<1> QED BY <1>1, <1>2, <1>3, <1>4, <1>5, <1>6, <1>7 DEF CondNext

\* The mutexes' invariant.
LEMMA CondIInv ==
  ASSUME IInv, CondInv, [CondNext]_cvars
  PROVE  IInv'
<1>1. CASE [Next]_vars
  BY <1>1, NextKeeps
<1>2. ASSUME NEW t \in Threads, NEW timeout, WaitPend(t, timeout)
      PROVE  IInv'
  BY <1>2, WaitPendKeeps
<1>3. ASSUME NEW cv \in Condvars, k_condvar_signal(cv) \/ k_condvar_broadcast(cv)
      PROVE  IInv'
  <2>1. CASE UNCHANGED waitVars
    BY <2>1, <1>3, SignalKeeps DEF waitVars, mutexVars, IInv, TypeOK, WaitTypeOK, WaitInv,
                                   WaitersHaveOwner, HeldInv, PrioSaved
  <2>2. ASSUME NEW ts \in SUBSET ToSet(wait_q[cv]), Wake(ts, cv)
        PROVE  IInv'
    BY <2>2, <1>3, SignalKeeps, CondWakeKeeps
  <2> QED BY <1>3, <2>1, <2>2, SignalKeeps
<1> QED BY <1>1, <1>2, <1>3, CondStep

\* A thread that is not on its way to the queue of a condition variable goes on, or
\* nobody does (t = None).
LEMMA ActsKeeps ==
  ASSUME IInv', CondInv, NEW t, t # None => waits[t] # "unlocked", Others(t),
         t \in Threads => pended_on'[t] \in Mutexes \cup {None},
         UNCHANGED condVars
  PROVE  CondInv'
<1> USE WaitQueueAssumption, MutexAssumption, CondVarAssumption
<1>1. CondTypeOK'
  BY DEF IInv, CondInv, CondTypeOK, condVars
<1>2. ASSUME NEW u \in Threads, waits[u] = "unlocked"
      PROVE  Running(u)'
  <2>1. u # t /\ Running(u)
    BY <1>2 DEF CondInv
  <2> QED BY <2>1 DEF Others, Running
<1>3. ASSUME NEW u \in Threads, pended_on'[u] \in Condvars
      PROVE  waits[u] = "pended"
  <2>1. u # t
    BY <1>3
  <2>2. pended_on'[u] = pended_on[u]
    BY <1>3, <2>1 DEF Others
  <2> QED BY <1>3, <2>2 DEF CondInv
<1> QED BY <1>1, <1>2, <1>3 DEF CondInv, condVars, SignalsArrive

LEMMA CondNextKeeps ==
  ASSUME IInv, CondInv, [CondNext]_cvars
  PROVE  CondInv'
<1> USE WaitQueueAssumption, MutexAssumption, CondVarAssumption
<1>0. IInv'
  BY CondIInv
<1>1. CASE TimeoutStep /\ UNCHANGED condVars
  BY <1>0, <1>1, TimeoutOthers, ActsKeeps
<1>2. ASSUME NEW t \in Threads, MutexStep(t)
      PROVE  CondInv'
  <2>1. UNCHANGED condVars
    BY <1>2 DEF MutexStep
  <2>2. CASE waits[t] = "no" /\ Call(t)
    <3>1. Others(t) /\ pended_on'[t] \in Mutexes \cup {None}
      BY <2>2, LockOthers, UnlockOthers DEF Call
    <3> QED BY <1>0, <2>1, <2>2, <3>1, ActsKeeps
  <2>3. CASE Return(t)
    <3>1. Others(t) /\ pended_on'[t] = None /\ locking[t] # None
      BY <2>3, ReturnOthers
    <3>2. waits[t] # "unlocked"
      BY <3>1 DEF CondInv, Running
    <3> QED BY <1>0, <2>1, <3>1, <3>2, ActsKeeps
  <2> QED BY <1>2, <2>2, <2>3 DEF MutexStep
<1>3. ASSUME NEW t \in Threads, Expire(t), UNCHANGED <<mutexVars, locking, held, condVars>>
      PROVE  CondInv'
  <2>1. Others(None)
    BY <1>3 DEF Expire, Others, mutexVars
  <2> QED BY <1>0, <1>3, <2>1, ActsKeeps
<1>4. ASSUME NEW t \in Threads, NEW cv \in Condvars, NEW m \in Mutexes,
             k_condvar_wait(t, cv, m)
      PROVE  CondInv'
  <2>1. /\ waits[t] = "no" /\ lock = None /\ lock' = t /\ missed' = missed
        /\ waits' = [waits EXCEPT ![t] = "unlocked"]
        /\ on' = [on EXCEPT ![t] = cv] /\ with' = [with EXCEPT ![t] = m]
        /\ Others(t) /\ pended_on'[t] = None /\ locking'[t] = None
        /\ pended_on[t] = None
    BY <1>4, UnlockOthers DEF k_condvar_wait
  <2>2. CondTypeOK'
    BY <1>0, <2>1 DEF IInv, CondInv, CondTypeOK
  <2>3. /\ waits'[t] = "unlocked" /\ on'[t] = cv /\ with'[t] = m
        /\ \A u \in Threads : u # t => /\ waits'[u] = waits[u]
                                       /\ on'[u] = on[u] /\ with'[u] = with[u]
    BY <2>1 DEF CondInv, CondTypeOK
  <2>4. \A u \in Threads : waits[u] # "unlocked"
    BY <2>1 DEF CondInv
  <2>5. ASSUME NEW u \in Threads, waits'[u] = "unlocked"
        PROVE  lock' = u /\ Running(u)'
    BY <2>1, <2>3, <2>4, <2>5 DEF Running
  <2>6. ASSUME NEW u \in Threads, pended_on'[u] \in Condvars
        PROVE  waits'[u] = "pended"
    <3>1. u # t /\ pended_on'[u] = pended_on[u]
      BY <2>1, <2>6 DEF Others
    <3> QED BY <3>1, <2>3, <2>6 DEF CondInv
  <2> QED BY <2>1, <2>2, <2>3, <2>5, <2>6 DEF CondInv, SignalsArrive
<1>5. ASSUME NEW t \in Threads, WaitWoken(t)
      PROVE  CondInv'
  <2>1. /\ waits[t] = "pended" /\ waits' = [waits EXCEPT ![t] = "relock"]
        /\ UNCHANGED <<lock, on, with, missed>> /\ with[t] \in Mutexes
        /\ k_mutex_lock(t, with[t], "forever")
    BY <1>5 DEF WaitWoken, CondInv
  <2>2. Others(t) /\ pended_on'[t] \in Mutexes \cup {None}
    BY <2>1, LockOthers
  <2>3. CondTypeOK'
    BY <1>0, <2>1 DEF IInv, CondInv, CondTypeOK
  <2>4. /\ waits'[t] = "relock"
        /\ \A u \in Threads : u # t => waits'[u] = waits[u]
    BY <2>1 DEF CondInv, CondTypeOK
  <2>5. ASSUME NEW u \in Threads, waits'[u] = "unlocked"
        PROVE  lock' = u /\ Running(u)'
    BY <2>1, <2>2, <2>4, <2>5 DEF CondInv, Running, Others
  <2>6. ASSUME NEW u \in Threads, pended_on'[u] \in Condvars
        PROVE  waits'[u] = "pended"
    <3>1. u # t /\ pended_on'[u] = pended_on[u]
      BY <2>2, <2>6 DEF Others
    <3> QED BY <3>1, <2>4, <2>6 DEF CondInv
  <2>7. lock' # None => waits'[lock'] = "unlocked"
    BY <2>1, <2>4 DEF CondInv, CondTypeOK
  <2> QED BY <2>1, <2>3, <2>4, <2>5, <2>6, <2>7 DEF CondInv, SignalsArrive
<1>6. ASSUME NEW t \in Threads, WaitDone(t)
      PROVE  CondInv'
  <2>1. /\ waits[t] = "relock" /\ waits' = [waits EXCEPT ![t] = "no"]
        /\ on' = [on EXCEPT ![t] = None] /\ with' = [with EXCEPT ![t] = None]
        /\ UNCHANGED <<vars, lock, missed>>
    BY <1>6 DEF WaitDone
  <2>2. UNCHANGED <<pended_on, locking>>
    BY <2>1 DEF vars, waitVars
  <2>3. CondTypeOK'
    BY <1>0, <2>1 DEF IInv, CondInv, CondTypeOK
  <2>4. /\ waits'[t] = "no"
        /\ \A u \in Threads : u # t => /\ waits'[u] = waits[u]
                                       /\ on'[u] = on[u] /\ with'[u] = with[u]
    BY <2>1 DEF CondInv, CondTypeOK
  <2>5. lock' # None => waits'[lock'] = "unlocked"
    BY <2>1, <2>4 DEF CondInv, CondTypeOK
  <2> QED BY <2>1, <2>2, <2>3, <2>4, <2>5 DEF CondInv, SignalsArrive, Running
<1>7. ASSUME NEW t \in Threads, NEW timeout, WaitPend(t, timeout)
      PROVE  CondInv'
  BY <1>7, WaitPendKeeps
<1>8. ASSUME NEW cv \in Condvars, k_condvar_signal(cv) \/ k_condvar_broadcast(cv)
      PROVE  CondInv'
  <2>1. CASE UNCHANGED waitVars
    <3>1. UNCHANGED <<pended_on, locking, lock, waits, on, with>> /\ missed' = {}
      BY <2>1, <1>8, SignalKeeps DEF waitVars
    <3>2. CondTypeOK'
      BY <1>0, <3>1 DEF IInv, CondInv, CondTypeOK
    <3> QED BY <3>1, <3>2 DEF CondInv, SignalsArrive, Running
  <2>2. ASSUME NEW ts \in SUBSET ToSet(wait_q[cv]), Wake(ts, cv)
        PROVE  CondInv'
    BY <2>2, <1>8, SignalKeeps, CondWakeKeeps
  <2> QED BY <1>8, <2>1, <2>2, SignalKeeps
<1>9. CASE UNCHANGED cvars
  BY <1>9 DEF cvars, vars, waitVars, mutexVars, condVars, CondInv, CondTypeOK, TypeOK, WaitTypeOK,
              SignalsArrive, Running
<1> QED BY <1>1, <1>2, <1>3, <1>4, <1>5, <1>6, <1>7, <1>8, <1>9 DEF CondNext

LEMMA InitCond == CondInit => IInv /\ CondInv
<1> USE WaitQueueAssumption, MutexAssumption, CondVarAssumption
<1> SUFFICES ASSUME CondInit PROVE IInv /\ CondInv
  OBVIOUS
<1>1. IInv
  BY InitIInv DEF CondInit
<1>2. CondTypeOK
  BY <1>1 DEF CondInit, CondTypeOK, IInv
<1> QED BY <1>1, <1>2 DEF CondInit, CondInv, SignalsArrive, Init, WaitInit

\* k_condvar_signal and k_condvar_broadcast reach every thread that has released its
\* mutex in k_condvar_wait, although the mutex and the queue have different locks.
THEOREM NoSignalLost == CondSpec => []SignalsArrive
<1>1. IInv /\ CondInv /\ [CondNext]_cvars => IInv' /\ CondInv'
  BY CondIInv, CondNextKeeps
<1>2. CondInv => SignalsArrive
  BY DEF CondInv
<1> QED BY <1>1, <1>2, InitCond, PTL DEF CondSpec

-----------------------------------------------------------------------------
(* What threads are told, if no callback is late *)

LEMMA CondAnswers ==
  ASSUME ~LateCallback, IInv, CondInv, Answers, [CondNext]_cvars
  PROVE  Answers'
<1> USE WaitQueueAssumption, MutexAssumption, CondVarAssumption
<1>1. CASE [Next]_vars
  BY <1>1, NextAnswers
<1>2. ASSUME firing = None, NEW t \in Threads, NEW timeout \in {"ticks", "forever"},
             WaitPend(t, timeout)
      PROVE  Answers'
  <2> DEFINE cv == on[t]
  <2>1. Running(t) /\ cv \in Objects /\ cv \notin Mutexes
    BY <1>2 DEF WaitPend, CondInv
  <2>2. /\ prio' \in [Threads -> Int] /\ z_pend_curr(t, cv, timeout, prio')
        /\ UNCHANGED owner
    BY <1>2 DEF WaitPend, mutexVars, IInv, TypeOK, WaitTypeOK
  <2>3. locking' = [locking EXCEPT ![t] = IF cv \in Mutexes THEN cv ELSE None]
    BY <1>2, <2>1 DEF WaitPend, Running, IInv, TypeOK
  <2> HIDE DEF cv
  <2> QED BY <1>2, <2>1, <2>2, <2>3, PendAnswers
<1>3. ASSUME firing = None, NEW cv \in Condvars,
             k_condvar_signal(cv) \/ k_condvar_broadcast(cv)
      PROVE  Answers'
  <2>0. UNCHANGED <<owner, locking>> /\ cv \in Objects /\ cv \notin Mutexes
    BY <1>3, SignalKeeps DEF mutexVars
  <2>1. CASE UNCHANGED waitVars
    BY <2>0, <2>1 DEF waitVars, Answers, AnswerTrue
  <2>2. ASSUME NEW ts \in SUBSET ToSet(wait_q[cv]), Wake(ts, cv)
        PROVE  Answers'
    BY <2>0, <2>2, <1>3, WakeAnswers
  <2> QED BY <1>3, <2>1, <2>2, SignalKeeps
<1> QED BY <1>1, <1>2, <1>3, CondStep

\* A step that leaves the threads in k_condvar_wait where they are.
LEMMA OthersRelock ==
  ASSUME IInv, CondInv, Relocks, NEW t, Others(t), NEW u \in Threads, u # t,
         waits'[u] = waits[u], with'[u] = with[u], waits'[u] = "relock"
  PROVE  IF locking'[u] = None THEN pended_on'[u] = None /\ owner'[with'[u]] = u
                               ELSE locking'[u] = with'[u] /\ u \in forever'
<1>1. with[u] \in Mutexes
  BY DEF CondInv
<1>2. IF locking[u] = None THEN pended_on[u] = None /\ owner[with[u]] = u
                           ELSE locking[u] = with[u] /\ u \in forever
  BY DEF Relocks
<1> QED BY <1>1, <1>2 DEF Others

LEMMA CondRelocks ==
  ASSUME ~LateCallback, IInv, CondInv, Answers, Relocks, [CondNext]_cvars
  PROVE  Relocks'
<1> USE WaitQueueAssumption, MutexAssumption, CondVarAssumption
<1>0. ASSUME NEW t, Others(t), t \in Threads => waits'[t] # "relock",
             \A u \in Threads : u # t => waits'[u] = waits[u] /\ with'[u] = with[u]
      PROVE  Relocks'
  BY <1>0, OthersRelock DEF Relocks
<1>1. CASE TimeoutStep /\ UNCHANGED condVars
  BY <1>0, <1>1, TimeoutOthers DEF condVars
<1>2. ASSUME NEW t \in Threads, MutexStep(t)
      PROVE  Relocks'
  <2>1. UNCHANGED condVars
    BY <1>2 DEF MutexStep
  <2>2. CASE waits[t] = "no" /\ Call(t)
    <3>1. Others(t)
      BY <2>2, LockOthers, UnlockOthers DEF Call
    <3> QED BY <1>0, <2>1, <2>2, <3>1 DEF condVars
  <2>3. CASE Return(t)
    <3>1. /\ Others(t) /\ pended_on'[t] = None /\ locking'[t] = None
          /\ locking[t] # None /\ UNCHANGED owner /\ pended_on[t] = None
      BY <2>3, ReturnOthers DEF Return, LockDone, LockTimedOut
    <3>2. ASSUME waits[t] = "relock"
          PROVE  owner[with[t]] = t
      <4>1. locking[t] = with[t] /\ t \in forever
        BY <3>1, <3>2 DEF Relocks
      <4> QED BY <3>1, <4>1 DEF Answers, AnswerTrue
    <3> QED BY <2>1, <3>1, <3>2, OthersRelock DEF Relocks, condVars
  <2> QED BY <1>2, <2>2, <2>3 DEF MutexStep
<1>3. ASSUME NEW t \in Threads, Expire(t), UNCHANGED <<mutexVars, locking, held, condVars>>
      PROVE  Relocks'
  BY <1>3 DEF Expire, mutexVars, condVars, Relocks
<1>4. ASSUME NEW t \in Threads, NEW cv \in Condvars, NEW m \in Mutexes,
             k_condvar_wait(t, cv, m)
      PROVE  Relocks'
  <2>1. /\ waits' = [waits EXCEPT ![t] = "unlocked"] /\ with' = [with EXCEPT ![t] = m]
        /\ Others(t)
    BY <1>4, UnlockOthers DEF k_condvar_wait
  <2>2. waits'[t] = "unlocked"
        /\ \A u \in Threads : u # t => waits'[u] = waits[u] /\ with'[u] = with[u]
    BY <2>1 DEF CondInv, CondTypeOK
  <2> QED BY <1>0, <2>1, <2>2
<1>5. ASSUME NEW t \in Threads, WaitWoken(t)
      PROVE  Relocks'
  <2>1. /\ waits[t] = "pended" /\ waits' = [waits EXCEPT ![t] = "relock"]
        /\ UNCHANGED with /\ with[t] \in Mutexes
        /\ k_mutex_lock(t, with[t], "forever") /\ locking[t] = None /\ pended_on[t] = None
    BY <1>5 DEF WaitWoken, CondInv, k_mutex_lock, Running
  <2>2. Others(t)
    BY <2>1, LockOthers
  <2>3. \A u \in Threads : u # t => waits'[u] = waits[u]
    BY <2>1 DEF CondInv, CondTypeOK
  <2>4. CASE LockFree(t, with[t])
    <3>1. locking'[t] = None /\ pended_on'[t] = None /\ owner'[with[t]] = t
      BY <2>1, <2>4 DEF LockFree, waitVars, IInv, TypeOK
    <3> QED BY <2>1, <2>2, <2>3, <3>1, OthersRelock DEF Relocks
  <2>5. CASE LockWait(t, with[t], "forever")
    <3>1. locking'[t] = with[t] /\ with[t] # None /\ t \in forever'
      BY <2>1, <2>5 DEF LockWait, z_pend_curr, IInv, TypeOK
    <3> QED BY <2>1, <2>2, <2>3, <3>1, OthersRelock DEF Relocks
  <2> QED BY <2>1, <2>4, <2>5 DEF k_mutex_lock
<1>6. ASSUME NEW t \in Threads, WaitDone(t)
      PROVE  Relocks'
  <2>1. /\ waits' = [waits EXCEPT ![t] = "no"] /\ with' = [with EXCEPT ![t] = None]
        /\ UNCHANGED <<locking, pended_on, forever, owner>>
    BY <1>6 DEF WaitDone, vars, waitVars, mutexVars
  <2>2. waits'[t] = "no"
        /\ \A u \in Threads : u # t => waits'[u] = waits[u] /\ with'[u] = with[u]
    BY <2>1 DEF CondInv, CondTypeOK
  <2>3. Others(t)
    BY <2>1 DEF Others
  <2> QED BY <1>0, <2>2, <2>3
<1>7. ASSUME NEW t \in Threads, NEW timeout, WaitPend(t, timeout)
      PROVE  Relocks'
  <2>1. waits' = [waits EXCEPT ![t] = "pended"] /\ UNCHANGED with /\ Others(t)
    BY <1>7, WaitPendKeeps DEF WaitPend
  <2>2. waits'[t] = "pended" /\ \A u \in Threads : u # t => waits'[u] = waits[u]
    BY <2>1 DEF CondInv, CondTypeOK
  <2> QED BY <1>0, <2>1, <2>2
<1>8. ASSUME NEW cv \in Condvars, k_condvar_signal(cv) \/ k_condvar_broadcast(cv)
      PROVE  Relocks'
  <2>0. UNCHANGED <<owner, locking, waits, with>>
    BY <1>8, SignalKeeps DEF mutexVars
  <2>1. CASE UNCHANGED waitVars
    BY <2>0, <2>1 DEF waitVars, Relocks
  <2>2. ASSUME NEW ts \in SUBSET ToSet(wait_q[cv]), Wake(ts, cv)
        PROVE  Relocks'
    <3>1. Others(None)
      BY <2>2, <1>8, SignalKeeps, CondWakeKeeps
    <3> QED BY <1>0, <2>0, <3>1
  <2> QED BY <1>8, <2>1, <2>2, SignalKeeps
<1>9. CASE UNCHANGED cvars
  BY <1>9 DEF cvars, vars, waitVars, mutexVars, condVars, Relocks
<1> QED BY <1>1, <1>2, <1>3, <1>4, <1>5, <1>6, <1>7, <1>8, <1>9 DEF CondNext

LEMMA InitRelocks == CondInit => Answers /\ Relocks
BY InitAnswers DEF CondInit, Relocks

\* k_mutex_lock tells the truth, also to threads that k_condvar_wait makes wait for
\* the mutex, if no callback of a timeout is late.
THEOREM CondLockTellsTruth == ASSUME ~LateCallback PROVE CondSpec => []AnswerTrue
<1>1. IInv /\ CondInv /\ Answers /\ [CondNext]_cvars => IInv' /\ CondInv' /\ Answers'
  BY CondIInv, CondNextKeeps, CondAnswers
<1>2. Answers => AnswerTrue
  BY DEF Answers
<1> QED BY <1>1, <1>2, InitCond, InitRelocks, PTL DEF CondSpec

\* Then k_condvar_wait returns with the mutex locked, woken or timed out.
THEOREM WaitReturnsLocked == ASSUME ~LateCallback PROVE CondSpec => []ReturnsLocked
<1>1. IInv /\ CondInv /\ Answers /\ Relocks /\ [CondNext]_cvars
        => IInv' /\ CondInv' /\ Answers' /\ Relocks'
  BY CondIInv, CondNextKeeps, CondAnswers, CondRelocks
<1>2. Relocks => ReturnsLocked
  BY DEF Relocks, ReturnsLocked, Running
<1> QED BY <1>1, <1>2, InitCond, InitRelocks, PTL DEF CondSpec

-----------------------------------------------------------------------------
(* Priority inheritance, if there is one mutex and no callback is late *)

LEMMA CondInherits ==
  ASSUME ~LateCallback, IInv, CondInv, Answers, NEW m \in Mutexes, Mutexes = {m},
         Inheriting(m), [CondNext]_cvars
  PROVE  /\ Inheriting(m)'
         /\ owner[m] # None /\ owner'[m] \notin {None, owner[m]} =>
              \A u \in ToSet(wait_q[m]) : prio[owner'[m]] <= prio[u]
<1> USE WaitQueueAssumption, MutexAssumption, CondVarAssumption
<1>1. CASE [Next]_vars
  BY <1>1, NextInherits
<1>2. ASSUME NEW t \in Threads, NEW timeout, WaitPend(t, timeout)
      PROVE  Inheriting(m)' /\ UNCHANGED owner
  <2>1. UNCHANGED <<prio, owner, owner_orig_prio, locking>> /\ wait_q'[m] = wait_q[m]
    BY <1>2, WaitPendKeeps DEF WaitPend, mutexVars
  <2>2. locking[t] = None
    BY <1>2 DEF WaitPend, CondInv, Running
  <2>3. \A u \in Threads : u # t => pended_on'[u] = pended_on[u]
    BY <1>2 DEF WaitPend, z_pend_curr, IInv, TypeOK, WaitTypeOK
  <2> QED BY <2>1, <2>2, <2>3, UntouchedInherits
<1>3. ASSUME NEW cv \in Condvars, k_condvar_signal(cv) \/ k_condvar_broadcast(cv)
      PROVE  Inheriting(m)' /\ UNCHANGED owner
  <2>0. UNCHANGED <<prio, owner, owner_orig_prio, locking>> /\ cv \in Objects
    BY <1>3, SignalKeeps DEF mutexVars
  <2>1. CASE UNCHANGED waitVars
    BY <2>0, <2>1, UntouchedInherits DEF waitVars
  <2>2. ASSUME NEW ts \in SUBSET ToSet(wait_q[cv]), Wake(ts, cv)
        PROVE  Inheriting(m)'
    <3>1. wait_q'[m] = wait_q[m]
      BY <2>2, <1>3, SignalKeeps, CondWakeKeeps
    <3>2. ASSUME NEW u \in Threads, locking[u] = m
          PROVE  pended_on'[u] = pended_on[u]
      <4>1. u \notin ts
        <5>1. u \in ts => pended_on[u] = cv
          BY <2>0 DEF IInv, WaitInv
        <5>2. pended_on[u] # cv
          BY <3>2 DEF Answers
        <5> QED BY <5>1, <5>2
      <4> QED BY <4>1, <2>2 DEF Wake, WakeWith, Unpend, SetReturn
    <3> QED BY <2>0, <3>1, <3>2, UntouchedInherits
  <2> QED BY <2>0, <1>3, <2>1, <2>2, SignalKeeps
<1> QED BY <1>1, <1>2, <1>3, CondStep

\* With one mutex and no late callback, its owner inherits the best priority that
\* waits, also if threads release the mutex and get it back in k_condvar_wait.
THEOREM CondOwnerInherits ==
  ASSUME ~LateCallback, NEW m \in Mutexes, Mutexes = {m}
  PROVE  CondSpec => []Inherits
<1>1. CondInit => Inheriting(m)
  BY InitInherits DEF CondInit
<1>2. IInv /\ CondInv /\ Answers /\ Inheriting(m) /\ [CondNext]_cvars
        => IInv' /\ CondInv' /\ Answers' /\ Inheriting(m)'
  BY CondIInv, CondNextKeeps, CondAnswers, CondInherits
<1>3. Inheriting(m) => Inherits
  BY DEF Inheriting, Inherits
<1> QED BY <1>1, <1>2, <1>3, InitCond, InitRelocks, PTL DEF CondSpec

\* Then the best of the threads that wait gets the mutex next.
THEOREM CondBestIsNext ==
  ASSUME ~LateCallback, NEW one \in Mutexes, Mutexes = {one}
  PROVE  CondSpec => BestIsNext
<1>1. CondInit => Inheriting(one)
  BY InitInherits DEF CondInit
<1>2. IInv /\ CondInv /\ Answers /\ Inheriting(one) /\ [CondNext]_cvars
        => IInv' /\ CondInv' /\ Answers' /\ Inheriting(one)'
  BY CondIInv, CondNextKeeps, CondAnswers, CondInherits
<1>3. IInv /\ CondInv /\ Answers /\ Inheriting(one) /\ [CondNext]_cvars =>
        [\A m \in Mutexes :
           owner[m] # None /\ owner'[m] \notin {None, owner[m]}
             => \A t \in ToSet(wait_q[m]) : prio[owner'[m]] <= prio[t]]_vars
  BY CondInherits
<1> QED BY <1>1, <1>2, <1>3, InitCond, InitRelocks, PTL DEF CondSpec, BestIsNext
=============================================================================
