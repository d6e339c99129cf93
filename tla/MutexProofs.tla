----------------------------- MODULE MutexProofs -----------------------------
(***************************************************************************)
(* Proofs about Mutex, for any threads, mutexes and priorities: nobody     *)
(* waits for a free mutex, priorities come back, and, unless callbacks of  *)
(* timeouts are late, k_mutex_lock tells the truth.                        *)
(***************************************************************************)
EXTENDS Mutex, ListFacts

\* The wait queues and pended_on say the same, and nobody is in a queue twice.
WaitInv ==
  /\ WaitTypeOK
  /\ \A o \in Objects : Distinct(wait_q[o])
  /\ \A o \in Objects, t \in Threads : t \in ToSet(wait_q[o]) <=> pended_on[t] = o

\* A thread that has mutexes saved its own priority with the first of them.
PrioSaved ==
  \A t \in Threads :
    IF held[t] = <<>> THEN prio[t] = Base[t] ELSE owner_orig_prio[held[t][1]] = Base[t]

HeldInv ==
  /\ \A t \in Threads : Distinct(held[t])
  /\ \A t \in Threads, m \in Mutexes : m \in ToSet(held[t]) <=> owner[m] = t
  /\ Reverse_order => PrioSaved

IInv == TypeOK /\ WaitInv /\ WaitersHaveOwner /\ HeldInv

\* If no callback is late, a thread is woken by its object or by its timeout, and
\* only in a wait that has one.
Answers ==
  /\ \A t \in Threads :
       pended_on[t] # None =>
         /\ swap_retval[t] = "-EAGAIN"
         /\ locking[t] = IF pended_on[t] \in Mutexes THEN pended_on[t] ELSE None
  /\ \A t \in Threads :
       t \in armed \/ t = firing => pended_on[t] # None /\ t \notin forever
  /\ firing \notin armed
  /\ AnswerTrue

\* With one mutex, its queue stays in the order of the priorities, and what
\* raises the owner is a thread that waits, or one that will lower it again.
Inheriting(m) ==
  /\ Ordered(wait_q[m], prio)
  /\ owner[m] # None =>
       /\ \A t \in ToSet(wait_q[m]) :
            prio[owner[m]] <= prio[t] \/ prio[owner[m]] <= PRIORITY_CEILING
       /\ (\A t \in Threads : locking[t] = m /\ t # owner[m] => pended_on[t] = m)
            => \/ prio[owner[m]] >= owner_orig_prio[m]
               \/ \E t \in ToSet(wait_q[m]) : prio[owner[m]] >= prio[t]

-----------------------------------------------------------------------------
(* Wait queues *)

\* z_pend_curr puts a thread that pends nowhere into one queue.
LEMMA PendKeeps ==
  ASSUME WaitInv, NEW t \in Threads, NEW o \in Objects, NEW timeout,
         prio' \in [Threads -> Int], pended_on[t] = None,
         z_pend_curr(t, o, timeout, prio')
  PROVE  /\ WaitInv'
         /\ wait_q' = [wait_q EXCEPT ![o] = z_priq_dumb_add(wait_q[o], t, prio')]
         /\ ToSet(wait_q'[o]) = ToSet(wait_q[o]) \cup {t}
         /\ wait_q'[o] # <<>>
<1> USE WaitQueueAssumption
<1> DEFINE q == wait_q[o]
           r == z_priq_dumb_add(q, t, prio')
<1>1. q \in Seq(Threads) /\ Distinct(q) /\ t \notin ToSet(q)
  BY DEF WaitInv, WaitTypeOK
<1>2. r \in Seq(Threads) /\ ToSet(r) = ToSet(q) \cup {t} /\ Distinct(r)
  <2> HIDE DEF q
  <2> QED BY <1>1, PriqAddList
<1>3. wait_q' = [wait_q EXCEPT ![o] = r] /\ wait_q'[o] = r
  BY DEF z_pend_curr, WaitInv, WaitTypeOK
<1>4. r # <<>>
  BY <1>2, EmptyList
<1> HIDE DEF q, r
<1>5. WaitTypeOK'
  BY <1>2, <1>3 DEF z_pend_curr, WaitInv, WaitTypeOK
<1>6. \A a \in Objects : Distinct(wait_q'[a])
  BY <1>2, <1>3 DEF WaitInv, WaitTypeOK
<1>7. \A a \in Objects, u \in Threads : u \in ToSet(wait_q'[a]) <=> pended_on'[u] = a
  <2> TAKE a \in Objects, u \in Threads
  <2>1. pended_on' = [pended_on EXCEPT ![t] = o]
    BY DEF z_pend_curr
  <2>2. u \in ToSet(wait_q[a]) <=> pended_on[u] = a
    BY DEF WaitInv
  <2>3. ToSet(wait_q'[a]) = IF a = o THEN ToSet(q) \cup {t} ELSE ToSet(wait_q[a])
    <3>1. CASE a = o
      BY <3>1, <1>2, <1>3
    <3>2. CASE a # o
      <4>1. wait_q'[a] = wait_q[a]
        BY <3>2, <1>3 DEF WaitInv, WaitTypeOK
      <4> QED BY <3>2, <4>1
    <3> QED BY <3>1, <3>2
  <2> QED BY <2>1, <2>2, <2>3 DEF WaitInv, WaitTypeOK, q
<1> QED BY <1>2, <1>3, <1>4, <1>5, <1>6, <1>7 DEF WaitInv, q, r

\* Wake takes threads out of the queue they pend in.
LEMMA WakeKeeps ==
  ASSUME WaitInv, NEW o \in Objects, NEW ts \in SUBSET ToSet(wait_q[o]),
         prio' \in [Threads -> Int], Wake(ts, o)
  PROVE  /\ WaitInv'
         /\ wait_q' = [wait_q EXCEPT ![o] = Remaining(wait_q[o], ts)]
         /\ ToSet(wait_q'[o]) = ToSet(wait_q[o]) \ ts
<1> USE WaitQueueAssumption
<1> DEFINE q == wait_q[o]
           r == Remaining(q, ts)
<1>1. q \in Seq(Threads) /\ Distinct(q)
  BY DEF WaitInv, WaitTypeOK
<1>2. r \in Seq(Threads) /\ ToSet(r) = ToSet(q) \ ts /\ Distinct(r)
  <2> HIDE DEF q
  <2> QED BY <1>1, RemainingList
<1>3. wait_q' = [wait_q EXCEPT ![o] = r] /\ wait_q'[o] = r
  BY DEF Wake, WakeWith, Unpend, SetReturn, WaitInv, WaitTypeOK
<1>4. ts \subseteq Threads
  BY <1>1, ListElements
<1> HIDE DEF q, r
<1>5. WaitTypeOK'
  BY <1>2, <1>3 DEF Wake, WakeWith, Unpend, SetReturn, WaitInv, WaitTypeOK
<1>6. \A a \in Objects : Distinct(wait_q'[a])
  BY <1>2, <1>3 DEF WaitInv, WaitTypeOK
<1>7. \A a \in Objects, u \in Threads : u \in ToSet(wait_q'[a]) <=> pended_on'[u] = a
  <2> TAKE a \in Objects, u \in Threads
  <2>1. pended_on'[u] = IF u \in ts THEN None ELSE pended_on[u]
    BY DEF Wake, WakeWith, Unpend, SetReturn
  <2>2. /\ u \in ToSet(wait_q[a]) <=> pended_on[u] = a
        /\ u \in ToSet(q) <=> pended_on[u] = o
    BY DEF WaitInv, q
  <2>3. ToSet(wait_q'[a]) = IF a = o THEN ToSet(q) \ ts ELSE ToSet(wait_q[a])
    <3>1. CASE a = o
      BY <3>1, <1>2, <1>3
    <3>2. CASE a # o
      <4>1. wait_q'[a] = wait_q[a]
        BY <3>2, <1>3 DEF WaitInv, WaitTypeOK
      <4> QED BY <3>2, <4>1
    <3> QED BY <3>1, <3>2
  <2> QED BY <2>1, <2>2, <2>3 DEF q
<1> QED BY <1>2, <1>3, <1>5, <1>6, <1>7 DEF WaitInv, q, r

\* The callback of a timeout takes its thread out of the queue it pends in.
LEMMA TimeoutKeeps ==
  ASSUME WaitInv, z_thread_timeout
  PROVE  /\ WaitInv' /\ firing \in Threads
         /\ \A o \in Objects : /\ ToSet(wait_q'[o]) = ToSet(wait_q[o]) \ {firing}
                               /\ wait_q'[o] # <<>> => wait_q[o] # <<>>
         /\ pended_on' = [pended_on EXCEPT ![firing] = None]
         /\ \A o \in Objects : wait_q'[o] = IF pended_on[firing] = o
                                              THEN RemoveFirst(wait_q[o], firing)
                                              ELSE wait_q[o]
<1> USE WaitQueueAssumption
<1> DEFINE t == firing
<1>1. t \in Threads
  BY DEF z_thread_timeout, WaitInv, WaitTypeOK
<1>2. pended_on' = [pended_on EXCEPT ![t] = None]
  BY <1>1 DEF z_thread_timeout, WaitInv, WaitTypeOK
<1>3. \A o \in Objects : wait_q'[o] = IF pended_on[t] = o THEN RemoveFirst(wait_q[o], t)
                                                          ELSE wait_q[o]
  BY <1>1 DEF z_thread_timeout, WaitInv, WaitTypeOK
<1>4. ASSUME NEW o \in Objects
      PROVE  /\ wait_q'[o] \in Seq(Threads) /\ Distinct(wait_q'[o])
             /\ ToSet(wait_q'[o]) = ToSet(wait_q[o]) \ {t}
             /\ wait_q'[o] # <<>> => wait_q[o] # <<>>
  <2>1. wait_q[o] \in Seq(Threads) /\ Distinct(wait_q[o])
    BY DEF WaitInv, WaitTypeOK
  <2>2. t \in ToSet(wait_q[o]) <=> pended_on[t] = o
    BY <1>1 DEF WaitInv
  <2>3. CASE pended_on[t] = o
    <3>1. wait_q'[o] = RemoveFirst(wait_q[o], t)
      BY <1>3, <2>3
    <3> QED BY <2>1, <2>2, <2>3, <3>1, RemoveList, EmptyList
  <2>4. CASE pended_on[t] # o
    BY <2>1, <2>2, <2>4, <1>3
  <2> QED BY <2>3, <2>4
<1>5. WaitTypeOK'
  <2>1. wait_q' \in [Objects -> Seq(Threads)]
    <3>1. DOMAIN wait_q' = Objects /\ wait_q' = [o \in Objects |-> wait_q'[o]]
      BY <1>1 DEF z_thread_timeout, WaitInv, WaitTypeOK
    <3> QED BY <3>1, <1>4
  <2> QED BY <1>2, <2>1 DEF z_thread_timeout, WaitInv, WaitTypeOK
<1>6. \A o \in Objects, u \in Threads : u \in ToSet(wait_q'[o]) <=> pended_on'[u] = o
  <2> TAKE o \in Objects, u \in Threads
  <2>1. u \in ToSet(wait_q[o]) <=> pended_on[u] = o
    BY DEF WaitInv
  <2>2. pended_on'[u] = IF u = t THEN None ELSE pended_on[u]
    BY <1>1, <1>2 DEF WaitInv, WaitTypeOK
  <2> QED BY <2>1, <2>2, <1>4
<1> QED BY <1>1, <1>2, <1>3, <1>4, <1>5, <1>6 DEF WaitInv

\* A timeout that leaves the kernel's list changes no queue.
LEMMA ExpireKeeps ==
  ASSUME WaitInv, NEW t \in Threads, Expire(t)
  PROVE  WaitInv' /\ UNCHANGED <<prio, wait_q, pended_on, swap_retval, forever>>
BY DEF Expire, WaitInv, WaitTypeOK

-----------------------------------------------------------------------------
(* Mutexes: one lemma per action *)

LEMMA InitIInv == Init => IInv
<1> USE WaitQueueAssumption, MutexAssumption
<1> SUFFICES ASSUME Init PROVE IInv
  OBVIOUS
<1>1. TypeOK /\ WaitTypeOK
  BY EmptyList DEF Init, WaitInit, TypeOK, WaitTypeOK
<1>2. WaitInv
  BY <1>1, EmptyList DEF Init, WaitInit, WaitInv
<1>3. WaitersHaveOwner
  BY EmptyList DEF Init, WaitInit, WaitersHaveOwner
<1>4. HeldInv
  BY EmptyList DEF Init, WaitInit, HeldInv, PrioSaved
<1> QED BY <1>1, <1>2, <1>3, <1>4 DEF IInv

\* Locking a mutex that is free, or once more.
LEMMA LockFreeKeeps ==
  ASSUME IInv, NEW t \in Threads, NEW m \in Mutexes, Running(t), LockFree(t, m)
  PROVE  IInv'
<1> USE WaitQueueAssumption, MutexAssumption
<1>1. TypeOK'
  <2>1. m \in Mutexes /\ held[t] \in Seq(Mutexes)
    BY DEF IInv, TypeOK
  <2>2. Append(held[t], m) \in Seq(Mutexes)
    BY <2>1, AppendList
  <2>3. SavedPrio(m, t) \in Int
    BY DEF SavedPrio, IInv, TypeOK, WaitTypeOK
  <2>4. held' \in [Threads -> Seq(Mutexes)]
    BY <2>1, <2>2 DEF IInv, TypeOK, LockFree
  <2>5. WaitTypeOK'
    <3>1. UNCHANGED <<prio, waitVars>> /\ WaitTypeOK
      BY DEF LockFree, IInv, TypeOK
    <3> QED BY <3>1 DEF WaitTypeOK, waitVars
  <2> QED BY <2>1, <2>3, <2>4, <2>5 DEF IInv, TypeOK, LockFree
<1>2. WaitInv'
  BY DEF IInv, WaitInv, WaitTypeOK, LockFree, waitVars
<1>3. t \notin ToSet(wait_q[m])
  BY DEF Running, IInv, WaitInv
<1>4. WaitersHaveOwner'
  BY <1>3 DEF WaitersHaveOwner, IInv, TypeOK, LockFree, waitVars
<1>5. CASE owner[m] = t
  <2>1. held' = held /\ owner' = owner /\ prio' = prio
    BY <1>5 DEF LockFree, IInv, TypeOK
  <2>2. owner_orig_prio' = owner_orig_prio
    BY <1>5 DEF LockFree, IInv, TypeOK, SavedPrio, WaitersHaveOwner
  <2>3. HeldInv'
    BY <2>1, <2>2 DEF IInv, HeldInv, PrioSaved
  <2> QED BY <1>1, <1>2, <1>4, <2>3 DEF IInv
<1>6. CASE owner[m] # t
  <2>1. lock_count[m] = 0 /\ owner[m] = None
    BY <1>6 DEF LockFree, IInv, WaitersHaveOwner
  <2>2. /\ held' = [held EXCEPT ![t] = Append(held[t], m)]
        /\ owner' = [owner EXCEPT ![m] = t]
        /\ owner_orig_prio' = [owner_orig_prio EXCEPT ![m] = prio[t]]
        /\ prio' = prio
    BY <1>6, <2>1 DEF LockFree, SavedPrio
  <2>3. held[t] \in Seq(Mutexes) /\ Distinct(held[t]) /\ m \notin ToSet(held[t])
    BY <2>1 DEF IInv, TypeOK, HeldInv
  <2>4. /\ ToSet(Append(held[t], m)) = ToSet(held[t]) \cup {m}
        /\ Distinct(Append(held[t], m))
    BY <2>3, AppendList
  <2>5. \A u \in Threads : Distinct(held'[u])
    BY <2>2, <2>4 DEF IInv, TypeOK, HeldInv
  <2>6. \A u \in Threads, n \in Mutexes : n \in ToSet(held'[u]) <=> owner'[n] = u
    <3> TAKE u \in Threads, n \in Mutexes
    <3>1. n \in ToSet(held[u]) <=> owner[n] = u
      BY DEF IInv, HeldInv
    <3>2. ToSet(held'[u]) = IF u = t THEN ToSet(held[u]) \cup {m} ELSE ToSet(held[u])
      <4>1. CASE u = t
        BY <4>1, <2>2, <2>4 DEF IInv, TypeOK
      <4>2. CASE u # t
        <5>1. held'[u] = held[u]
          BY <4>2, <2>2 DEF IInv, TypeOK
        <5> QED BY <4>2, <5>1
      <4> QED BY <4>1, <4>2
    <3>3. owner'[n] = IF n = m THEN t ELSE owner[n]
      BY <2>2 DEF IInv, TypeOK
    <3> QED BY <3>1, <3>2, <3>3, <2>1
  <2>7. ASSUME Reverse_order PROVE PrioSaved'
    <3> SUFFICES ASSUME NEW u \in Threads
                 PROVE  IF held'[u] = <<>> THEN prio'[u] = Base[u]
                          ELSE owner_orig_prio'[held'[u][1]] = Base[u]
      BY DEF PrioSaved
    <3>1. IF held[u] = <<>> THEN prio[u] = Base[u] ELSE owner_orig_prio[held[u][1]] = Base[u]
      BY <2>7 DEF IInv, HeldInv, PrioSaved
    <3>2. CASE u = t /\ held[t] = <<>>
      <4>1. held'[u] = Append(held[t], m) /\ held'[u][1] = m /\ held'[u] # <<>>
        BY <3>2, <2>2 DEF IInv, TypeOK
      <4> QED BY <4>1, <3>1, <3>2, <2>2 DEF IInv, TypeOK
    <3>3. CASE ~(u = t /\ held[t] = <<>>)
      <4>1. held[u] # <<>> => /\ held'[u] # <<>> /\ held'[u][1] = held[u][1]
                              /\ held[u][1] \in ToSet(held[u])
        <5>1. held[u] \in Seq(Mutexes)
          BY DEF IInv, TypeOK
        <5>2. held[u] # <<>> => held[u][1] \in ToSet(held[u])
          BY <5>1, TailList
        <5>3. held'[u] = IF u = t THEN Append(held[u], m) ELSE held[u]
          BY <2>2 DEF IInv, TypeOK
        <5> QED BY <5>1, <5>2, <5>3
      <4>2. held[u] = <<>> => held'[u] = <<>>
        BY <3>3, <2>2 DEF IInv, TypeOK
      <4>3. m \notin ToSet(held[u])
        BY <2>1 DEF IInv, HeldInv
      <4>4. held[u] # <<>> => owner_orig_prio'[held[u][1]] = owner_orig_prio[held[u][1]]
        BY <4>1, <4>3, <2>2 DEF IInv, TypeOK
      <4> QED BY <3>1, <4>1, <4>2, <4>4, <2>2
    <3> QED BY <3>2, <3>3
  <2> QED BY <1>1, <1>2, <1>4, <2>5, <2>6, <2>7 DEF IInv, HeldInv
<1> QED BY <1>5, <1>6

\* A new priority of a thread that owns a mutex concerns nobody's own priority.
LEMMA OwnerPrioKeeps ==
  ASSUME IInv, NEW m \in Mutexes, owner[m] # None, NEW p \in Int,
         prio' = [prio EXCEPT ![owner[m]] = p] \/ prio' = prio,
         UNCHANGED <<held, owner, owner_orig_prio>>
  PROVE  HeldInv' /\ prio' \in [Threads -> Int]
<1> USE WaitQueueAssumption, MutexAssumption
<1>1. owner[m] \in Threads /\ m \in ToSet(held[owner[m]])
  BY DEF IInv, TypeOK, HeldInv
<1>2. held[owner[m]] # <<>>
  BY <1>1, EmptyList
<1>3. \A u \in Threads : held[u] = <<>> => prio'[u] = prio[u]
  BY <1>1, <1>2 DEF IInv, TypeOK, WaitTypeOK
<1>4. prio' \in [Threads -> Int]
  BY <1>1 DEF IInv, TypeOK, WaitTypeOK
<1>5. PrioSaved => PrioSaved'
  BY <1>3 DEF PrioSaved
<1> QED BY <1>4, <1>5 DEF IInv, HeldInv

\* Priorities are integers.
LEMMA NewPrio ==
  ASSUME NEW a \in Int, NEW b \in Int
  PROVE  new_prio_for_inheritance(a, b) \in Int
BY MutexAssumption DEF new_prio_for_inheritance, HigherPrio

\* Waiting for a mutex of another thread.
LEMMA LockWaitKeeps ==
  ASSUME IInv, NEW t \in Threads, NEW m \in Mutexes, NEW timeout,
         Running(t), LockWait(t, m, timeout)
  PROVE  IInv' /\ prio' \in [Threads -> Int]
<1> USE WaitQueueAssumption, MutexAssumption
<1> DEFINE new == new_prio_for_inheritance(prio[t], prio[owner[m]])
<1>1. owner[m] # None /\ owner[m] \in Threads /\ owner[m] # t /\ m \in Objects
  BY DEF LockWait, IInv, WaitersHaveOwner, TypeOK
<1>2. new \in Int
  BY <1>1, NewPrio DEF IInv, TypeOK, WaitTypeOK
<1>3. prio' = [prio EXCEPT ![owner[m]] = new] \/ prio' = prio
  BY DEF LockWait, Raised
<1>4. UNCHANGED <<held, owner, owner_orig_prio, lock_count>>
  BY DEF LockWait, mutexVars
<1> HIDE DEF new
<1>5. HeldInv' /\ prio' \in [Threads -> Int]
  BY <1>1, <1>2, <1>3, <1>4, OwnerPrioKeeps
<1>6. pended_on[t] = None /\ z_pend_curr(t, m, timeout, prio')
  BY DEF Running, LockWait
<1>7. /\ WaitInv'
      /\ wait_q' = [wait_q EXCEPT ![m] = z_priq_dumb_add(wait_q[m], t, prio')]
      /\ ToSet(wait_q'[m]) = ToSet(wait_q[m]) \cup {t}
      /\ wait_q'[m] # <<>>
  BY <1>1, <1>5, <1>6, PendKeeps DEF IInv
<1>8. TypeOK'
  BY <1>4, <1>7 DEF LockWait, IInv, TypeOK, WaitInv
<1>9. WaitersHaveOwner'
  <2>1. ASSUME NEW n \in Mutexes, wait_q'[n] # <<>>
        PROVE  owner'[n] # None /\ owner'[n] \notin ToSet(wait_q'[n])
    <3>1. CASE n = m
      <4>1. owner[m] \notin ToSet(wait_q[m])
        BY <1>1, EmptyList DEF IInv, WaitersHaveOwner, TypeOK, WaitTypeOK
      <4> QED BY <3>1, <4>1, <1>1, <1>4, <1>7
    <3>2. CASE n # m
      <4>1. wait_q'[n] = wait_q[n]
        BY <3>2, <1>7 DEF IInv, WaitInv, WaitTypeOK
      <4> QED BY <2>1, <4>1, <1>4 DEF IInv, WaitersHaveOwner
    <3> QED BY <3>1, <3>2
  <2>2. \A n \in Mutexes : owner'[n] = None <=> lock_count'[n] = 0
    BY <1>4 DEF IInv, WaitersHaveOwner
  <2> QED BY <2>1, <2>2, <1>7 DEF WaitersHaveOwner, WaitInv
<1> QED BY <1>5, <1>7, <1>8, <1>9 DEF IInv

\* k_mutex_lock.
LEMMA LockKeeps ==
  ASSUME IInv, NEW t \in Threads, NEW m \in Mutexes, NEW timeout,
         k_mutex_lock(t, m, timeout)
  PROVE  IInv'
BY LockFreeKeeps, LockWaitKeeps DEF k_mutex_lock

\* k_mutex_lock returns 0.
LEMMA LockDoneKeeps ==
  ASSUME IInv, NEW t \in Threads, LockDone(t)
  PROVE  IInv'
<1> USE WaitQueueAssumption, MutexAssumption
<1>1. UNCHANGED <<prio, waitVars, mutexVars, held>> /\ locking' \in [Threads -> Mutexes \cup {None}]
  BY DEF LockDone, IInv, TypeOK
<1>2. TypeOK' /\ WaitInv'
  BY <1>1 DEF IInv, TypeOK, WaitTypeOK, WaitInv, waitVars, mutexVars
<1>3. WaitersHaveOwner' /\ HeldInv'
  BY <1>1 DEF IInv, WaitersHaveOwner, HeldInv, PrioSaved, waitVars, mutexVars
<1> QED BY <1>2, <1>3 DEF IInv

\* The priority that Lowered gives to the owner.
LEMMA LoweredPrio ==
  ASSUME IInv, NEW m \in Mutexes, owner[m] # None
  PROVE  \E p \in Int :
           /\ Lowered(m) = [prio EXCEPT ![owner[m]] = p]
           /\ p = IF wait_q[m] = <<>> THEN owner_orig_prio[m]
                  ELSE new_prio_for_inheritance(prio[Head(wait_q[m])], owner_orig_prio[m])
<1> USE WaitQueueAssumption, MutexAssumption
<1> DEFINE p == IF wait_q[m] = <<>> THEN owner_orig_prio[m]
                ELSE new_prio_for_inheritance(prio[Head(wait_q[m])], owner_orig_prio[m])
<1>1. wait_q[m] # <<>> => Head(wait_q[m]) \in Threads
  BY TailList DEF IInv, TypeOK, WaitTypeOK
<1>2. p \in Int
  BY <1>1, NewPrio DEF IInv, TypeOK, WaitTypeOK
<1>3. Lowered(m) = [prio EXCEPT ![owner[m]] = p]
  BY DEF Lowered
<1> QED BY <1>2, <1>3

\* k_mutex_lock returns -EAGAIN.
LEMMA LockTimedOutKeeps ==
  ASSUME IInv, NEW t \in Threads, LockTimedOut(t)
  PROVE  IInv' /\ prio' \in [Threads -> Int]
<1> USE WaitQueueAssumption, MutexAssumption
<1> DEFINE m == locking[t]
<1>1. /\ UNCHANGED <<waitVars, mutexVars, held>>
      /\ locking' \in [Threads -> Mutexes \cup {None}]
      /\ m \in Mutexes /\ prio' = Lowered(m)
  BY DEF LockTimedOut, IInv, TypeOK
<1> HIDE DEF m
<1>2. HeldInv' /\ prio' \in [Threads -> Int]
  <2>1. CASE owner[m] = None
    <3>1. prio' = prio
      BY <2>1, <1>1 DEF Lowered
    <3> QED BY <3>1, <1>1 DEF IInv, HeldInv, PrioSaved, TypeOK, WaitTypeOK, mutexVars
  <2>2. CASE owner[m] # None
    <3>1. PICK p \in Int : prio' = [prio EXCEPT ![owner[m]] = p]
      BY <1>1, <2>2, LoweredPrio
    <3> QED BY <1>1, <2>2, <3>1, OwnerPrioKeeps DEF mutexVars
  <2> QED BY <2>1, <2>2
<1>3. TypeOK' /\ WaitInv'
  BY <1>1, <1>2 DEF IInv, TypeOK, WaitTypeOK, WaitInv, waitVars, mutexVars
<1>4. WaitersHaveOwner'
  BY <1>1 DEF IInv, WaitersHaveOwner, waitVars, mutexVars
<1> QED BY <1>2, <1>3, <1>4 DEF IInv

\* Unlocking a mutex that was locked several times.
LEMMA UnlockOnceKeeps ==
  ASSUME IInv, NEW t \in Threads, NEW m \in Mutexes, owner[m] = t, UnlockOnce(t, m),
         UNCHANGED locking
  PROVE  IInv'
<1> USE WaitQueueAssumption, MutexAssumption
<1>1. /\ UNCHANGED <<prio, waitVars, owner, owner_orig_prio, held, locking>>
      /\ lock_count[m] > 1 /\ lock_count' = [lock_count EXCEPT ![m] = lock_count[m] - 1]
  BY DEF UnlockOnce
<1>2. lock_count[m] \in 0..MaxCount /\ lock_count' \in [Mutexes -> 0..MaxCount]
  BY <1>1 DEF IInv, TypeOK
<1>3. TypeOK' /\ WaitInv'
  BY <1>1, <1>2 DEF IInv, TypeOK, WaitTypeOK, WaitInv, waitVars
<1>4. WaitersHaveOwner'
  BY <1>1, <1>2 DEF IInv, TypeOK, WaitersHaveOwner, waitVars
<1>5. HeldInv'
  BY <1>1 DEF IInv, HeldInv, PrioSaved
<1> QED BY <1>3, <1>4, <1>5 DEF IInv

\* What the owner still holds after it has unlocked m.
LEMMA RestHeld ==
  ASSUME IInv, NEW t \in Threads, NEW m \in Mutexes, owner[m] = t
  PROVE  LET rest == RemoveFirst(held[t], m)
         IN  /\ rest \in Seq(Mutexes) /\ Distinct(rest)
             /\ ToSet(rest) = ToSet(held[t]) \ {m}
             /\ Reverse_order /\ m = Last(held[t]) =>
                  IF rest = <<>> THEN held[t] # <<>> /\ held[t][1] = m
                  ELSE held[t] # <<>> /\ rest[1] = held[t][1]
<1> USE WaitQueueAssumption, MutexAssumption
<1> DEFINE s == held[t]
           rest == RemoveFirst(s, m)
<1>1. s \in Seq(Mutexes) /\ Distinct(s) /\ m \in ToSet(s)
  BY DEF IInv, TypeOK, HeldInv
<1> HIDE DEF s
<1>2. rest \in Seq(Mutexes) /\ Distinct(rest) /\ ToSet(rest) = ToSet(s) \ {m}
  BY <1>1, RemoveList
<1>3. PICK k \in 1..Len(s) :
        /\ s[k] = m /\ Len(rest) = Len(s) - 1
        /\ \A i \in 1..Len(rest) : rest[i] = IF i < k THEN s[i] ELSE s[i + 1]
  BY <1>1, RemoveFirstPlaces
<1> HIDE DEF rest
<1>4. ASSUME m = Last(s)
      PROVE  IF rest = <<>> THEN s # <<>> /\ s[1] = m ELSE s # <<>> /\ rest[1] = s[1]
  <2>1. Len(s) \in Nat \ {0} /\ s # <<>> /\ s[Len(s)] = m
    BY <1>1, <1>3, <1>4 DEF Last
  <2>2. k = Len(s)
    BY <2>1, <1>1, <1>3 DEF Distinct
  <2>3. CASE rest = <<>>
    <3>1. Len(s) = 1
      BY <2>3, <1>3, <2>1
    <3> QED BY <3>1, <2>1, <2>3
  <2>4. CASE rest # <<>>
    <3>1. Len(rest) >= 1 /\ 1 < k
      BY <2>4, <2>1, <2>2, <1>2, <1>3
    <3> QED BY <3>1, <1>2, <1>3, <2>1, <2>4
  <2> QED BY <2>3, <2>4
<1> QED BY <1>2, <1>4 DEF s, rest

\* The owner's priority comes back when it gives its last mutex away: to the
\* first waiter h, or to nobody (h is None).
LEMMA ReleaseHeld ==
  ASSUME IInv, NEW t \in Threads, NEW m \in Mutexes, owner[m] = t,
         Reverse_order => m = Last(held[t]),
         NEW h \in Threads \cup {None}, h # t,
         prio' = Restored(t, m),
         owner' = [owner EXCEPT ![m] = h],
         h # None => owner_orig_prio' = [owner_orig_prio EXCEPT ![m] = prio[h]],
         h = None => owner_orig_prio' = owner_orig_prio,
         held'[t] = RemoveFirst(held[t], m),
         h # None => held'[h] = Append(held[h], m),
         \A u \in Threads : u # t /\ u # h => held'[u] = held[u]
  PROVE  HeldInv' /\ prio' \in [Threads -> Int]
<1> USE WaitQueueAssumption, MutexAssumption
<1> DEFINE rest == RemoveFirst(held[t], m)
<1>1. /\ rest \in Seq(Mutexes) /\ Distinct(rest)
      /\ ToSet(rest) = ToSet(held[t]) \ {m}
      /\ Reverse_order /\ m = Last(held[t]) =>
           IF rest = <<>> THEN held[t] # <<>> /\ held[t][1] = m
           ELSE held[t] # <<>> /\ rest[1] = held[t][1]
  BY RestHeld
<1> HIDE DEF rest
<1>2. /\ held'[t] = rest
      /\ \A u \in Threads : u # t /\ u # h => held'[u] = held[u]
      /\ h # None => held'[h] = Append(held[h], m)
  BY DEF rest
<1>3. \A u \in Threads : /\ held[u] \in Seq(Mutexes) /\ Distinct(held[u])
                          /\ \A n \in Mutexes : n \in ToSet(held[u]) <=> owner[n] = u
  BY DEF IInv, TypeOK, HeldInv
<1>4. h # None => /\ Append(held[h], m) \in Seq(Mutexes) /\ Distinct(Append(held[h], m))
                  /\ ToSet(Append(held[h], m)) = ToSet(held[h]) \cup {m}
  BY <1>3, AppendList
<1>5. ASSUME NEW u \in Threads
      PROVE  /\ Distinct(held'[u])
             /\ \A n \in Mutexes : n \in ToSet(held'[u]) <=> owner'[n] = u
  <2>0. \A n \in Mutexes : owner'[n] = IF n = m THEN h ELSE owner[n]
    BY DEF IInv, TypeOK
  <2>1. CASE u = t
    BY <2>0, <2>1, <1>1, <1>2, <1>3
  <2>2. CASE u = h
    <3>1. h # None /\ held'[u] = Append(held[u], m)
      BY <2>2, <1>2
    <3>2. Distinct(held'[u]) /\ ToSet(held'[u]) = ToSet(held[u]) \cup {m}
      BY <2>2, <3>1, <1>4
    <3> QED BY <2>0, <2>2, <3>2, <1>3
  <2>3. CASE u # t /\ u # h
    BY <2>0, <2>3, <1>2, <1>3
  <2> QED BY <2>1, <2>2, <2>3
<1>6. prio' \in [Threads -> Int] /\ prio' = [prio EXCEPT ![t] = owner_orig_prio[m]]
  BY DEF Restored, IInv, TypeOK, WaitTypeOK
<1>7. ASSUME Reverse_order, NEW u \in Threads
      PROVE  IF held'[u] = <<>> THEN prio'[u] = Base[u]
               ELSE owner_orig_prio'[held'[u][1]] = Base[u]
  <2>0. IF held[u] = <<>> THEN prio[u] = Base[u] ELSE owner_orig_prio[held[u][1]] = Base[u]
    BY <1>7 DEF IInv, HeldInv, PrioSaved
  <2>1. \A n \in Mutexes : n # m => owner_orig_prio'[n] = owner_orig_prio[n]
    BY DEF IInv, TypeOK
  <2>2. u # t => prio'[u] = prio[u]
    BY <1>6 DEF IInv, TypeOK, WaitTypeOK
  <2>3. held[u] # <<>> => held[u][1] \in ToSet(held[u]) /\ held[u][1] \in Mutexes
    BY <1>3, TailList
  <2>4. CASE u = t
    <3>1. CASE rest = <<>>
      <4>1. held[t] # <<>> /\ held[t][1] = m
        BY <3>1, <1>1, <1>7
      <4>2. prio'[t] = owner_orig_prio[m]
        BY <1>6 DEF IInv, TypeOK, WaitTypeOK
      <4> QED BY <2>0, <2>4, <3>1, <4>1, <4>2, <1>2
    <3>2. CASE rest # <<>>
      <4>1. held[t] # <<>> /\ rest[1] = held[t][1]
        BY <3>2, <1>1, <1>7
      <4>2. rest[1] \in ToSet(rest) /\ rest[1] \in Mutexes
        BY <3>2, <1>1, TailList
      <4>3. rest[1] # m
        BY <4>2, <1>1
      <4> QED BY <2>0, <2>1, <2>4, <3>2, <4>1, <4>2, <4>3, <1>2
    <3> QED BY <3>1, <3>2
  <2>5. CASE u = h
    <3>0. h # None /\ held[u] \in Seq(Mutexes)
      BY <2>5, <1>3
    <3>1. held'[u] = Append(held[u], m) /\ held'[u] # <<>>
      BY <2>5, <1>2, <3>0
    <3>2. CASE held[u] = <<>>
      <4>1. held'[u][1] = m
        BY <3>1, <3>2
      <4>2. owner_orig_prio'[m] = prio[u]
        BY <2>5 DEF IInv, TypeOK
      <4> QED BY <2>0, <3>1, <3>2, <4>1, <4>2
    <3>3. CASE held[u] # <<>>
      <4>1. held'[u][1] = held[u][1]
        BY <3>1, <3>3, <1>3
      <4>2. held[u][1] # m
        BY <2>3, <2>5, <3>3, <1>3
      <4> QED BY <2>0, <2>1, <2>3, <3>1, <3>3, <4>1, <4>2
    <3> QED BY <3>2, <3>3
  <2>6. CASE u # t /\ u # h
    <3>1. held'[u] = held[u]
      BY <2>6, <1>2
    <3>2. held[u] # <<>> => held[u][1] # m
      BY <2>3, <2>6, <1>3
    <3> QED BY <2>0, <2>1, <2>2, <2>3, <2>6, <3>1, <3>2
  <2> QED BY <2>4, <2>5, <2>6
<1>8. Reverse_order => PrioSaved'
  BY <1>7 DEF PrioSaved
<1> QED BY <1>5, <1>6, <1>8 DEF HeldInv

\* Unlocking a mutex that was locked once.
LEMMA ReleaseKeeps ==
  ASSUME IInv, NEW t \in Threads, NEW m \in Mutexes, owner[m] = t, Release(t, m),
         Reverse_order => m = Last(held[t]), UNCHANGED locking
  PROVE  IInv' /\ prio' \in [Threads -> Int]
<1> USE WaitQueueAssumption, MutexAssumption
<1>0. /\ lock_count[m] = 1 /\ prio' = Restored(t, m) /\ m \in Objects
      /\ DOMAIN held = Threads
  <2>1. lock_count[m] = 1 /\ prio' = Restored(t, m)
    BY DEF Release
  <2>2. m \in Objects
    OBVIOUS
  <2>3. DOMAIN held = Threads
    BY DEF IInv, TypeOK
  <2> QED BY <2>1, <2>2, <2>3
<1>1. CASE wait_q[m] # <<>>
  <2> DEFINE h == Head(wait_q[m])
  <2>1. h \in Threads /\ h \in ToSet(wait_q[m]) /\ h # t /\ h # None
    BY <1>1, TailList DEF IInv, TypeOK, WaitTypeOK, WaitersHaveOwner
  <2>2. /\ owner' = [owner EXCEPT ![m] = h]
        /\ owner_orig_prio' = [owner_orig_prio EXCEPT ![m] = prio'[h]]
        /\ held' = [held EXCEPT ![t] = RemoveFirst(held[t], m), ![h] = Append(held[h], m)]
        /\ Wake({h}, m) /\ lock_count' = lock_count
    BY <1>1, <2>1 DEF Release, IInv, TypeOK
  <2> HIDE DEF h
  <2>3. prio'[h] = prio[h]
    BY <1>0, <2>1 DEF Restored, IInv, TypeOK, WaitTypeOK
  <2>4. held' = [u \in Threads |-> IF u = t THEN RemoveFirst(held[t], m)
                                    ELSE IF u = h THEN Append(held[u], m) ELSE held[u]]
    BY <1>0, <2>1, <2>2
  <2>5. HeldInv' /\ prio' \in [Threads -> Int]
    <3>1. h \in Threads \cup {None}
      BY <2>1
    <3>2. owner_orig_prio' = [owner_orig_prio EXCEPT ![m] = prio[h]]
      BY <2>2, <2>3
    <3>3. /\ held'[t] = RemoveFirst(held[t], m)
          /\ held'[h] = Append(held[h], m)
          /\ \A u \in Threads : u # t /\ u # h => held'[u] = held[u]
      BY <2>1, <2>4
    <3>4. h # t /\ h # None /\ owner' = [owner EXCEPT ![m] = h] /\ prio' = Restored(t, m)
      BY <1>0, <2>1, <2>2
    <3> QED BY <3>1, <3>2, <3>3, <3>4, ReleaseHeld
  <2>6. /\ WaitInv'
        /\ wait_q' = [wait_q EXCEPT ![m] = Remaining(wait_q[m], {h})]
        /\ ToSet(wait_q'[m]) = ToSet(wait_q[m]) \ {h}
    <3>1. {h} \in SUBSET ToSet(wait_q[m])
      BY <2>1
    <3> QED BY <1>0, <2>2, <2>5, <3>1, WakeKeeps DEF IInv
  <2>7. TypeOK'
    <3>1. held' \in [Threads -> Seq(Mutexes)]
      <4>1. RemoveFirst(held[t], m) \in Seq(Mutexes)
        BY RestHeld
      <4>2. \A u \in Threads : Append(held[u], m) \in Seq(Mutexes) /\ held[u] \in Seq(Mutexes)
        BY AppendList DEF IInv, TypeOK
      <4> QED BY <2>4, <4>1, <4>2
    <3>2. owner_orig_prio' \in [Mutexes -> Int] /\ owner' \in [Mutexes -> Threads \cup {None}]
      BY <2>1, <2>2, <2>5 DEF IInv, TypeOK
    <3> QED BY <2>2, <2>6, <3>1, <3>2 DEF IInv, TypeOK, WaitInv
  <2>8. WaitersHaveOwner'
    <3>1. ASSUME NEW n \in Mutexes, wait_q'[n] # <<>>
          PROVE  owner'[n] # None /\ owner'[n] \notin ToSet(wait_q'[n])
      <4>1. CASE n = m
        BY <4>1, <2>1, <2>2, <2>6 DEF IInv, TypeOK
      <4>2. CASE n # m
        <5>1. wait_q'[n] = wait_q[n] /\ owner'[n] = owner[n]
          BY <4>2, <2>2, <2>6 DEF IInv, TypeOK, WaitTypeOK
        <5> QED BY <3>1, <5>1 DEF IInv, WaitersHaveOwner
      <4> QED BY <4>1, <4>2
    <3>2. \A n \in Mutexes : owner'[n] = None <=> lock_count'[n] = 0
      BY <1>0, <2>1, <2>2 DEF IInv, TypeOK, WaitersHaveOwner
    <3> QED BY <3>1, <3>2, <2>6 DEF WaitersHaveOwner, WaitInv
  <2> QED BY <2>5, <2>6, <2>7, <2>8 DEF IInv
<1>2. CASE wait_q[m] = <<>>
  <2>2. /\ owner' = [owner EXCEPT ![m] = None]
        /\ lock_count' = [lock_count EXCEPT ![m] = 0]
        /\ held' = [held EXCEPT ![t] = RemoveFirst(held[t], m)]
        /\ UNCHANGED <<waitVars, owner_orig_prio>>
    BY <1>2 DEF Release, IInv, TypeOK
  <2>4. /\ held'[t] = RemoveFirst(held[t], m)
        /\ \A u \in Threads : u # t => held'[u] = held[u]
    BY <1>0, <2>2
  <2>5. HeldInv' /\ prio' \in [Threads -> Int]
    <3>1. None \in Threads \cup {None} /\ None # t
      OBVIOUS
    <3> QED BY <1>0, <2>2, <2>4, <3>1, ReleaseHeld
  <2>6. WaitInv'
    BY <2>2, <2>5 DEF IInv, WaitInv, WaitTypeOK, waitVars
  <2>7. TypeOK'
    <3>1. held' \in [Threads -> Seq(Mutexes)]
      <4>1. RemoveFirst(held[t], m) \in Seq(Mutexes)
        BY RestHeld
      <4> QED BY <2>2, <4>1 DEF IInv, TypeOK
    <3> QED BY <2>2, <2>6, <3>1 DEF IInv, TypeOK, WaitInv
  <2>8. WaitersHaveOwner'
    BY <1>2, <2>2 DEF IInv, TypeOK, WaitersHaveOwner, waitVars
  <2> QED BY <2>5, <2>6, <2>7, <2>8 DEF IInv
<1> QED BY <1>1, <1>2

\* k_mutex_unlock.
LEMMA UnlockKeeps ==
  ASSUME IInv, NEW t \in Threads, NEW m \in Mutexes, k_mutex_unlock(t, m)
  PROVE  IInv'
BY ReleaseKeeps, UnlockOnceKeeps DEF k_mutex_unlock

\* The callback of a timeout.
LEMMA TimeoutStepKeeps ==
  ASSUME IInv, TimeoutStep
  PROVE  IInv'
<1> USE WaitQueueAssumption, MutexAssumption
<1>1. z_thread_timeout /\ UNCHANGED <<prio, mutexVars, locking, held>>
  BY DEF TimeoutStep, z_thread_timeout
<1>2. /\ WaitInv'
      /\ \A o \in Objects : /\ ToSet(wait_q'[o]) = ToSet(wait_q[o]) \ {firing}
                            /\ wait_q'[o] # <<>> => wait_q[o] # <<>>
  BY <1>1, TimeoutKeeps DEF IInv
<1>3. TypeOK'
  BY <1>1, <1>2 DEF IInv, TypeOK, WaitInv, mutexVars
<1>4. WaitersHaveOwner'
  <2>1. ASSUME NEW n \in Mutexes
        PROVE  /\ owner'[n] = None <=> lock_count'[n] = 0
               /\ wait_q'[n] # <<>> => owner'[n] # None /\ owner'[n] \notin ToSet(wait_q'[n])
    <3>1. n \in Objects /\ owner'[n] = owner[n] /\ lock_count'[n] = lock_count[n]
      BY <1>1 DEF mutexVars
    <3> QED BY <3>1, <1>2 DEF IInv, WaitersHaveOwner
  <2> QED BY <2>1, <1>2 DEF WaitersHaveOwner, WaitInv
<1>5. HeldInv'
  BY <1>1 DEF IInv, HeldInv, PrioSaved, mutexVars
<1> QED BY <1>2, <1>3, <1>4, <1>5 DEF IInv

\* A timeout leaves the list.
LEMMA ExpireStepKeeps ==
  ASSUME IInv, NEW t \in Threads, Expire(t), UNCHANGED <<mutexVars, locking, held>>
  PROVE  IInv'
<1> USE WaitQueueAssumption, MutexAssumption
<1>1. WaitInv' /\ UNCHANGED <<prio, wait_q, pended_on>>
  BY ExpireKeeps DEF IInv
<1>2. TypeOK'
  BY <1>1 DEF IInv, TypeOK, WaitInv, mutexVars
<1>3. WaitersHaveOwner' /\ HeldInv'
  BY <1>1 DEF IInv, WaitersHaveOwner, HeldInv, PrioSaved, mutexVars
<1> QED BY <1>1, <1>2, <1>3 DEF IInv

\* Every step of the mutexes keeps the invariant.
LEMMA NextKeeps ==
  ASSUME IInv, [Next]_vars
  PROVE  IInv'
<1>1. CASE TimeoutStep
  BY <1>1, TimeoutStepKeeps
<1>2. ASSUME NEW t \in Threads, Call(t)
      PROVE  IInv'
  BY <1>2, LockKeeps, UnlockKeeps DEF Call
<1>3. ASSUME NEW t \in Threads, Return(t)
      PROVE  IInv'
  BY <1>3, LockDoneKeeps, LockTimedOutKeeps DEF Return
<1>4. ASSUME NEW t \in Threads, Expire(t) /\ UNCHANGED <<mutexVars, locking, held>>
      PROVE  IInv'
  BY <1>4, ExpireStepKeeps
<1>5. CASE UNCHANGED vars
  BY <1>5 DEF vars, waitVars, mutexVars, IInv, TypeOK, WaitTypeOK, WaitInv, WaitersHaveOwner,
              HeldInv, PrioSaved
<1> QED BY <1>1, <1>2, <1>3, <1>4, <1>5 DEF Next

\* The inductive invariant of kernel/mutex.c, with late callbacks or without.
THEOREM MutexInvariant == Spec => []IInv
<1>1. Init => IInv
  BY InitIInv
<1>2. IInv /\ [Next]_vars => IInv'
  BY NextKeeps
<1> QED BY <1>1, <1>2, PTL DEF Spec

\* Nobody waits for a mutex that is free (adjust_owner_prio, k_mutex_unlock), in
\* two places or for a mutex of its own, also if waits time out on other CPUs.
THEOREM NobodyWaitsForFree == Spec => []WaitersHaveOwner
<1>1. IInv => WaitersHaveOwner
  BY DEF IInv
<1> QED BY <1>1, MutexInvariant, PTL

\* Threads that unlock in reverse order and have no mutex have their own priority,
\* however k_mutex_lock and k_mutex_unlock raised and lowered it.
THEOREM PriorityComesBack == Spec => []PrioRestored
<1> USE WaitQueueAssumption, MutexAssumption
<1>1. IInv => PrioRestored
  <2> SUFFICES ASSUME IInv, Reverse_order, NEW t \in Threads, \A m \in Mutexes : owner[m] # t
               PROVE  prio[t] = Base[t]
    BY DEF PrioRestored
  <2>1. held[t] \in Seq(Mutexes) /\ \A m \in Mutexes : m \notin ToSet(held[t])
    BY DEF IInv, TypeOK, HeldInv
  <2>2. held[t] = <<>>
    BY <2>1, EmptyList, ListElements
  <2> QED BY <2>2 DEF IInv, HeldInv, PrioSaved
<1> QED BY <1>1, MutexInvariant, PTL

-----------------------------------------------------------------------------
(* What k_mutex_lock returns, if no callback is late *)

LEMMA InitAnswers == Init => Answers
BY WaitQueueAssumption DEF Init, WaitInit, Answers, AnswerTrue

\* Locking a mutex at once: nobody has been told to own it.
LEMMA LockFreeAnswers ==
  ASSUME IInv, Answers, NEW t \in Threads, NEW m \in Mutexes, Running(t), LockFree(t, m)
  PROVE  Answers'
<1> USE WaitQueueAssumption, MutexAssumption
<1>1. /\ UNCHANGED <<waitVars, locking>> /\ owner' = [owner EXCEPT ![m] = t]
      /\ owner[m] = None \/ owner[m] = t
  BY DEF LockFree, IInv, WaitersHaveOwner
<1>2. ASSUME NEW u \in Threads, locking[u] # None, pended_on[u] = None
      PROVE  owner'[locking[u]] = u <=> owner[locking[u]] = u
  <2>1. u # t /\ locking[u] \in Mutexes
    BY <1>2 DEF Running, IInv, TypeOK
  <2> QED BY <2>1, <1>1 DEF IInv, TypeOK
<1> QED BY <1>1, <1>2 DEF Answers, AnswerTrue, waitVars

\* Pending on a mutex, or on another object.
LEMMA PendAnswers ==
  ASSUME IInv, Answers, firing = None, NEW t \in Threads, NEW o \in Objects,
         NEW timeout \in {"ticks", "forever"}, Running(t), prio' \in [Threads -> Int],
         z_pend_curr(t, o, timeout, prio'), UNCHANGED owner,
         locking' = [locking EXCEPT ![t] = IF o \in Mutexes THEN o ELSE None]
  PROVE  Answers'
<1> USE WaitQueueAssumption, MutexAssumption
<1>1. /\ pended_on' = [pended_on EXCEPT ![t] = o]
      /\ swap_retval' = [swap_retval EXCEPT ![t] = "-EAGAIN"]
      /\ armed' = IF timeout = "ticks" THEN armed \cup {t} ELSE armed
      /\ forever' = IF timeout = "forever" THEN forever \cup {t} ELSE forever \ {t}
      /\ firing' = None
  BY DEF z_pend_curr
<1>2. /\ pended_on'[t] = o /\ o # None /\ swap_retval'[t] = "-EAGAIN"
      /\ locking'[t] = IF o \in Mutexes THEN o ELSE None
  BY <1>1 DEF IInv, TypeOK, WaitTypeOK
<1>3. t \notin armed /\ (t \in armed' => t \notin forever')
  BY <1>1 DEF Running, Answers
<1>4. \A u \in Threads : u # t => /\ pended_on'[u] = pended_on[u]
                                  /\ swap_retval'[u] = swap_retval[u]
                                  /\ locking'[u] = locking[u]
                                  /\ u \in armed' <=> u \in armed
                                  /\ u \in forever' <=> u \in forever
  BY <1>1 DEF IInv, TypeOK, WaitTypeOK
<1>5. ASSUME NEW u \in Threads, u = t
      PROVE  /\ pended_on'[u] # None /\ swap_retval'[u] = "-EAGAIN"
             /\ locking'[u] = IF pended_on'[u] \in Mutexes THEN pended_on'[u] ELSE None
             /\ u \in armed' => u \notin forever'
  BY <1>2, <1>3, <1>5
<1>6. /\ \A u \in Threads :
           pended_on'[u] # None =>
             /\ swap_retval'[u] = "-EAGAIN"
             /\ locking'[u] = IF pended_on'[u] \in Mutexes THEN pended_on'[u] ELSE None
      /\ \A u \in Threads :
           u \in armed' \/ u = firing' => pended_on'[u] # None /\ u \notin forever'
      /\ firing' \notin armed'
  BY <1>1, <1>4, <1>5 DEF Answers, IInv, TypeOK, WaitTypeOK
<1>7. AnswerTrue'
  BY <1>4, <1>5 DEF Answers, AnswerTrue
<1> QED BY <1>6, <1>7 DEF Answers

LEMMA LockWaitAnswers ==
  ASSUME IInv, Answers, firing = None, NEW t \in Threads, NEW m \in Mutexes,
         NEW timeout \in {"ticks", "forever"}, Running(t), LockWait(t, m, timeout)
  PROVE  Answers'
<1> USE WaitQueueAssumption, MutexAssumption
<1>1. m \in Objects /\ prio' \in [Threads -> Int]
  BY LockWaitKeeps
<1>2. /\ z_pend_curr(t, m, timeout, prio') /\ UNCHANGED owner
      /\ locking' = [locking EXCEPT ![t] = IF m \in Mutexes THEN m ELSE None]
  BY DEF LockWait, mutexVars
<1> QED BY <1>1, <1>2, PendAnswers

\* The end of k_mutex_lock.
LEMMA ReturnAnswers ==
  ASSUME IInv, Answers, NEW t \in Threads, Return(t)
  PROVE  Answers'
<1> USE WaitQueueAssumption, MutexAssumption
<1>1. /\ UNCHANGED <<waitVars, owner>> /\ pended_on[t] = None
      /\ locking' = [locking EXCEPT ![t] = None]
  BY DEF Return, LockDone, LockTimedOut, mutexVars
<1>2. \A u \in Threads : u # t => locking'[u] = locking[u]
  BY <1>1 DEF IInv, TypeOK
<1>3. locking'[t] = None
  BY <1>1 DEF IInv, TypeOK
<1> QED BY <1>1, <1>2, <1>3 DEF Answers, AnswerTrue, waitVars

\* Threads that are woken by the object they pend on, and own it if it is a mutex.
LEMMA WakeAnswers ==
  ASSUME IInv, Answers, firing = None, NEW o \in Objects,
         NEW ts \in SUBSET ToSet(wait_q[o]), Wake(ts, o), UNCHANGED locking,
         \A m \in Mutexes : m # o => owner'[m] = owner[m],
         o \in Mutexes => /\ \A u \in ts : owner'[o] = u
                          /\ \A u \in Threads : Running(u) \/ u \in ts \/ owner'[o] # u
                          /\ Running(owner[o])
  PROVE  Answers'
<1> USE WaitQueueAssumption, MutexAssumption
<1>0. ts \subseteq Threads /\ \A u \in ts : pended_on[u] = o
  BY ListElements DEF IInv, WaitInv, WaitTypeOK
<1>1. /\ pended_on' = [u \in Threads |-> IF u \in ts THEN None ELSE pended_on[u]]
      /\ swap_retval' = [u \in Threads |-> IF u \in ts THEN "0" ELSE swap_retval[u]]
      /\ armed' = armed \ ts /\ firing' = None /\ forever' = forever
  BY <1>0 DEF Wake, WakeWith, Unpend, SetReturn
<1>2. /\ \A u \in Threads :
           pended_on'[u] # None =>
             /\ swap_retval'[u] = "-EAGAIN"
             /\ locking'[u] = IF pended_on'[u] \in Mutexes THEN pended_on'[u] ELSE None
      /\ \A u \in Threads :
           u \in armed' \/ u = firing' => pended_on'[u] # None /\ u \notin forever'
      /\ firing' \notin armed'
  BY <1>1 DEF Answers, IInv, TypeOK, WaitTypeOK
<1>3. ASSUME NEW u \in Threads, locking[u] # None, pended_on'[u] = None
      PROVE  /\ swap_retval'[u] = "0" <=> owner'[locking[u]] = u
             /\ u \in forever => swap_retval'[u] = "0"
  <2>0. locking[u] \in Mutexes
    BY <1>3 DEF IInv, TypeOK
  <2>1. CASE u \in ts
    <3>1. locking[u] = o /\ o \in Mutexes
      BY <2>1, <1>0, <1>3 DEF Answers
    <3> QED BY <2>1, <3>1, <1>1
  <2>2. CASE u \notin ts
    <3>1. pended_on[u] = None /\ swap_retval'[u] = swap_retval[u]
      BY <2>2, <1>1, <1>3
    <3>2. /\ swap_retval[u] = "0" <=> owner[locking[u]] = u
          /\ u \in forever => swap_retval[u] = "0"
      BY <3>1, <1>3 DEF Answers, AnswerTrue
    <3>3. locking[u] = o => owner[o] # u /\ owner'[o] # u
      BY <2>0, <2>2, <1>3 DEF Running
    <3>4. locking[u] # o => owner'[locking[u]] = owner[locking[u]]
      BY <2>0
    <3> QED BY <3>1, <3>2, <3>3, <3>4
  <2> QED BY <2>1, <2>2
<1>4. AnswerTrue'
  BY <1>1, <1>3 DEF AnswerTrue
<1> QED BY <1>2, <1>4 DEF Answers

\* k_mutex_unlock: the first waiter is told that it owns the mutex, and does.
LEMMA UnlockAnswers ==
  ASSUME IInv, Answers, firing = None, NEW t \in Threads, NEW m \in Mutexes,
         k_mutex_unlock(t, m)
  PROVE  Answers'
<1> USE WaitQueueAssumption, MutexAssumption
<1>0. Running(t) /\ owner[m] = t /\ UNCHANGED locking /\ m \in Objects
  BY DEF k_mutex_unlock
<1>1. CASE UnlockOnce(t, m)
  BY <1>0, <1>1 DEF UnlockOnce, waitVars, Answers, AnswerTrue
<1>2. CASE Release(t, m) /\ wait_q[m] = <<>>
  <2>1. UNCHANGED waitVars /\ owner' = [owner EXCEPT ![m] = None]
    BY <1>2 DEF Release
  <2>2. ASSUME NEW u \in Threads, locking[u] # None, pended_on[u] = None
        PROVE  owner'[locking[u]] = u <=> owner[locking[u]] = u
    <3>1. u # t /\ locking[u] \in Mutexes
      BY <1>0, <2>2 DEF Running, IInv, TypeOK
    <3> QED BY <3>1, <2>1, <1>0 DEF IInv, TypeOK
  <2> QED BY <2>1, <2>2, <1>0 DEF Answers, AnswerTrue, waitVars
<1>3. CASE Release(t, m) /\ wait_q[m] # <<>>
  <2> DEFINE h == Head(wait_q[m])
  <2>1. h \in Threads /\ h \in ToSet(wait_q[m])
    BY <1>0, <1>3, TailList DEF IInv, TypeOK, WaitTypeOK
  <2>2. Wake({h}, m) /\ owner' = [owner EXCEPT ![m] = h]
    BY <1>3 DEF Release
  <2> HIDE DEF h
  <2>3. /\ owner'[m] = h
        /\ \A n \in Mutexes : n # m => owner'[n] = owner[n]
    BY <2>2 DEF IInv, TypeOK
  <2>4. /\ {h} \in SUBSET ToSet(wait_q[m])
        /\ \A u \in {h} : owner'[m] = u
        /\ \A u \in Threads : Running(u) \/ u \in {h} \/ owner'[m] # u
        /\ Running(owner[m])
    BY <2>1, <2>3, <1>0
  <2> QED BY <2>2, <2>3, <2>4, <1>0, WakeAnswers
<1> QED BY <1>0, <1>1, <1>2, <1>3 DEF k_mutex_unlock

\* The callback: the wait had a timeout, and the thread does not get the mutex.
LEMMA TimeoutAnswers ==
  ASSUME IInv, Answers, TimeoutStep
  PROVE  Answers'
<1> USE WaitQueueAssumption, MutexAssumption
<1>1. /\ z_thread_timeout /\ UNCHANGED <<owner, locking>> /\ firing' = None
      /\ UNCHANGED <<armed, swap_retval, forever>>
  BY DEF TimeoutStep, z_thread_timeout, mutexVars
<1>2. firing \in Threads /\ pended_on' = [pended_on EXCEPT ![firing] = None]
  BY <1>1, TimeoutKeeps DEF IInv
<1>3. /\ pended_on[firing] # None /\ firing \notin forever
      /\ swap_retval[firing] = "-EAGAIN"
      /\ locking[firing] = IF pended_on[firing] \in Mutexes THEN pended_on[firing] ELSE None
  BY <1>2 DEF Answers
<1>4. locking[firing] # None => owner[locking[firing]] # firing
  <2> SUFFICES ASSUME locking[firing] # None PROVE owner[locking[firing]] # firing
    OBVIOUS
  <2>1. pended_on[firing] \in Mutexes /\ locking[firing] = pended_on[firing]
    BY <1>3
  <2>2. firing \in ToSet(wait_q[pended_on[firing]])
    BY <2>1, <1>2 DEF IInv, WaitInv
  <2>3. wait_q[pended_on[firing]] # <<>>
    BY <2>2, EmptyList
  <2> QED BY <2>1, <2>2, <2>3 DEF IInv, WaitersHaveOwner
<1>5. /\ pended_on'[firing] = None
      /\ \A u \in Threads : u # firing => pended_on'[u] = pended_on[u]
  BY <1>2 DEF IInv, TypeOK, WaitTypeOK
<1>6. firing \notin armed /\ None \notin armed
  BY DEF Answers, IInv, TypeOK, WaitTypeOK
<1>7. /\ \A u \in Threads :
           pended_on'[u] # None =>
             /\ swap_retval'[u] = "-EAGAIN"
             /\ locking'[u] = IF pended_on'[u] \in Mutexes THEN pended_on'[u] ELSE None
      /\ \A u \in Threads :
           u \in armed' \/ u = firing' => pended_on'[u] # None /\ u \notin forever'
      /\ firing' \notin armed'
  BY <1>1, <1>5, <1>6 DEF Answers
<1>8. AnswerTrue'
  BY <1>1, <1>3, <1>4, <1>5 DEF Answers, AnswerTrue
<1> QED BY <1>7, <1>8 DEF Answers

\* A timeout leaves the list: its thread is in a wait that has one.
LEMMA ExpireAnswers ==
  ASSUME IInv, Answers, NEW t \in Threads, Expire(t), UNCHANGED <<mutexVars, locking>>
  PROVE  Answers'
<1>1. /\ UNCHANGED <<pended_on, swap_retval, forever, owner, locking>>
      /\ t \in armed /\ armed' = armed \ {t} /\ firing' = t
  BY DEF Expire, mutexVars
<1> QED BY <1>1 DEF Answers, AnswerTrue

\* Every step keeps what threads are told.
LEMMA NextAnswers ==
  ASSUME ~LateCallback, IInv, Answers, [Next]_vars
  PROVE  Answers'
<1>1. CASE TimeoutStep
  BY <1>1, TimeoutAnswers
<1>2. ASSUME NEW t \in Threads, firing = None, Call(t)
      PROVE  Answers'
  BY <1>2, LockFreeAnswers, LockWaitAnswers, UnlockAnswers DEF Call, k_mutex_lock
<1>3. ASSUME NEW t \in Threads, Return(t)
      PROVE  Answers'
  BY <1>3, ReturnAnswers
<1>4. ASSUME NEW t \in Threads, Expire(t) /\ UNCHANGED <<mutexVars, locking, held>>
      PROVE  Answers'
  BY <1>4, ExpireAnswers
<1>5. CASE UNCHANGED vars
  BY <1>5 DEF vars, waitVars, mutexVars, Answers, AnswerTrue
<1> QED BY <1>1, <1>2, <1>3, <1>4, <1>5 DEF Next

\* If no callback of a timeout is late, k_mutex_lock returns 0 exactly to the thread
\* that owns the mutex, and something else only to a wait that has a timeout.
THEOREM LockTellsTruth == ASSUME ~LateCallback PROVE Spec => []AnswerTrue
<1>1. Init => IInv /\ Answers
  BY InitIInv, InitAnswers
<1>2. IInv /\ Answers /\ [Next]_vars => IInv' /\ Answers'
  BY NextKeeps, NextAnswers
<1>3. Answers => AnswerTrue
  BY DEF Answers
<1> QED BY <1>1, <1>2, <1>3, PTL DEF Spec

-----------------------------------------------------------------------------
(* Priority inheritance, if there is one mutex and no callback is late *)

\* A list keeps its order if only threads outside of it get another priority.
LEMMA SameOrder ==
  ASSUME NEW s \in Seq(Threads), NEW p, NEW r, Ordered(s, p),
         \A u \in ToSet(s) : r[u] = p[u]
  PROVE  Ordered(s, r)
<1>1. \A i \in 1..Len(s) : s[i] \in ToSet(s)
  BY ListElements
<1>2. \A i \in 1..Len(s) : r[s[i]] = p[s[i]]
  BY <1>1
<1> QED BY <1>2 DEF Ordered

\* The first of an ordered list is not below any other.
LEMMA HeadIsBest ==
  ASSUME NEW s \in Seq(Threads), NEW p \in [Threads -> Int], Ordered(s, p), NEW u \in ToSet(s)
  PROVE  s # <<>> /\ p[Head(s)] <= p[u]
<1>1. PICK i \in 1..Len(s) : s[i] = u
  BY ListElements
<1>2. s # <<>> /\ Head(s) = s[1] /\ 1 \in 1..Len(s) /\ s[1] \in Threads
  BY <1>1
<1>3. p[s[1]] <= p[s[1]]
  BY <1>2
<1>4. CASE i = 1
  BY <1>1, <1>2, <1>3, <1>4
<1>5. CASE i # 1
  BY <1>1, <1>2, <1>5 DEF Ordered
<1> QED BY <1>4, <1>5

LEMMA InitInherits ==
  ASSUME NEW m \in Mutexes, Init
  PROVE  Inheriting(m)
BY MutexAssumption DEF Init, WaitInit, Inheriting, Ordered

\* A step that leaves the mutex, its queue and the priorities alone, and wakes only
\* threads that wait for something else.
LEMMA UntouchedInherits ==
  ASSUME NEW m \in Mutexes, Inheriting(m),
         UNCHANGED <<prio, owner, owner_orig_prio, locking>>, wait_q'[m] = wait_q[m],
         \A u \in Threads : locking[u] = m => pended_on'[u] = pended_on[u]
  PROVE  Inheriting(m)'
BY DEF Inheriting

LEMMA LockFreeInherits ==
  ASSUME IInv, NEW m \in Mutexes, Inheriting(m), NEW t \in Threads, LockFree(t, m)
  PROVE  Inheriting(m)'
<1> USE WaitQueueAssumption, MutexAssumption
<1>1. /\ UNCHANGED <<prio, wait_q, pended_on, locking>> /\ owner'[m] = t
      /\ owner_orig_prio'[m] = SavedPrio(m, t)
      /\ lock_count[m] = 0 \/ owner[m] = t
  BY DEF LockFree, waitVars, IInv, TypeOK
<1>2. CASE owner[m] = t
  <2>1. lock_count[m] # 0 /\ owner_orig_prio'[m] = owner_orig_prio[m] /\ owner'[m] = owner[m]
    BY <1>1, <1>2 DEF SavedPrio, IInv, WaitersHaveOwner
  <2> QED BY <1>1, <2>1 DEF Inheriting
<1>3. CASE owner[m] # t
  <2>1. wait_q[m] = <<>> /\ owner_orig_prio'[m] = prio[t]
    BY <1>1, <1>3 DEF SavedPrio, IInv, WaitersHaveOwner
  <2>2. prio[t] \in Int /\ ToSet(wait_q'[m]) = {}
    BY <1>1, <2>1, EmptyList DEF IInv, TypeOK, WaitTypeOK
  <2>3. prio'[owner'[m]] >= owner_orig_prio'[m]
    BY <1>1, <2>1, <2>2
  <2>4. Ordered(wait_q'[m], prio')
    BY <1>1 DEF Inheriting
  <2> QED BY <2>2, <2>3, <2>4 DEF Inheriting
<1> QED BY <1>2, <1>3

\* adjust_owner_prio in k_mutex_lock: the owner gets the priority of the thread that
\* begins to wait, if that is better, up to the ceiling.
LEMMA LockWaitInherits ==
  ASSUME IInv, NEW m \in Mutexes, Inheriting(m), NEW t \in Threads, NEW timeout,
         Running(t), LockWait(t, m, timeout)
  PROVE  Inheriting(m)'
<1> USE WaitQueueAssumption, MutexAssumption
<1> DEFINE o == owner[m]
           new == new_prio_for_inheritance(prio[t], prio[o])
           q == wait_q[m]
<1>1. /\ o \in Threads /\ o # None /\ o # t /\ o \notin ToSet(q)
      /\ m \in Objects /\ q \in Seq(Threads) /\ prio \in [Threads -> Int]
  <2>1. owner[m] # None /\ owner[m] \in Threads /\ owner[m] # t /\ q \in Seq(Threads)
    BY DEF LockWait, IInv, WaitersHaveOwner, TypeOK, WaitTypeOK
  <2>2. o \notin ToSet(q)
    BY <2>1, EmptyList DEF IInv, WaitersHaveOwner
  <2> QED BY <2>1, <2>2 DEF IInv, TypeOK, WaitTypeOK
<1>2. ToSet(q) \subseteq Threads
  BY <1>1, ListElements
<1>3. /\ UNCHANGED <<owner, owner_orig_prio>> /\ locking' = [locking EXCEPT ![t] = m]
      /\ pended_on' = [pended_on EXCEPT ![t] = m]
      /\ locking[t] = None /\ pended_on[t] = None
      /\ prio' = IF new < prio[o] THEN [prio EXCEPT ![o] = new] ELSE prio
      /\ z_pend_curr(t, m, timeout, prio')
  BY DEF LockWait, Raised, mutexVars, z_pend_curr, Running
<1>4. /\ prio' \in [Threads -> Int] /\ new \in Int
      /\ wait_q'[m] = z_priq_dumb_add(q, t, prio')
      /\ ToSet(wait_q'[m]) = ToSet(q) \cup {t}
  <2>1. prio' \in [Threads -> Int] /\ new \in Int
    BY <1>1, LockWaitKeeps, NewPrio
  <2>2. /\ wait_q' = [wait_q EXCEPT ![m] = z_priq_dumb_add(wait_q[m], t, prio')]
        /\ ToSet(wait_q'[m]) = ToSet(wait_q[m]) \cup {t}
    <3>1. WaitInv /\ pended_on[t] = None /\ z_pend_curr(t, m, timeout, prio')
      BY <1>3 DEF IInv
    <3> HIDE DEF o, q, new
    <3> QED BY <3>1, <2>1, <1>1, PendKeeps
  <2>3. wait_q'[m] = z_priq_dumb_add(wait_q[m], t, prio')
    BY <2>2, <1>1 DEF IInv, TypeOK, WaitTypeOK
  <2> QED BY <2>1, <2>2, <2>3
<1>5. /\ prio'[o] = IF new < prio[o] THEN new ELSE prio[o]
      /\ \A u \in Threads : u # o => prio'[u] = prio[u]
  BY <1>1, <1>3
<1>6. new = IF (IF prio[t] < prio[o] THEN prio[t] ELSE prio[o]) >= PRIORITY_CEILING
              THEN (IF prio[t] < prio[o] THEN prio[t] ELSE prio[o]) ELSE PRIORITY_CEILING
  BY DEF new_prio_for_inheritance, HigherPrio
<1>7. prio[t] \in Int /\ prio[o] \in Int /\ PRIORITY_CEILING \in Int
  BY <1>1
<1>8. Ordered(q, prio)
      /\ (\A u \in ToSet(q) : prio[o] <= prio[u] \/ prio[o] <= PRIORITY_CEILING)
      /\ ((\A u \in Threads : locking[u] = m /\ u # o => pended_on[u] = m)
            => \/ prio[o] >= owner_orig_prio[m]
               \/ \E u \in ToSet(q) : prio[o] >= prio[u])
  BY <1>1 DEF Inheriting
<1> HIDE DEF o, q, new
<1>9. Ordered(wait_q'[m], prio')
  <2>1. Ordered(q, prio')
    BY <1>1, <1>2, <1>5, <1>8, SameOrder
  <2> QED BY <2>1, <1>1, <1>4, PriqAddList
<1>10. \A u \in ToSet(wait_q'[m]) : prio'[o] <= prio'[u] \/ prio'[o] <= PRIORITY_CEILING
  <2>1. ASSUME NEW u \in ToSet(q)
        PROVE  prio'[o] <= prio'[u] \/ prio'[o] <= PRIORITY_CEILING
    <3>1. u \in Threads /\ prio'[u] = prio[u] /\ prio[u] \in Int
      BY <1>1, <1>2, <1>5
    <3>2. prio[o] <= prio[u] \/ prio[o] <= PRIORITY_CEILING
      BY <1>8
    <3> QED BY <3>1, <3>2, <1>4, <1>5, <1>7
  <2>2. prio'[t] = prio[t]
    BY <1>1, <1>5
  <2>3. prio'[o] <= prio'[t] \/ prio'[o] <= PRIORITY_CEILING
    BY <2>2, <1>4, <1>5, <1>6, <1>7
  <2> QED BY <2>1, <2>3, <1>4
<1>11. ASSUME \A u \in Threads : locking'[u] = m /\ u # o => pended_on'[u] = m
       PROVE  \/ prio'[o] >= owner_orig_prio[m]
              \/ \E u \in ToSet(wait_q'[m]) : prio'[o] >= prio'[u]
  <2>1. CASE new < prio[o]
    <3>1. prio'[o] >= prio'[t]
      BY <2>1, <1>1, <1>4, <1>5, <1>6, <1>7
    <3> QED BY <3>1, <1>4
  <2>2. CASE ~(new < prio[o])
    <3>1. prio' = prio
      BY <2>2, <1>3 DEF new, o
    <3>2. \A u \in Threads : locking[u] = m /\ u # o => pended_on[u] = m
      BY <1>3, <1>11 DEF IInv, TypeOK, WaitTypeOK
    <3> QED BY <3>1, <3>2, <1>4, <1>8
  <2> QED BY <2>1, <2>2
<1> QED BY <1>3, <1>9, <1>10, <1>11 DEF Inheriting, o

\* The end of k_mutex_lock: a thread that got the mutex is its owner; one that timed
\* out gives the owner the priority it has without it.
LEMMA ReturnInherits ==
  ASSUME IInv, Answers, NEW m \in Mutexes, Mutexes = {m}, Inheriting(m),
         NEW t \in Threads, Return(t)
  PROVE  Inheriting(m)'
<1> USE WaitQueueAssumption, MutexAssumption
<1>0. /\ locking[t] = m /\ pended_on[t] = None /\ locking' = [locking EXCEPT ![t] = None]
      /\ UNCHANGED <<wait_q, pended_on, owner, owner_orig_prio>>
  BY DEF Return, LockDone, LockTimedOut, waitVars, mutexVars, IInv, TypeOK
<1>1. \A u \in Threads : u # t => locking'[u] = locking[u]
  BY <1>0 DEF IInv, TypeOK
<1>2. CASE owner[m] = t
  <2>1. swap_retval[t] = "0"
    BY <1>0, <1>2 DEF Answers, AnswerTrue
  <2>2. prio' = prio
    BY <2>1 DEF Return, LockDone, LockTimedOut
  <2> QED BY <1>0, <1>1, <1>2, <2>2 DEF Inheriting
<1>3. CASE owner[m] = None
  <2>1. prio' = prio
    BY <1>0, <1>3 DEF Return, LockDone, LockTimedOut, Lowered
  <2> QED BY <1>0, <1>3, <2>1 DEF Inheriting
<1>4. CASE owner[m] # t /\ owner[m] # None
  <2> DEFINE o == owner[m]
             q == wait_q[m]
             orig == owner_orig_prio[m]
             new == IF q = <<>> THEN orig ELSE new_prio_for_inheritance(prio[Head(q)], orig)
  <2>1. /\ o \in Threads /\ o # None /\ q \in Seq(Threads) /\ orig \in Int
        /\ prio \in [Threads -> Int]
    BY <1>4 DEF IInv, TypeOK, WaitTypeOK
  <2>2. o \notin ToSet(q) /\ ToSet(q) \subseteq Threads
    BY <2>1, EmptyList, ListElements DEF IInv, WaitersHaveOwner
  <2>3. swap_retval[t] # "0"
    BY <1>0, <1>4 DEF Answers, AnswerTrue
  <2>4. prio' = [prio EXCEPT ![o] = new]
    BY <2>1, <2>3, <1>0 DEF Return, LockDone, LockTimedOut, Lowered
  <2>5. Ordered(q, prio)
    BY DEF Inheriting
  <2>6. q # <<>> => /\ Head(q) \in Threads /\ Head(q) \in ToSet(q)
                    /\ new = IF (IF prio[Head(q)] < orig THEN prio[Head(q)] ELSE orig)
                                  >= PRIORITY_CEILING
                               THEN (IF prio[Head(q)] < orig THEN prio[Head(q)] ELSE orig)
                               ELSE PRIORITY_CEILING
    <3> SUFFICES ASSUME q # <<>>
                 PROVE /\ Head(q) \in Threads /\ Head(q) \in ToSet(q)
                       /\ new = new_prio_for_inheritance(prio[Head(q)], orig)
      BY DEF new_prio_for_inheritance, HigherPrio
    <3> QED BY <2>1, TailList
  <2>7. q = <<>> => new = orig /\ ToSet(q) = {}
    BY EmptyList
  <2> HIDE DEF new, q, o, orig
  <2>8. prio'[o] = new /\ \A u \in ToSet(q) : prio'[u] = prio[u] /\ prio[u] \in Int
    BY <2>1, <2>2, <2>4
  <2>9. Ordered(q, prio')
    BY <2>1, <2>5, <2>8, SameOrder
  <2>10. ASSUME NEW u \in ToSet(q)
         PROVE  prio'[o] <= prio'[u] \/ prio'[o] <= PRIORITY_CEILING
    <3>1. q # <<>> /\ prio[Head(q)] <= prio[u]
      BY <2>1, <2>5, HeadIsBest
    <3>2. prio[Head(q)] \in Int /\ PRIORITY_CEILING \in Int /\ prio[u] \in Int
      BY <3>1, <2>1, <2>6, <2>8
    <3>3. new <= prio[u] \/ new <= PRIORITY_CEILING
      BY <3>1, <3>2, <2>1, <2>6
    <3> QED BY <3>3, <2>8
  <2>11. prio'[o] >= orig \/ \E u \in ToSet(q) : prio'[o] >= prio'[u]
    <3>1. CASE q = <<>>
      BY <3>1, <2>1, <2>7, <2>8
    <3>2. CASE q # <<>>
      <4>1. prio[Head(q)] \in Int /\ PRIORITY_CEILING \in Int
        BY <3>2, <2>1, <2>6
      <4>2. new >= orig \/ new >= prio[Head(q)]
        BY <3>2, <4>1, <2>1, <2>6
      <4> QED BY <3>2, <4>2, <2>6, <2>8
    <3> QED BY <3>1, <3>2
  <2> QED BY <1>0, <2>9, <2>10, <2>11 DEF Inheriting, o, q, orig
<1> QED BY <1>2, <1>3, <1>4

\* k_mutex_unlock: the first waiter, which is the best, gets the mutex.
LEMMA UnlockInherits ==
  ASSUME IInv, NEW m \in Mutexes, Inheriting(m), NEW t \in Threads, k_mutex_unlock(t, m)
  PROVE  /\ Inheriting(m)'
         /\ owner'[m] \notin {None, owner[m]} =>
              \A u \in ToSet(wait_q[m]) : prio[owner'[m]] <= prio[u]
<1> USE WaitQueueAssumption, MutexAssumption
<1> DEFINE q == wait_q[m]
           h == Head(q)
<1>0. /\ owner[m] = t /\ UNCHANGED locking /\ m \in Objects
      /\ q \in Seq(Threads) /\ prio \in [Threads -> Int]
  BY DEF k_mutex_unlock, IInv, TypeOK, WaitTypeOK
<1>1. CASE UnlockOnce(t, m)
  BY <1>0, <1>1 DEF UnlockOnce, waitVars, Inheriting
<1>2. CASE Release(t, m) /\ q = <<>>
  <2>1. UNCHANGED wait_q /\ owner'[m] = None
    BY <1>2 DEF Release, waitVars, IInv, TypeOK
  <2>2. Ordered(wait_q'[m], prio')
    BY <1>2, <2>1 DEF Ordered
  <2> QED BY <2>1, <2>2 DEF Inheriting
<1>3. CASE Release(t, m) /\ q # <<>>
  <2>1. h \in Threads /\ h \in ToSet(q) /\ t \notin ToSet(q) /\ ToSet(q) \subseteq Threads
    BY <1>0, <1>3, TailList, ListElements DEF IInv, WaitersHaveOwner
  <2>2. /\ prio' = [prio EXCEPT ![t] = owner_orig_prio[m]]
        /\ owner' = [owner EXCEPT ![m] = h]
        /\ owner_orig_prio' = [owner_orig_prio EXCEPT ![m] = prio'[h]]
        /\ Wake({h}, m)
    BY <1>3 DEF Release, Restored
  <2>3. /\ owner'[m] = h /\ owner_orig_prio'[m] = prio'[h]
        /\ \A u \in ToSet(q) : prio'[u] = prio[u] /\ prio[u] \in Int
    BY <2>1, <2>2, <1>0 DEF IInv, TypeOK
  <2>4. wait_q'[m] = Remaining(q, {h})
    BY <2>2, <1>0 DEF Wake, WakeWith, Unpend, SetReturn, IInv, TypeOK, WaitTypeOK
  <2>5. Ordered(q, prio)
    BY DEF Inheriting
  <2> HIDE DEF h, q
  <2>6. \A u \in ToSet(q) : prio[h] <= prio[u]
    BY <1>0, <2>5, HeadIsBest DEF h
  <2>7. Ordered(wait_q'[m], prio') /\ ToSet(wait_q'[m]) = ToSet(q) \ {h}
    <3>1. Ordered(q, prio')
      BY <1>0, <2>3, <2>5, SameOrder
    <3>2. prio' \in [Threads -> Int]
      BY <1>0, <2>2 DEF IInv, TypeOK
    <3> QED BY <3>1, <3>2, <1>0, <2>4, RemainingList
  <2>8. prio'[owner'[m]] >= owner_orig_prio'[m]
    BY <2>1, <2>3
  <2>9. \A u \in ToSet(wait_q'[m]) : prio'[owner'[m]] <= prio'[u]
    BY <2>1, <2>3, <2>6, <2>7
  <2> QED BY <2>3, <2>6, <2>7, <2>8, <2>9 DEF Inheriting, q
<1> QED BY <1>1, <1>2, <1>3 DEF k_mutex_unlock

\* The callback: the thread will lower the owner's priority when it runs.
LEMMA TimeoutInherits ==
  ASSUME IInv, Answers, NEW m \in Mutexes, Inheriting(m), TimeoutStep
  PROVE  Inheriting(m)'
<1> USE WaitQueueAssumption, MutexAssumption
<1> DEFINE t == firing
<1>1. /\ z_thread_timeout /\ UNCHANGED <<prio, owner, owner_orig_prio, locking>>
  BY DEF TimeoutStep, z_thread_timeout, mutexVars
<1>2. /\ t \in Threads /\ pended_on' = [pended_on EXCEPT ![t] = None] /\ m \in Objects
      /\ wait_q'[m] = IF pended_on[t] = m THEN RemoveFirst(wait_q[m], t) ELSE wait_q[m]
      /\ ToSet(wait_q'[m]) = ToSet(wait_q[m]) \ {t}
  BY <1>1, TimeoutKeeps DEF IInv
<1>3. /\ pended_on[t] # None
      /\ locking[t] = IF pended_on[t] \in Mutexes THEN pended_on[t] ELSE None
  BY <1>2 DEF Answers
<1>4. /\ pended_on'[t] = None
      /\ \A u \in Threads : u # t => pended_on'[u] = pended_on[u]
  BY <1>2 DEF IInv, TypeOK, WaitTypeOK
<1>5. CASE pended_on[t] = m
  <2>1. /\ t \in ToSet(wait_q[m]) /\ wait_q[m] \in Seq(Threads)
        /\ prio \in [Threads -> Int]
    BY <1>2, <1>5 DEF IInv, WaitInv, WaitTypeOK
  <2>2. t # owner[m]
    BY <2>1, EmptyList DEF IInv, WaitersHaveOwner
  <2>3. Ordered(wait_q'[m], prio)
    BY <2>1, <1>2, <1>5, RemoveOrdered DEF Inheriting
  <2>4. locking'[t] = m /\ pended_on'[t] # m
    BY <1>1, <1>3, <1>4, <1>5
  <2> QED BY <1>1, <1>2, <2>2, <2>3, <2>4 DEF Inheriting
<1>6. CASE pended_on[t] # m
  <2>1. locking[t] # m
    BY <1>3, <1>6
  <2> QED BY <2>1, <1>1, <1>2, <1>4, <1>6, UntouchedInherits
<1> QED BY <1>5, <1>6

\* Every step of a system with one mutex, and who gets the mutex by it.
LEMMA NextInherits ==
  ASSUME ~LateCallback, IInv, Answers, NEW m \in Mutexes, Mutexes = {m}, Inheriting(m),
         [Next]_vars
  PROVE  /\ Inheriting(m)'
         /\ owner[m] # None /\ owner'[m] \notin {None, owner[m]} =>
              \A u \in ToSet(wait_q[m]) : prio[owner'[m]] <= prio[u]
<1> USE WaitQueueAssumption, MutexAssumption
<1> DEFINE Best == owner[m] # None /\ owner'[m] \notin {None, owner[m]} =>
                     \A u \in ToSet(wait_q[m]) : prio[owner'[m]] <= prio[u]
<1>0. ASSUME UNCHANGED owner PROVE Best
  BY <1>0
<1>1. CASE TimeoutStep
  BY <1>0, <1>1, TimeoutInherits DEF TimeoutStep, mutexVars
<1>2. ASSUME NEW t \in Threads, Call(t)
      PROVE  Inheriting(m)' /\ Best
  <2>1. CASE k_mutex_unlock(t, m)
    BY <2>1, UnlockInherits
  <2>2. ASSUME NEW timeout, Running(t), LockWait(t, m, timeout)
        PROVE  Inheriting(m)' /\ Best
    BY <2>2, <1>0, LockWaitInherits DEF LockWait, mutexVars
  <2>3. CASE LockFree(t, m)
    <3>1. owner[m] # None => owner' = owner
      BY <2>3 DEF LockFree, IInv, WaitersHaveOwner, TypeOK
    <3> QED BY <2>3, <3>1, <1>0, LockFreeInherits
  <2> QED BY <1>2, <2>1, <2>2, <2>3 DEF Call, k_mutex_lock
<1>3. ASSUME NEW t \in Threads, Return(t)
      PROVE  Inheriting(m)' /\ Best
  BY <1>3, <1>0, ReturnInherits DEF Return, LockDone, LockTimedOut, mutexVars
<1>4. ASSUME NEW t \in Threads, Expire(t) /\ UNCHANGED <<mutexVars, locking, held>>
      PROVE  Inheriting(m)' /\ Best
  BY <1>4, <1>0, UntouchedInherits DEF Expire, mutexVars
<1>5. CASE UNCHANGED vars
  BY <1>5, <1>0, UntouchedInherits DEF vars, waitVars, mutexVars
<1> QED BY <1>1, <1>2, <1>3, <1>4, <1>5 DEF Next

\* With one mutex and no late callback, the owner inherits the priority of the best
\* thread that waits, up to the ceiling, and not that of one that waits no more
\* (adjust_owner_prio and the end of k_mutex_lock).
THEOREM OwnerInherits ==
  ASSUME ~LateCallback, NEW m \in Mutexes, Mutexes = {m}
  PROVE  Spec => []Inherits
<1>1. Init => IInv /\ Answers /\ Inheriting(m)
  BY InitIInv, InitAnswers, InitInherits
<1>2. IInv /\ Answers /\ Inheriting(m) /\ [Next]_vars
        => IInv' /\ Answers' /\ Inheriting(m)'
  BY NextKeeps, NextAnswers, NextInherits
<1>3. Inheriting(m) => Inherits
  BY DEF Inheriting, Inherits
<1> QED BY <1>1, <1>2, <1>3, PTL DEF Spec

\* Then the highest-priority thread that waits gets the mutex next (k_mutex_unlock,
\* z_unpend_first_thread).
THEOREM BestThreadIsNext ==
  ASSUME ~LateCallback, NEW one \in Mutexes, Mutexes = {one}
  PROVE  Spec => BestIsNext
<1>1. Init => IInv /\ Answers /\ Inheriting(one)
  BY InitIInv, InitAnswers, InitInherits
<1>2. IInv /\ Answers /\ Inheriting(one) /\ [Next]_vars
        => IInv' /\ Answers' /\ Inheriting(one)'
  BY NextKeeps, NextAnswers, NextInherits
<1>3. IInv /\ Answers /\ Inheriting(one) /\ [Next]_vars =>
        [\A m \in Mutexes :
           owner[m] # None /\ owner'[m] \notin {None, owner[m]}
             => \A t \in ToSet(wait_q[m]) : prio[owner'[m]] <= prio[t]]_vars
  BY NextInherits
<1> QED BY <1>1, <1>2, <1>3, PTL DEF Spec, BestIsNext
=============================================================================
