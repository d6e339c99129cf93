---------------------------- MODULE SchedProofs ----------------------------
(***************************************************************************)
(* Proofs about Sched: for any number of CPUs and threads no thread is     *)
(* lost, no CPU goes on with a thread while a better one is ready, and who *)
(* halts a thread returns only when it is halted.                          *)
(***************************************************************************)
EXTENDS Sched, ListFacts, FiniteSetTheorems

-----------------------------------------------------------------------------
(* What the lock protects, as a set *)

States == SUBSET (Preventing \cup Halting)
WaitQueues == {<<>>} \cup ({"join", "halt"} \X Threads)

Kernel ==
  [state : [Threads -> States],
   prio : [Threads -> Int],
   runq : Seq(Threads),
   current : [Cpus -> Threads \cup {None}],
   swap_ok : [Cpus -> BOOLEAN],
   pended_on : [Threads -> WaitQueues],
   armed : SUBSET Threads,
   pending_ipi : SUBSET Cpus]

\* The run queue holds no thread twice and is ordered by priority.
WellQueued(s) == Distinct(s.runq) /\ Ordered(s.runq, s.prio)

\* r is s with the threads of W, and no other, in the run queue as well; if there
\* is a new one, every CPU will be told.
Queues(s, r, W) ==
  /\ ToSet(r.runq) = ToSet(s.runq) \cup W
  /\ WellQueued(s) => WellQueued(r)
  /\ r.pending_ipi = Cpus \/ (r.pending_ipi = s.pending_ipi /\ r.runq = s.runq)

-----------------------------------------------------------------------------
(* The run queue *)

\* queue_thread puts a thread that is not in the run queue where its priority
\* belongs.
LEMMA QueueThread ==
  ASSUME NEW s \in Kernel, NEW t \in Threads
  PROVE  LET r == queue_thread(s, t)
         IN  /\ r \in Kernel /\ r = [s EXCEPT !.runq = r.runq]
             /\ ToSet(r.runq) = ToSet(s.runq) \cup {t}
             /\ WellQueued(s) /\ ~Queued(s, t) => WellQueued(r)
<1> DEFINE q == z_priq_dumb_add(s.runq, t, s.prio)
           r == queue_thread(s, t)
<1>1. s.runq \in Seq(Threads) /\ s.prio \in [Threads -> Int]
  BY DEF Kernel
<1>2. /\ q \in Seq(Threads) /\ ToSet(q) = ToSet(s.runq) \cup {t}
      /\ Distinct(s.runq) /\ t \notin ToSet(s.runq) => Distinct(q)
      /\ Ordered(s.runq, s.prio) => Ordered(q, s.prio)
  BY <1>1, PriqAddList
<1>3. r = [s EXCEPT !.runq = q]
  BY DEF queue_thread
<1> HIDE DEF q, r
<1>4. r \in Kernel /\ r.runq = q /\ r.prio = s.prio
  BY <1>2, <1>3 DEF Kernel
<1>5. r = [s EXCEPT !.runq = r.runq]
  BY <1>3, <1>4
<1>6. WellQueued(s) /\ ~Queued(s, t) => WellQueued(r)
  BY <1>2, <1>4 DEF WellQueued, Queued
<1> QED
  BY <1>2, <1>4, <1>5, <1>6 DEF r

\* dequeue_thread takes a thread out of the run queue, if it is there.
LEMMA DequeueThread ==
  ASSUME NEW s \in Kernel, NEW t, Distinct(s.runq)
  PROVE  LET r == dequeue_thread(s, t)
         IN  /\ r \in Kernel /\ r = [s EXCEPT !.runq = r.runq]
             /\ ToSet(r.runq) = ToSet(s.runq) \ {t}
             /\ WellQueued(s) => WellQueued(r)
<1> DEFINE q == RemoveFirst(s.runq, t)
           r == dequeue_thread(s, t)
<1>1. s.runq \in Seq(Threads) /\ s.prio \in [Threads -> Int]
  BY DEF Kernel
<1>2. q \in Seq(Threads) /\ ToSet(q) = ToSet(s.runq) \ {t} /\ Distinct(q)
  BY <1>1, RemoveList
<1>3. r = [s EXCEPT !.runq = q]
  BY DEF dequeue_thread
<1>4. Ordered(s.runq, s.prio) => Ordered(q, s.prio)
  <2>1. CASE t \in ToSet(s.runq)
    BY <1>1, <2>1, RemoveOrdered
  <2>2. CASE t \notin ToSet(s.runq)
    BY <1>1, <2>2, RemoveAbsent
  <2> QED
    BY <2>1, <2>2
<1> HIDE DEF q, r
<1>5. r \in Kernel /\ r.runq = q /\ r.prio = s.prio
  BY <1>2, <1>3 DEF Kernel
<1>6. r = [s EXCEPT !.runq = r.runq]
  BY <1>3, <1>5
<1>7. WellQueued(s) => WellQueued(r)
  BY <1>2, <1>4, <1>5 DEF WellQueued
<1> QED
  BY <1>2, <1>5, <1>6, <1>7 DEF r

\* ready_thread queues a thread that is ready, and nothing else.
LEMMA ReadyThread ==
  ASSUME NEW s \in Kernel, NEW c \in Cpus, NEW t \in Threads
  PROVE  LET r == ready_thread(s, c, t)
         IN  /\ r \in Kernel
             /\ r = [s EXCEPT !.runq = r.runq, !.swap_ok = r.swap_ok,
                              !.pending_ipi = r.pending_ipi]
             /\ Queues(s, r, {u \in {t} : z_is_thread_ready(s, u)})
<1> DEFINE r == ready_thread(s, c, t)
           W == {u \in {t} : z_is_thread_ready(s, u)}
<1>1. CASE ~z_is_thread_ready(s, t)
  <2>1. r = s /\ W = {}
    BY <1>1 DEF ready_thread
  <2> QED
    BY <2>1 DEF Queues, Kernel
<1>2. CASE z_is_thread_ready(s, t) /\ Queued(s, t)
  <2>1. r = s /\ W = {t}
    BY <1>2 DEF ready_thread
  <2> QED
    BY <1>2, <2>1 DEF Queues, Kernel, Queued
<1>3. CASE z_is_thread_ready(s, t) /\ ~Queued(s, t)
  <2> DEFINE q == queue_thread(s, t)
  <2>1. /\ q \in Kernel /\ q = [s EXCEPT !.runq = q.runq]
        /\ ToSet(q.runq) = ToSet(s.runq) \cup {t}
        /\ WellQueued(s) => WellQueued(q)
    BY <1>3, QueueThread
  <2>2. r = [q EXCEPT !.swap_ok[c] = FALSE, !.pending_ipi = Cpus] /\ W = {t}
    BY <1>3 DEF ready_thread
  <2> HIDE DEF q, r, W
  <2>3. r \in Kernel
    BY <2>1, <2>2 DEF Kernel
  <2>4. r.runq = q.runq /\ r.prio = q.prio /\ r.pending_ipi = Cpus
    BY <2>1, <2>2 DEF Kernel
  <2>5. r = [s EXCEPT !.runq = r.runq, !.swap_ok = r.swap_ok, !.pending_ipi = r.pending_ipi]
    BY <2>1, <2>2, <2>3 DEF Kernel
  <2>6. Queues(s, r, W)
    BY <2>1, <2>2, <2>4 DEF Queues, WellQueued
  <2> QED
    BY <2>3, <2>5, <2>6 DEF r, W
<1> QED
  BY <1>1, <1>2, <1>3

-----------------------------------------------------------------------------
(* Waking threads *)

\* Unpended writes two fields of one thread.
LEMMA UnpendedFields ==
  ASSUME NEW s \in Kernel, NEW t \in Threads
  PROVE  LET r == Unpended(s, t)
         IN  /\ r \in Kernel
             /\ r = [s EXCEPT !.state = r.state, !.pended_on = r.pended_on]
             /\ \A u \in Threads :
                  /\ r.state[u] = IF u = t THEN s.state[u] \ {"PENDING"} ELSE s.state[u]
                  /\ r.pended_on[u] = IF u = t THEN <<>> ELSE s.pended_on[u]
<1> DEFINE st == [s.state EXCEPT ![t] = @ \ {"PENDING"}]
           po == [s.pended_on EXCEPT ![t] = <<>>]
           r == Unpended(s, t)
<1>1. r = [s EXCEPT !.state = st, !.pended_on = po]
  BY DEF Unpended
<1>2. st \in [Threads -> States] /\ po \in [Threads -> WaitQueues]
  BY DEF Kernel, States, WaitQueues
<1>3. \A u \in Threads :
        /\ st[u] = IF u = t THEN s.state[u] \ {"PENDING"} ELSE s.state[u]
        /\ po[u] = IF u = t THEN <<>> ELSE s.pended_on[u]
  BY DEF Kernel
<1> HIDE DEF st, po, r
<1>4. r \in Kernel /\ r.state = st /\ r.pended_on = po
  BY <1>1, <1>2 DEF Kernel
<1> QED
  BY <1>1, <1>3, <1>4 DEF r

\* r is s after the threads of W were woken.
Woken(s, r, W) ==
  /\ r \in Kernel
  /\ r.prio = s.prio /\ r.current = s.current
  /\ \A t \in Threads :
       /\ r.state[t] = IF t \in W THEN s.state[t] \ {"PENDING"} ELSE s.state[t]
       /\ r.pended_on[t] = IF t \in W THEN <<>> ELSE s.pended_on[t]
  /\ r.armed = s.armed \ W
  /\ Queues(s, r, {t \in W : z_is_thread_ready(r, t)})

LEMMA WokenNobody ==
  ASSUME NEW s \in Kernel
  PROVE  Woken(s, s, {})
<1>1. Queues(s, s, {t \in {} : z_is_thread_ready(s, t)})
  BY DEF Queues
<1> QED
  BY <1>1 DEF Woken

\* unpend_one wakes one more.
LEMMA WokenOneMore ==
  ASSUME NEW s \in Kernel, NEW W \in SUBSET Threads, NEW r, Woken(s, r, W),
         NEW c \in Cpus, NEW t \in Threads, t \notin W
  PROVE  Woken(s, unpend_one(r, c, t), W \cup {t})
<1> DEFINE p == Unpended(r, t)
           m == [p EXCEPT !.armed = @ \ {t}]
           n == ready_thread(m, c, t)
           X == {u \in {t} : z_is_thread_ready(m, u)}
           V == W \cup {t}
<1>0. r \in Kernel
  BY DEF Woken
<1>1. /\ p \in Kernel
      /\ p = [r EXCEPT !.state = p.state, !.pended_on = p.pended_on]
      /\ \A u \in Threads :
           /\ p.state[u] = IF u = t THEN r.state[u] \ {"PENDING"} ELSE r.state[u]
           /\ p.pended_on[u] = IF u = t THEN <<>> ELSE r.pended_on[u]
  BY <1>0, UnpendedFields
<1> HIDE DEF p
<1>2. /\ m \in Kernel
      /\ m.runq = r.runq /\ m.prio = r.prio /\ m.current = r.current
      /\ m.pending_ipi = r.pending_ipi /\ m.armed = r.armed \ {t}
      /\ m.state = p.state /\ m.pended_on = p.pended_on
  BY <1>0, <1>1 DEF Kernel
<1> HIDE DEF m
<1>3. /\ n \in Kernel
      /\ n = [m EXCEPT !.runq = n.runq, !.swap_ok = n.swap_ok, !.pending_ipi = n.pending_ipi]
      /\ Queues(m, n, X)
  BY <1>2, ReadyThread
<1>4. unpend_one(r, c, t) = n
  BY DEF unpend_one, n, m, p
<1> HIDE DEF n
<1>5. /\ n.prio = m.prio /\ n.current = m.current /\ n.state = m.state
      /\ n.pended_on = m.pended_on /\ n.armed = m.armed
  BY <1>2, <1>3 DEF Kernel
<1>6a. \A u \in Threads :
        /\ r.state[u] = IF u \in W THEN s.state[u] \ {"PENDING"} ELSE s.state[u]
        /\ r.pended_on[u] = IF u \in W THEN <<>> ELSE s.pended_on[u]
  BY DEF Woken
<1>6b. \A u \in Threads :
        /\ n.state[u] = IF u = t THEN r.state[u] \ {"PENDING"} ELSE r.state[u]
        /\ n.pended_on[u] = IF u = t THEN <<>> ELSE r.pended_on[u]
  <2>1. n.state = p.state /\ n.pended_on = p.pended_on
    BY <1>2, <1>5
  <2> QED
    BY <1>1, <2>1
<1>6. \A u \in Threads :
        /\ n.state[u] = IF u \in V THEN s.state[u] \ {"PENDING"} ELSE s.state[u]
        /\ n.pended_on[u] = IF u \in V THEN <<>> ELSE s.pended_on[u]
  <2> SUFFICES ASSUME NEW u \in Threads
               PROVE  /\ n.state[u] = IF u \in V THEN s.state[u] \ {"PENDING"} ELSE s.state[u]
                      /\ n.pended_on[u] = IF u \in V THEN <<>> ELSE s.pended_on[u]
    OBVIOUS
  <2>1. CASE u = t
    BY <1>6a, <1>6b, <2>1
  <2>2. CASE u # t
    BY <1>6a, <1>6b, <2>2
  <2> QED
    BY <2>1, <2>2
<1>7. n.prio = s.prio /\ n.current = s.current /\ n.armed = s.armed \ V
  BY <1>2, <1>5 DEF Woken
<1>8. {u \in V : z_is_thread_ready(n, u)} = {u \in W : z_is_thread_ready(r, u)} \cup X
  <2>1. \A u \in W : z_is_thread_ready(n, u) <=> z_is_thread_ready(r, u)
    BY <1>6b DEF z_is_thread_ready
  <2>2. z_is_thread_ready(n, t) <=> z_is_thread_ready(m, t)
    BY <1>5 DEF z_is_thread_ready
  <2> QED
    BY <2>1, <2>2
<1> HIDE DEF X, V
<1>9. Queues(s, r, {u \in W : z_is_thread_ready(r, u)})
  BY DEF Woken
<1>10. Queues(s, n, {u \in V : z_is_thread_ready(n, u)})
  <2> DEFINE A == {u \in W : z_is_thread_ready(r, u)}
             B == {u \in V : z_is_thread_ready(n, u)}
  <2>1. Queues(s, r, A) /\ B = A \cup X
    BY <1>8, <1>9
  <2> HIDE DEF A, B
  <2>2. WellQueued(r) <=> WellQueued(m)
    BY <1>2 DEF WellQueued
  <2>3. Queues(s, n, B)
    BY <1>2, <1>3, <2>1, <2>2 DEF Queues
  <2> QED
    BY <2>3 DEF B
<1> QED
  BY <1>3, <1>4, <1>6, <1>7, <1>10 DEF Woken, V

-----------------------------------------------------------------------------
(* Waking all of them, in whatever order the set is gone through *)

OneOf(X) == CHOOSE x \in X : TRUE

WakeStep(F, s, c, X) ==
  IF X = {} THEN s ELSE unpend_one(F[X \ {OneOf(X)}], c, OneOf(X))

\* What FoldSet chooses: F[X] is s after the threads of X were woken.
WakesAll(F, s, c, W) == F = [X \in SUBSET W |-> WakeStep(F, s, c, X)]

Small(W, n) == {X \in SUBSET W : Cardinality(X) <= n}

\* One element less.
LEMMA OneLess ==
  ASSUME NEW W, IsFiniteSet(W), NEW X \in SUBSET W, X # {}, NEW n \in Nat,
         Cardinality(X) <= n + 1
  PROVE  /\ OneOf(X) \in X /\ X \ {OneOf(X)} \in Small(W, n)
         /\ X = (X \ {OneOf(X)}) \cup {OneOf(X)}
<1>1. OneOf(X) \in X
  BY DEF OneOf
<1>2. IsFiniteSet(X)
  BY FS_Subset
<1>3. Cardinality(X) \in Nat
  BY <1>2, FS_CardinalityType
<1>4. Cardinality(X \ {OneOf(X)}) = Cardinality(X) - 1
  BY <1>1, <1>2, FS_RemoveElement
<1> QED
  BY <1>1, <1>3, <1>4 DEF Small

LEMMA SmallSets ==
  ASSUME NEW W, IsFiniteSet(W)
  PROVE  /\ Small(W, Cardinality(W)) = SUBSET W
         /\ Small(W, 0) = {{}}
         /\ \A n \in Nat : Small(W, n) \subseteq Small(W, n + 1)
<1>1. \A X \in SUBSET W : /\ Cardinality(X) \in Nat /\ Cardinality(X) <= Cardinality(W)
                          /\ Cardinality(X) = 0 <=> X = {}
  BY FS_Subset, FS_CardinalityType, FS_EmptySet
<1>2. \A X \in SUBSET W : Cardinality(X) <= 0 <=> X = {}
  BY <1>1
<1> QED
  BY <1>1, <1>2 DEF Small

LEMMA WakesAllExists ==
  ASSUME NEW s, NEW c, NEW W, IsFiniteSet(W)
  PROVE  \E F : WakesAll(F, s, c, W)
<1> DEFINE T == {n \in Nat : \E F : F = [X \in Small(W, n) |-> WakeStep(F, s, c, X)]}
<1>0. /\ Small(W, Cardinality(W)) = SUBSET W
      /\ Small(W, 0) = {{}}
      /\ \A n \in Nat : Small(W, n) \subseteq Small(W, n + 1)
  BY SmallSets
<1>1. 0 \in T
  <2> DEFINE F == [X \in Small(W, 0) |-> s]
  <2>1. \A X \in Small(W, 0) : WakeStep(F, s, c, X) = s
    BY <1>0 DEF WakeStep
  <2>2. F = [X \in Small(W, 0) |-> WakeStep(F, s, c, X)]
    BY <2>1
  <2> QED
    BY <2>2
<1>2. ASSUME NEW n \in Nat, n \in T PROVE n + 1 \in T
  <2>1. PICK F : F = [X \in Small(W, n) |-> WakeStep(F, s, c, X)]
    BY <1>2
  <2> DEFINE G == [X \in Small(W, n + 1) |-> WakeStep(F, s, c, X)]
  <2>2. \A X \in Small(W, n) : G[X] = F[X]
    BY <1>0, <2>1
  <2>3. ASSUME NEW X \in Small(W, n + 1)
        PROVE  WakeStep(G, s, c, X) = WakeStep(F, s, c, X)
    <3>1. CASE X = {}
      BY <3>1 DEF WakeStep
    <3>2. CASE X # {}
      <4>1. X \ {OneOf(X)} \in Small(W, n)
        BY <3>2, OneLess DEF Small
      <4>2. G[X \ {OneOf(X)}] = F[X \ {OneOf(X)}]
        BY <2>2, <4>1
      <4> QED
        BY <4>2 DEF WakeStep
    <3> QED
      BY <3>1, <3>2
  <2> HIDE DEF G
  <2>4. G = [X \in Small(W, n + 1) |-> WakeStep(G, s, c, X)]
    BY <2>3 DEF G
  <2> QED
    BY <2>4
<1>3. Cardinality(W) \in Nat
  BY FS_CardinalityType
<1>4. Cardinality(W) \in T
  <2> HIDE DEF T
  <2>1. T \in SUBSET Nat
    BY DEF T
  <2>2. \A n \in 0..Cardinality(W) : n \in T
    BY <1>1, <1>2, <1>3, <2>1, Induction
  <2> QED
    BY <1>3, <2>2
<1>5. PICK F : F = [X \in Small(W, Cardinality(W)) |-> WakeStep(F, s, c, X)]
  BY <1>4
<1> QED
  BY <1>0, <1>5 DEF WakesAll

\* unpend_all wakes the threads that wait in one of the queues.
LEMMA UnpendAll ==
  ASSUME NEW s \in Kernel, NEW c \in Cpus, NEW qs
  PROVE  Woken(s, unpend_all(s, c, qs), {t \in Threads : s.pended_on[t] \in qs})
<1> DEFINE W == {t \in Threads : s.pended_on[t] \in qs}
           F == CHOOSE F : WakesAll(F, s, c, W)
<1>1. unpend_all(s, c, qs) = F[W]
  BY DEF unpend_all, FoldSet, MapThenFoldSet, WakesAll, WakeStep, OneOf
<1>2. IsFiniteSet(W) /\ W \in SUBSET Threads
  BY SchedAssumption, FS_Subset
<1> HIDE DEF W
<1>3. WakesAll(F, s, c, W)
  BY <1>2, WakesAllExists
<1> HIDE DEF F
<1>4. \A X \in SUBSET W : F[X] = WakeStep(F, s, c, X)
  BY <1>3 DEF WakesAll
<1>5. /\ Small(W, Cardinality(W)) = SUBSET W
      /\ Small(W, 0) = {{}}
      /\ \A n \in Nat : Small(W, n) \subseteq Small(W, n + 1)
  BY <1>2, SmallSets
<1> DEFINE T == {n \in Nat : \A X \in Small(W, n) : Woken(s, F[X], X)}
<1>6. 0 \in T
  <2>1. F[{}] = s
    BY <1>4 DEF WakeStep
  <2>2. Woken(s, F[{}], {})
    BY <2>1, WokenNobody
  <2>3. \A X \in Small(W, 0) : Woken(s, F[X], X)
    BY <1>5, <2>2
  <2> QED
    BY <2>3
<1>7. ASSUME NEW n \in Nat, n \in T PROVE n + 1 \in T
  <2> SUFFICES ASSUME NEW X \in Small(W, n + 1) PROVE Woken(s, F[X], X)
    OBVIOUS
  <2>1. CASE X = {}
    BY <1>4, <2>1, WokenNobody DEF WakeStep
  <2>2. CASE X # {}
    <3> DEFINE x == OneOf(X)
               Y == X \ {x}
    <3>1. x \in X /\ Y \in Small(W, n) /\ X = Y \cup {x}
      BY <1>2, <2>2, OneLess DEF Small
    <3>2. Woken(s, F[Y], Y)
      BY <1>7, <3>1
    <3>3. x \in Threads /\ x \notin Y /\ Y \in SUBSET Threads
      BY <1>2, <3>1 DEF Small
    <3>4. F[X] = unpend_one(F[Y], c, x)
      BY <1>4, <2>2 DEF WakeStep, Small
    <3> HIDE DEF x, Y
    <3> QED
      BY <3>1, <3>2, <3>3, <3>4, WokenOneMore
  <2> QED
    BY <2>1, <2>2
<1>8. Cardinality(W) \in Nat
  BY <1>2, FS_CardinalityType
<1>9. Cardinality(W) \in T
  <2> HIDE DEF T
  <2>1. T \in SUBSET Nat
    BY DEF T
  <2>2. \A n \in 0..Cardinality(W) : n \in T
    BY <1>6, <1>7, <1>8, <2>1, Induction
  <2> QED
    BY <1>8, <2>2
<1>10. Woken(s, F[W], W)
  BY <1>5, <1>9
<1> QED
  BY <1>1, <1>10 DEF W

-----------------------------------------------------------------------------
(* Halting a thread *)

\* Threads that wait for t to get into new_state.
Waiters(s, t, new_state) ==
  {u \in Threads : \/ s.pended_on[u] = <<"halt", t>>
                   \/ new_state = "DEAD" /\ s.pended_on[u] = <<"join", t>>}

\* r is s after t was halted, but for what CPUs execute.
Halted(s, r, t, new_state) ==
  LET W == Waiters(s, t, new_state)
      dead == new_state = "DEAD"
  IN  /\ r \in Kernel /\ r.prio = s.prio
      /\ \A u \in Threads \ {t} :
           /\ r.state[u] = IF u \in W THEN s.state[u] \ {"PENDING"} ELSE s.state[u]
           /\ r.pended_on[u] = IF u \in W THEN <<>> ELSE s.pended_on[u]
      /\ r.state[t] = ((s.state[t] \cup {new_state}) \ Halting)
                        \ (IF dead THEN {"PENDING"} ELSE {})
      /\ r.pended_on[t] = IF dead THEN <<>> ELSE s.pended_on[t]
      /\ r.armed = s.armed \ (IF dead THEN W \cup {t} ELSE W)
      /\ ToSet(r.runq) = (ToSet(s.runq) \ {t}) \cup {u \in W : z_is_thread_ready(r, u)}
      /\ WellQueued(s) => WellQueued(r)
      /\ r.pending_ipi = Cpus \/ (r.pending_ipi = s.pending_ipi
                                    /\ ToSet(r.runq) \subseteq ToSet(s.runq))

\* A thread does not wait in a queue of its own.
NotOwnQueue(s, t) == s.pended_on[t] \notin {<<"join", t>>, <<"halt", t>>}

\* off is s with t out of the run queue and in new_state.
TakenOff(s, off, t, new_state) ==
  /\ off \in Kernel
  /\ off = [s EXCEPT !.state = off.state, !.runq = off.runq]
  /\ \A u \in Threads :
       off.state[u] = IF u = t THEN s.state[u] \cup {new_state} ELSE s.state[u]
  /\ ToSet(off.runq) = ToSet(s.runq) \ {t}
  /\ WellQueued(s) => WellQueued(off)

\* What halt_thread does first.
LEMMA Taken ==
  ASSUME NEW s \in Kernel, NEW t \in Threads, NEW new_state \in {"DEAD", "SUSPENDED"},
         Distinct(s.runq)
  PROVE  TakenOff(s, dequeue_thread([s EXCEPT !.state[t] = @ \cup {new_state}], t),
                  t, new_state)
<1> DEFINE st == [s.state EXCEPT ![t] = @ \cup {new_state}]
           m == [s EXCEPT !.state = st]
           off == dequeue_thread(m, t)
<1>1. /\ st \in [Threads -> States]
      /\ \A u \in Threads :
           st[u] = IF u = t THEN s.state[u] \cup {new_state} ELSE s.state[u]
  BY DEF Kernel, States, Preventing
<1>2. dequeue_thread([s EXCEPT !.state[t] = @ \cup {new_state}], t) = off
  OBVIOUS
<1> HIDE DEF st
<1>3. m \in Kernel /\ m.runq = s.runq /\ m.prio = s.prio /\ m.state = st
  BY <1>1 DEF Kernel
<1> HIDE DEF m
<1>4. /\ off \in Kernel /\ off = [m EXCEPT !.runq = off.runq]
      /\ ToSet(off.runq) = ToSet(m.runq) \ {t}
      /\ WellQueued(m) => WellQueued(off)
  BY <1>3, DequeueThread
<1> HIDE DEF off
<1>5. off.state = st
  BY <1>3, <1>4 DEF Kernel
<1>6. off = [s EXCEPT !.state = off.state, !.runq = off.runq]
  BY <1>3, <1>4, <1>5 DEF Kernel, m
<1>7. WellQueued(s) => WellQueued(m)
  BY <1>3 DEF WellQueued
<1> QED
  BY <1>1, <1>2, <1>3, <1>4, <1>5, <1>6, <1>7 DEF TakenOff

\* Is the CPU left without a thread?
Dummify(s, c, t, new_state) == new_state = "DEAD" /\ s.current[c] = t /\ c \in in_isr'

LEMMA HaltThread ==
  ASSUME NEW s \in Kernel, NEW c \in Cpus, NEW t \in Threads,
         NEW new_state \in {"DEAD", "SUSPENDED"},
         Distinct(s.runq), new_state \notin s.state[t], NotOwnQueue(s, t)
  PROVE  LET r == halt_thread(s, c, t, new_state)
         IN  /\ Halted(s, r, t, new_state)
             /\ r.current = IF Dummify(s, c, t, new_state)
                              THEN [s.current EXCEPT ![c] = None] ELSE s.current
<1> DEFINE dead == new_state = "DEAD"
           off == dequeue_thread([s EXCEPT !.state[t] = @ \cup {new_state}], t)
           gone == [Unpended(off, t) EXCEPT !.armed = @ \ {t}]
           from == IF dead THEN gone ELSE off
           qs == IF dead THEN {<<"join", t>>, <<"halt", t>>} ELSE {<<"halt", t>>}
           woken == unpend_all(from, c, qs)
           new == IF Dummify(s, c, t, new_state) THEN None ELSE woken.current[c]
           r == [woken EXCEPT !.swap_ok[c] = TRUE, !.state[t] = @ \ Halting, !.current[c] = new]
           W == Waiters(s, t, new_state)
<1>1. halt_thread(s, c, t, new_state) = r
  BY DEF halt_thread, Dummify
<1>2. /\ off \in Kernel
      /\ off = [s EXCEPT !.state = off.state, !.runq = off.runq]
      /\ \A u \in Threads :
           off.state[u] = IF u = t THEN s.state[u] \cup {new_state} ELSE s.state[u]
      /\ ToSet(off.runq) = ToSet(s.runq) \ {t}
      /\ WellQueued(s) => WellQueued(off)
  <2>1. TakenOff(s, off, t, new_state)
    BY Taken
  <2> HIDE DEF off
  <2> QED
    BY <2>1 DEF TakenOff
<1> HIDE DEF off
<1>3. /\ off.prio = s.prio /\ off.current = s.current /\ off.armed = s.armed
      /\ off.pended_on = s.pended_on /\ off.pending_ipi = s.pending_ipi
  BY <1>2 DEF Kernel
<1>4. /\ gone \in Kernel
      /\ gone.prio = s.prio /\ gone.current = s.current /\ gone.armed = s.armed \ {t}
      /\ gone.runq = off.runq /\ gone.pending_ipi = s.pending_ipi
      /\ \A u \in Threads :
           /\ gone.state[u] = IF u = t THEN off.state[u] \ {"PENDING"} ELSE off.state[u]
           /\ gone.pended_on[u] = IF u = t THEN <<>> ELSE off.pended_on[u]
  <2> DEFINE p == Unpended(off, t)
  <2>1. /\ p \in Kernel
        /\ p = [off EXCEPT !.state = p.state, !.pended_on = p.pended_on]
        /\ \A u \in Threads :
             /\ p.state[u] = IF u = t THEN off.state[u] \ {"PENDING"} ELSE off.state[u]
             /\ p.pended_on[u] = IF u = t THEN <<>> ELSE off.pended_on[u]
    BY <1>2, UnpendedFields
  <2> HIDE DEF p
  <2>2. gone = [p EXCEPT !.armed = @ \ {t}]
    BY DEF p
  <2> HIDE DEF gone
  <2>3. /\ gone \in Kernel
        /\ gone.prio = p.prio /\ gone.current = p.current /\ gone.armed = p.armed \ {t}
        /\ gone.runq = p.runq /\ gone.pending_ipi = p.pending_ipi
        /\ gone.state = p.state /\ gone.pended_on = p.pended_on
    BY <2>1, <2>2 DEF Kernel
  <2>4. /\ p.prio = off.prio /\ p.current = off.current /\ p.armed = off.armed
        /\ p.runq = off.runq /\ p.pending_ipi = off.pending_ipi
    BY <1>2, <2>1 DEF Kernel
  <2> QED
    BY <1>3, <2>1, <2>3, <2>4
<1> HIDE DEF gone
<1>5. /\ from \in Kernel
      /\ from.prio = s.prio /\ from.current = s.current
      /\ from.armed = s.armed \ (IF dead THEN {t} ELSE {})
      /\ from.runq = off.runq /\ from.pending_ipi = s.pending_ipi
  <2>1. CASE dead
    BY <1>4, <2>1
  <2>2. CASE ~dead
    BY <1>2, <1>3, <2>2
  <2> QED
    BY <2>1, <2>2
<1>6. \A u \in Threads \ {t} :
        /\ from.state[u] = s.state[u] /\ from.pended_on[u] = s.pended_on[u]
  BY <1>2, <1>3, <1>4
<1>7. /\ from.state[t] = (s.state[t] \cup {new_state}) \ (IF dead THEN {"PENDING"} ELSE {})
      /\ from.pended_on[t] = IF dead THEN <<>> ELSE s.pended_on[t]
  BY <1>2, <1>3, <1>4
<1>8. {u \in Threads : from.pended_on[u] \in qs} = W
  <2>1. t \notin W
    BY DEF NotOwnQueue, Waiters
  <2>2. from.pended_on[t] \notin qs
    BY <1>7 DEF NotOwnQueue
  <2>3. \A u \in Threads \ {t} : from.pended_on[u] \in qs <=> u \in W
    BY <1>6 DEF Waiters
  <2> QED
    BY <2>1, <2>2, <2>3 DEF Waiters
<1>9. Woken(from, woken, W)
  <2>1. Woken(from, woken, {u \in Threads : from.pended_on[u] \in qs})
    <3> HIDE DEF from, qs
    <3> QED
      BY <1>5, UnpendAll
  <2> QED
    BY <1>8, <2>1
<1>10. t \notin W /\ W \subseteq Threads
  BY DEF NotOwnQueue, Waiters
<1> HIDE DEF W, from, woken
<1>11. /\ woken \in Kernel
       /\ woken.prio = s.prio /\ woken.current = s.current
       /\ woken.armed = from.armed \ W
  BY <1>5, <1>9 DEF Woken
<1>12. \A u \in Threads \ {t} :
         /\ woken.state[u] = IF u \in W THEN s.state[u] \ {"PENDING"} ELSE s.state[u]
         /\ woken.pended_on[u] = IF u \in W THEN <<>> ELSE s.pended_on[u]
  BY <1>6, <1>9 DEF Woken
<1>13. woken.state[t] = from.state[t] /\ woken.pended_on[t] = from.pended_on[t]
  BY <1>9, <1>10 DEF Woken
<1>14. Queues(from, woken, {u \in W : z_is_thread_ready(woken, u)})
  BY <1>9 DEF Woken
<1>15. new \in Threads \cup {None}
  BY <1>11 DEF Kernel
<1>16. r.current = IF Dummify(s, c, t, new_state)
                     THEN [s.current EXCEPT ![c] = None] ELSE s.current
  <2>1. woken.current \in [Cpus -> Threads \cup {None}]
    BY <1>11 DEF Kernel
  <2>2. r.current = [woken.current EXCEPT ![c] = new]
    BY <1>11 DEF Kernel
  <2> QED
    BY <1>11, <2>1, <2>2
<1> HIDE DEF new
<1>17. /\ r \in Kernel /\ r.prio = woken.prio /\ r.runq = woken.runq
       /\ r.pended_on = woken.pended_on /\ r.armed = woken.armed
       /\ r.pending_ipi = woken.pending_ipi
       /\ \A u \in Threads : r.state[u] = IF u = t THEN woken.state[u] \ Halting
                                                   ELSE woken.state[u]
  <2> DEFINE st == [woken.state EXCEPT ![t] = @ \ Halting]
             sw == [woken.swap_ok EXCEPT ![c] = TRUE]
             cu == [woken.current EXCEPT ![c] = new]
  <2>1. /\ st \in [Threads -> States] /\ sw \in [Cpus -> BOOLEAN]
        /\ cu \in [Cpus -> Threads \cup {None}]
    BY <1>11, <1>15 DEF Kernel, States
  <2>2. \A u \in Threads : st[u] = IF u = t THEN woken.state[u] \ Halting ELSE woken.state[u]
    BY <1>11 DEF Kernel
  <2>3. r = [woken EXCEPT !.swap_ok = sw, !.state = st, !.current = cu]
    OBVIOUS
  <2> HIDE DEF st, sw, cu, r
  <2> QED
    BY <1>11, <2>1, <2>2, <2>3 DEF Kernel
<1> HIDE DEF r
<1>18. Halted(s, r, t, new_state)
  <2>1. r \in Kernel /\ r.prio = s.prio
    BY <1>11, <1>17
  <2>2. \A u \in Threads \ {t} :
           /\ r.state[u] = IF u \in W THEN s.state[u] \ {"PENDING"} ELSE s.state[u]
           /\ r.pended_on[u] = IF u \in W THEN <<>> ELSE s.pended_on[u]
    BY <1>12, <1>17
  <2>3. r.state[t] = ((s.state[t] \cup {new_state}) \ Halting)
                        \ (IF dead THEN {"PENDING"} ELSE {})
    BY <1>7, <1>13, <1>17
  <2>4. r.pended_on[t] = IF dead THEN <<>> ELSE s.pended_on[t]
    BY <1>7, <1>13, <1>17
  <2>5. r.armed = s.armed \ (IF dead THEN W \cup {t} ELSE W)
    BY <1>5, <1>11, <1>17
  <2>6. {u \in W : z_is_thread_ready(r, u)} = {u \in W : z_is_thread_ready(woken, u)}
    BY <1>10, <1>17 DEF z_is_thread_ready
  <2>7. ToSet(r.runq) = (ToSet(s.runq) \ {t}) \cup {u \in W : z_is_thread_ready(r, u)}
    BY <1>2, <1>5, <1>14, <1>17, <2>6 DEF Queues
  <2>8. WellQueued(s) => WellQueued(r)
    BY <1>2, <1>3, <1>5, <1>11, <1>14, <1>17 DEF Queues, WellQueued
  <2>9. r.pending_ipi = Cpus \/ (r.pending_ipi = s.pending_ipi
                                    /\ ToSet(r.runq) \subseteq ToSet(s.runq))
    BY <1>2, <1>5, <1>14, <1>17 DEF Queues
  <2> QED
    BY <2>1, <2>2, <2>3, <2>4, <2>5, <2>7, <2>8, <2>9 DEF Halted, W
<1> QED
  BY <1>1, <1>16, <1>18

-----------------------------------------------------------------------------
(* Where threads are *)

\* No thread is in two places, and none that cannot run is in the run queue.
Placed(s) ==
  /\ WellQueued(s)
  /\ \A t \in Threads : Queued(s, t) => z_is_thread_ready(s, t)
  /\ \A c, d \in Cpus : s.current[c] # None /\ s.current[c] = s.current[d] => c = d
  /\ \A c \in Cpus : ~Queued(s, s.current[c])

\* A thread is pending if and only if it waits in a queue, which is not its own;
\* who has a timeout sleeps or waits.
Waiting(s) ==
  /\ \A t \in Threads : s.pended_on[t] # <<>> <=> "PENDING" \in s.state[t]
  /\ \A t \in Threads : NotOwnQueue(s, t)
  /\ \A t \in s.armed : s.state[t] \cap {"SLEEPING", "PENDING"} # {}

\* A thread that is ready is queued or runs.
Found(s, t) == z_is_thread_ready(s, t) => Queued(s, t) \/ \E c \in Cpus : s.current[c] = t

Sound(s) == Placed(s) /\ Waiting(s) /\ \A t \in Threads : Found(s, t)

\* The thread of CPU c may go on while q waits.
NotWorse(s, c, q) ==
  s.current[c] # None /\ (s.prio[s.current[c]] <= s.prio[q] \/ s.prio[s.current[c]] < 0)

BestOn(s, c) == \A q \in Threads : Queued(s, q) => NotWorse(s, c, q)

\* The first of the run queue has the highest priority.
LEMMA HeadIsBest ==
  ASSUME NEW s \in Kernel, WellQueued(s), s.runq # <<>>
  PROVE  /\ Head(s.runq) \in Threads /\ Queued(s, Head(s.runq))
         /\ \A q \in Threads : Queued(s, q) => s.prio[Head(s.runq)] <= s.prio[q]
<1>1. s.runq \in Seq(Threads) /\ s.prio \in [Threads -> Int]
  BY DEF Kernel
<1>2. Head(s.runq) \in Threads /\ Head(s.runq) \in ToSet(s.runq)
  BY <1>1, TailList
<1>3. ASSUME NEW q \in Threads, Queued(s, q) PROVE s.prio[Head(s.runq)] <= s.prio[q]
  <2>1. ToSet(s.runq) = {s.runq[i] : i \in 1..Len(s.runq)}
    BY <1>1, ListElements
  <2>2. PICK i \in 1..Len(s.runq) : s.runq[i] = q
    BY <1>3, <2>1 DEF Queued
  <2>3. Head(s.runq) = s.runq[1] /\ 1 \in 1..Len(s.runq)
    BY <1>1
  <2>4. CASE i = 1
    BY <1>1, <1>2, <2>2, <2>3, <2>4
  <2>5. CASE 1 < i
    BY <2>2, <2>3, <2>5 DEF WellQueued, Ordered
  <2> QED
    BY <2>4, <2>5
<1> QED
  BY <1>2, <1>3 DEF Queued

\* r is m after CPU c chose its next thread.
Chosen(m, r, c) ==
  /\ r \in Kernel
  /\ r.state = m.state /\ r.prio = m.prio /\ r.pended_on = m.pended_on
  /\ r.armed = m.armed /\ r.pending_ipi = m.pending_ipi
  /\ \A d \in Cpus \ {c} : r.current[d] = m.current[d]
  /\ r.current[c] # None => z_is_thread_ready(r, r.current[c])
  /\ Placed(r) /\ \A t \in Threads : Found(m, t) => Found(r, t)
  /\ BestOn(r, c)
  /\ \A d \in Cpus \ {c} : BestOn(m, d) => BestOn(r, d)

\* r is m after CPU c switched to new.
Switched(m, r, c, new) ==
  /\ r \in Kernel
  /\ r.state = m.state /\ r.prio = m.prio /\ r.pended_on = m.pended_on
  /\ r.armed = m.armed /\ r.pending_ipi = m.pending_ipi
  /\ r.current[c] = new /\ \A d \in Cpus \ {c} : r.current[d] = m.current[d]
  /\ WellQueued(r)
  /\ \A q \in Threads :
       Queued(r, q) <=> /\ q # new
                        /\ \/ Queued(m, q)
                           \/ q = m.current[c] /\ z_is_thread_ready(m, q)

\* The switch of next_up, with any choice.
LEMMA Switch ==
  ASSUME NEW m \in Kernel, NEW c \in Cpus, Placed(m), NEW new \in Threads \cup {None},
         new = m.current[c] \/ new = None \/ Queued(m, new),
         NEW r,
         r = [dequeue_thread(Requeued(m, m.current[c], new), new) EXCEPT
                !.current[c] = new, !.swap_ok[c] = FALSE]
  PROVE  Switched(m, r, c, new)
<1> DEFINE t == m.current[c]
           p == Requeued(m, t, new)
           o == dequeue_thread(p, new)
<1>1. t \in Threads \cup {None} /\ None \notin Threads
  BY SchedAssumption DEF Kernel
<1>2. /\ p \in Kernel /\ p = [m EXCEPT !.runq = p.runq]
      /\ WellQueued(p)
      /\ \A q \in Threads :
           Queued(p, q) <=> \/ Queued(m, q)
                            \/ q = t /\ t # new /\ z_is_thread_ready(m, t)
  <2>1. ~Queued(m, t) /\ WellQueued(m)
    BY DEF Placed
  <2>2. CASE t # None /\ t # new /\ z_is_thread_ready(m, t)
    <3>1. t \in Threads /\ p = queue_thread(m, t)
      BY <1>1, <2>1, <2>2 DEF Requeued
    <3>2. /\ p \in Kernel /\ p = [m EXCEPT !.runq = p.runq]
          /\ ToSet(p.runq) = ToSet(m.runq) \cup {t}
          /\ WellQueued(p)
      BY <2>1, <3>1, QueueThread
    <3> QED
      BY <2>2, <3>2 DEF Queued
  <2>3. CASE ~(t # None /\ t # new /\ z_is_thread_ready(m, t))
    <3>1. p = m
      BY <2>3 DEF Requeued
    <3>2. m = [m EXCEPT !.runq = m.runq]
      BY DEF Kernel
    <3> QED
      BY <1>1, <2>1, <2>3, <3>1, <3>2
  <2> QED
    BY <2>2, <2>3
<1>3. r = [o EXCEPT !.current[c] = new, !.swap_ok[c] = FALSE]
  OBVIOUS
<1> HIDE DEF p, t
<1>4. /\ o \in Kernel /\ o = [p EXCEPT !.runq = o.runq]
      /\ ToSet(o.runq) = ToSet(p.runq) \ {new}
      /\ WellQueued(o)
  BY <1>2, DequeueThread DEF WellQueued
<1> HIDE DEF o
<1>5. /\ o.state = m.state /\ o.prio = m.prio /\ o.pended_on = m.pended_on
      /\ o.armed = m.armed /\ o.pending_ipi = m.pending_ipi /\ o.current = m.current
  <2>1. /\ p.state = m.state /\ p.prio = m.prio /\ p.pended_on = m.pended_on
        /\ p.armed = m.armed /\ p.pending_ipi = m.pending_ipi /\ p.current = m.current
    BY <1>2 DEF Kernel
  <2>2. /\ o.state = p.state /\ o.prio = p.prio /\ o.pended_on = p.pended_on
        /\ o.armed = p.armed /\ o.pending_ipi = p.pending_ipi /\ o.current = p.current
    BY <1>2, <1>4 DEF Kernel
  <2> QED
    BY <2>1, <2>2
<1>6. /\ r \in Kernel
      /\ r.state = o.state /\ r.prio = o.prio /\ r.pended_on = o.pended_on
      /\ r.armed = o.armed /\ r.pending_ipi = o.pending_ipi /\ r.runq = o.runq
      /\ r.current[c] = new /\ \A d \in Cpus \ {c} : r.current[d] = o.current[d]
  <2> DEFINE sw == [o.swap_ok EXCEPT ![c] = FALSE]
             cu == [o.current EXCEPT ![c] = new]
  <2>1. /\ sw \in [Cpus -> BOOLEAN] /\ cu \in [Cpus -> Threads \cup {None}]
        /\ cu[c] = new /\ \A d \in Cpus \ {c} : cu[d] = o.current[d]
    BY <1>4 DEF Kernel
  <2>2. r = [o EXCEPT !.current = cu, !.swap_ok = sw]
    BY <1>3
  <2> HIDE DEF sw, cu
  <2>3. r \in Kernel
    <3>1. r = [o EXCEPT !.current = cu, !.swap_ok = sw]
      BY ONLY <2>2
    <3>2. cu \in [Cpus -> Threads \cup {None}] /\ sw \in [Cpus -> BOOLEAN] /\ o \in Kernel
      BY ONLY <1>4, <2>1
    <3> QED
      BY ONLY <3>1, <3>2 DEF Kernel
  <2>4. /\ r.state = o.state /\ r.prio = o.prio /\ r.pended_on = o.pended_on
        /\ r.armed = o.armed /\ r.pending_ipi = o.pending_ipi /\ r.runq = o.runq
        /\ r.current = cu
    BY <1>4, <2>2 DEF Kernel
  <2> QED
    BY <2>1, <2>3, <2>4
<1>7. WellQueued(r)
  BY <1>4, <1>6 DEF WellQueued
<1>8. \A q \in Threads : Queued(r, q) <=> Queued(p, q) /\ q # new
  BY <1>4, <1>6 DEF Queued
<1>9. \A q \in Threads :
        Queued(r, q) <=> /\ q # new
                         /\ Queued(m, q) \/ (q = t /\ z_is_thread_ready(m, t))
  BY <1>2, <1>8
<1> QED
  BY <1>5, <1>6, <1>7, <1>9 DEF Switched, t

\* Choice is the current thread or the best of the run queue, and not worse than
\* the other.
LEMMA ChoiceIsBest ==
  ASSUME NEW m \in Kernel, NEW c \in Cpus, Placed(m)
  PROVE  LET t == m.current[c]
             new == Choice(m, c)
         IN  /\ new \in Threads \cup {None}
             /\ \/ new = t /\ t # None /\ z_is_thread_ready(m, t) /\ BestOn(m, c)
                \/ /\ new # None => Queued(m, new)
                   /\ new = None => /\ \A q \in Threads : ~Queued(m, q)
                                    /\ t # None => ~z_is_thread_ready(m, t)
                   /\ \A q \in Threads : Queued(m, q) => m.prio[new] <= m.prio[q]
                   /\ new # None /\ t # None /\ z_is_thread_ready(m, t)
                        => m.prio[new] <= m.prio[t]
<1> DEFINE t == m.current[c]
           best == IF m.runq = <<>> THEN None ELSE Head(m.runq)
           keep == \/ best = None
                   \/ m.prio[t] < m.prio[best]
                   \/ m.prio[t] = m.prio[best] /\ ~m.swap_ok[c]
                   \/ m.prio[t] < 0 /\ ~m.swap_ok[c]
           new == Choice(m, c)
<1>1. /\ t \in Threads \cup {None} /\ None \notin Threads /\ m.prio \in [Threads -> Int]
      /\ m.runq \in Seq(Threads)
  BY SchedAssumption DEF Kernel
<1>2. new = IF t # None /\ z_is_thread_ready(m, t) /\ keep THEN t ELSE best
  BY DEF Choice
<1>3. CASE m.runq = <<>>
  <2>1. best = None /\ keep
    BY <1>3
  <2>2. \A q \in Threads : ~Queued(m, q)
    <3>1. ToSet(m.runq) = {}
      BY <1>3, EmptyList
    <3> QED
      BY <3>1 DEF Queued
  <2> QED
    BY <1>1, <1>2, <2>1, <2>2 DEF BestOn
<1>4. CASE m.runq # <<>>
  <2>1. /\ best \in Threads /\ Queued(m, best)
        /\ \A q \in Threads : Queued(m, q) => m.prio[best] <= m.prio[q]
    BY <1>4, HeadIsBest DEF Placed
  <2> HIDE DEF best
  <2>2. CASE t # None /\ z_is_thread_ready(m, t) /\ keep
    <3>1. m.prio[t] <= m.prio[best] \/ m.prio[t] < 0
      BY <1>1, <2>1, <2>2
    <3>2. \A q \in Threads : m.prio[q] \in Int
      BY <1>1
    <3>3. BestOn(m, c)
      BY <1>1, <2>1, <2>2, <3>1, <3>2 DEF BestOn, NotWorse
    <3>4. new = t
      BY <1>2, <2>2
    <3> QED
      BY <1>1, <2>2, <3>3, <3>4
  <2>3. CASE ~(t # None /\ z_is_thread_ready(m, t) /\ keep)
    <3>1. new = best
      BY <1>2, <2>3
    <3>2. ASSUME t # None, z_is_thread_ready(m, t) PROVE m.prio[best] <= m.prio[t]
      BY <1>1, <2>1, <2>3, <3>2
    <3> QED
      BY <1>1, <2>1, <3>1, <3>2
  <2> QED
    BY <2>2, <2>3
<1> QED
  BY <1>3, <1>4

LEMMA ChooseNext ==
  ASSUME NEW m \in Kernel, NEW c \in Cpus, Placed(m), NEW r,
         r = [dequeue_thread(Requeued(m, m.current[c], Choice(m, c)), Choice(m, c)) EXCEPT
                !.current[c] = Choice(m, c), !.swap_ok[c] = FALSE]
  PROVE  Chosen(m, r, c)
<1> DEFINE t == m.current[c]
           new == Choice(m, c)
<1>1. /\ new \in Threads \cup {None}
      /\ \/ new = t /\ t # None /\ z_is_thread_ready(m, t) /\ BestOn(m, c)
         \/ /\ new # None => Queued(m, new)
            /\ new = None => /\ \A q \in Threads : ~Queued(m, q)
                             /\ t # None => ~z_is_thread_ready(m, t)
            /\ \A q \in Threads : Queued(m, q) => m.prio[new] <= m.prio[q]
            /\ new # None /\ t # None /\ z_is_thread_ready(m, t)
                 => m.prio[new] <= m.prio[t]
  BY ChoiceIsBest
<1>2. Switched(m, r, c, new)
  <2> HIDE DEF new
  <2>1. r = [dequeue_thread(Requeued(m, m.current[c], new), new) EXCEPT
                !.current[c] = new, !.swap_ok[c] = FALSE]
    BY DEF new
  <2> QED
    BY <1>1, <2>1, Switch
<1> HIDE DEF new
<1>3. /\ r \in Kernel
      /\ r.state = m.state /\ r.prio = m.prio /\ r.pended_on = m.pended_on
      /\ r.armed = m.armed /\ r.pending_ipi = m.pending_ipi
      /\ \A d \in Cpus \ {c} : r.current[d] = m.current[d]
      /\ r.current[c] = new
      /\ WellQueued(r)
  BY <1>2 DEF Switched
<1>4. \A q \in Threads :
        Queued(r, q) <=> q # new /\ (Queued(m, q) \/ (q = t /\ z_is_thread_ready(m, q)))
  BY <1>2 DEF Switched
<1>5. \A q \in Threads : z_is_thread_ready(r, q) <=> z_is_thread_ready(m, q)
  BY <1>3 DEF z_is_thread_ready
<1>6. /\ t \in Threads \cup {None} /\ None \notin Threads
      /\ \A d \in Cpus : m.current[d] \in Threads \cup {None}
      /\ \A q \in Threads : m.prio[q] \in Int
  BY SchedAssumption DEF Kernel
<1>7. /\ \A q \in Threads : Queued(m, q) => z_is_thread_ready(m, q)
      /\ \A a, d \in Cpus : m.current[a] # None /\ m.current[a] = m.current[d] => a = d
      /\ \A d \in Cpus : ~Queued(m, m.current[d])
  BY DEF Placed
<1>8. new # None => z_is_thread_ready(r, new)
  BY <1>1, <1>5, <1>7
<1>9. ~Queued(r, None)
  <2>1. ToSet(r.runq) \subseteq Threads
    BY <1>3, ListElements DEF Kernel
  <2> QED
    BY <1>6, <2>1 DEF Queued
<1>10. Placed(r)
  <2>1. \A q \in Threads : Queued(r, q) => z_is_thread_ready(r, q)
    BY <1>4, <1>5, <1>7
  <2>2. ASSUME NEW a \in Cpus, NEW d \in Cpus, r.current[a] # None, r.current[a] = r.current[d]
        PROVE  a = d
    BY <1>1, <1>3, <1>7, <2>2
  <2>3. ASSUME NEW d \in Cpus PROVE ~Queued(r, r.current[d])
    <3>1. CASE r.current[d] = None
      BY <1>9, <3>1
    <3>2. CASE r.current[d] # None /\ d = c
      BY <1>1, <1>3, <1>4, <3>2
    <3>3. CASE r.current[d] # None /\ d # c
      <4>1. /\ r.current[d] = m.current[d] /\ m.current[d] \in Threads
            /\ m.current[d] # t /\ ~Queued(m, m.current[d])
        BY <1>3, <1>6, <1>7, <3>3
      <4> QED
        BY <1>4, <4>1
    <3> QED
      BY <3>1, <3>2, <3>3
  <2> QED
    BY <1>3, <2>1, <2>2, <2>3 DEF Placed
<1>11. ASSUME NEW q \in Threads, Found(m, q) PROVE Found(r, q)
  <2> SUFFICES ASSUME z_is_thread_ready(m, q), q # new
               PROVE  Queued(r, q) \/ \E d \in Cpus : r.current[d] = q
    BY <1>3, <1>5 DEF Found
  <2>1. CASE Queued(m, q)
    BY <1>4, <2>1
  <2>2. CASE q = t
    BY <1>4, <2>2
  <2>3. CASE q # t /\ \E d \in Cpus : m.current[d] = q
    BY <1>3, <2>3
  <2> QED
    BY <1>11, <2>1, <2>2, <2>3 DEF Found
<1>12. BestOn(r, c)
  <2> SUFFICES ASSUME NEW q \in Threads, Queued(r, q) PROVE NotWorse(r, c, q)
    BY DEF BestOn
  <2>0. q # new /\ (Queued(m, q) \/ (q = t /\ z_is_thread_ready(m, q)))
    BY <1>4
  <2>1. CASE new = t /\ t # None /\ BestOn(m, c)
    <3>1. NotWorse(m, c, q)
      BY <2>0, <2>1 DEF BestOn
    <3> QED
      BY <1>3, <2>1, <3>1 DEF NotWorse
  <2>2. CASE ~(new = t /\ t # None /\ BestOn(m, c))
    <3>1. new # None
      BY <1>1, <1>6, <2>0, <2>2
    <3>2. m.prio[new] <= m.prio[q]
      BY <1>1, <1>6, <2>0, <2>2, <3>1
    <3> QED
      BY <1>3, <3>1, <3>2 DEF NotWorse
  <2> QED
    BY <2>1, <2>2
<1>13. ASSUME NEW d \in Cpus \ {c}, BestOn(m, d) PROVE BestOn(r, d)
  <2> SUFFICES ASSUME NEW q \in Threads, Queued(r, q) PROVE NotWorse(r, d, q)
    BY DEF BestOn
  <2>0. q # new /\ (Queued(m, q) \/ (q = t /\ z_is_thread_ready(m, q)))
    BY <1>4
  <2>1. NotWorse(m, d, q)
    <3>1. CASE Queued(m, q)
      BY <1>13, <3>1 DEF BestOn
    <3>2. CASE ~Queued(m, q)
      <4>1. q = t /\ z_is_thread_ready(m, t) /\ t # new /\ t # None
        BY <1>6, <2>0, <3>2
      <4>2. new # None /\ Queued(m, new) /\ m.prio[new] <= m.prio[t] /\ new \in Threads
        BY <1>1, <4>1
      <4>3. NotWorse(m, d, new)
        BY <1>13, <4>2 DEF BestOn
      <4>4. /\ m.prio[new] \in Int /\ m.prio[t] \in Int
            /\ m.current[d] # None => m.prio[m.current[d]] \in Int
        BY <1>6, <4>1, <4>2
      <4> QED
        BY <4>1, <4>2, <4>3, <4>4 DEF NotWorse
    <3> QED
      BY <3>1, <3>2
  <2> QED
    BY <1>3, <2>1 DEF NotWorse
<1> QED
  BY <1>3, <1>8, <1>10, <1>11, <1>12, <1>13 DEF Chosen

-----------------------------------------------------------------------------
(* What halting keeps *)

\* CPU d is as well off in r as in s, or will choose again.
AsGood(s, r, d) == BestOn(s, d) => d \in r.pending_ipi \/ BestOn(r, d)

\* Who waits is pending, and is another thread.
LEMMA WaitersPend ==
  ASSUME NEW s \in Kernel, Waiting(s), NEW t \in Threads, NEW new_state,
         NEW w \in Waiters(s, t, new_state)
  PROVE  w \in Threads /\ "PENDING" \in s.state[w] /\ w # t
<1>1. w \in Threads /\ s.pended_on[w] \in {<<"join", t>>, <<"halt", t>>}
  BY DEF Waiters
<1>2. <<>> # <<"join", t>> /\ <<>> # <<"halt", t>>
  OBVIOUS
<1>3. s.pended_on[w] # <<>>
  BY <1>1, <1>2
<1> QED
  BY <1>1, <1>3 DEF Waiting, NotOwnQueue

LEMMA HaltKeeps ==
  ASSUME NEW s \in Kernel, Sound(s), NEW c \in Cpus, NEW t \in Threads,
         NEW new_state \in {"DEAD", "SUSPENDED"}, new_state \notin s.state[t],
         \A w \in Waiters(s, t, new_state), d \in Cpus : s.current[d] # w,
         NEW r, r = halt_thread(s, c, t, new_state)
  PROVE  /\ Halted(s, r, t, new_state) /\ Sound(r)
         /\ r.current = IF Dummify(s, c, t, new_state)
                          THEN [s.current EXCEPT ![c] = None] ELSE s.current
         /\ s.pending_ipi \subseteq r.pending_ipi
         /\ \A d \in Cpus : AsGood(s, r, d) \/ (Dummify(s, c, t, new_state) /\ d = c)
<1> DEFINE W == Waiters(s, t, new_state)
           dead == new_state = "DEAD"
<1>1. Distinct(s.runq) /\ NotOwnQueue(s, t)
  BY DEF Sound, Placed, WellQueued, Waiting
<1>2. /\ Halted(s, r, t, new_state)
      /\ r.current = IF Dummify(s, c, t, new_state)
                       THEN [s.current EXCEPT ![c] = None] ELSE s.current
  BY <1>1, HaltThread
<1>3. /\ r \in Kernel /\ r.prio = s.prio
      /\ \A u \in Threads \ {t} :
           /\ r.state[u] = IF u \in W THEN s.state[u] \ {"PENDING"} ELSE s.state[u]
           /\ r.pended_on[u] = IF u \in W THEN <<>> ELSE s.pended_on[u]
      /\ r.state[t] = ((s.state[t] \cup {new_state}) \ Halting)
                        \ (IF dead THEN {"PENDING"} ELSE {})
      /\ r.pended_on[t] = IF dead THEN <<>> ELSE s.pended_on[t]
      /\ r.armed = s.armed \ (IF dead THEN W \cup {t} ELSE W)
      /\ ToSet(r.runq) = (ToSet(s.runq) \ {t}) \cup {u \in W : z_is_thread_ready(r, u)}
      /\ WellQueued(s) => WellQueued(r)
      /\ r.pending_ipi = Cpus \/ (r.pending_ipi = s.pending_ipi
                                    /\ ToSet(r.runq) \subseteq ToSet(s.runq))
  BY <1>2 DEF Halted
<1>4. W \subseteq Threads /\ t \notin W
  BY <1>1 DEF Waiters, NotOwnQueue
<1>5. \A w \in W, d \in Cpus : s.current[d] # w
  OBVIOUS
<1> HIDE DEF W
<1>7. /\ s.current \in [Cpus -> Threads \cup {None}] /\ None \notin Threads
      /\ s.pending_ipi \subseteq Cpus
  BY SchedAssumption DEF Kernel
<1>8. \A d \in Cpus : r.current[d] = IF Dummify(s, c, t, new_state) /\ d = c THEN None
                                       ELSE s.current[d]
  BY <1>2, <1>7
<1>9. ~z_is_thread_ready(r, t)
  BY <1>3 DEF z_is_thread_ready, Preventing, Halting
<1>10. \A u \in Threads : Queued(r, u) <=> /\ u # t
                                           /\ Queued(s, u) \/ (u \in W /\ z_is_thread_ready(r, u))
  BY <1>3, <1>4, <1>9 DEF Queued
<1>11. \A u \in Threads \ {t} :
         z_is_thread_ready(s, u) => z_is_thread_ready(r, u)
  BY <1>3 DEF z_is_thread_ready
<1>12. \A u \in Threads \ {t} :
         u \notin W => (z_is_thread_ready(r, u) <=> z_is_thread_ready(s, u))
  BY <1>3 DEF z_is_thread_ready
<1>13. /\ \A u \in Threads : Queued(s, u) => z_is_thread_ready(s, u)
       /\ \A a, d \in Cpus : s.current[a] # None /\ s.current[a] = s.current[d] => a = d
       /\ \A d \in Cpus : ~Queued(s, s.current[d])
       /\ WellQueued(s)
  BY DEF Sound, Placed
<1>14. Placed(r)
  <2>1. WellQueued(r)
    BY <1>3, <1>13
  <2>2. \A u \in Threads : Queued(r, u) => z_is_thread_ready(r, u)
    BY <1>10, <1>11, <1>13
  <2>3. \A a, d \in Cpus : r.current[a] # None /\ r.current[a] = r.current[d] => a = d
    BY <1>8, <1>13
  <2>4. ASSUME NEW d \in Cpus PROVE ~Queued(r, r.current[d])
    <3>1. CASE r.current[d] = None
      <4>1. ToSet(r.runq) \subseteq Threads
        BY <1>3, ListElements DEF Kernel
      <4> QED
        BY <1>7, <3>1, <4>1 DEF Queued
    <3>2. CASE r.current[d] # None
      <4>1. r.current[d] = s.current[d] /\ s.current[d] \in Threads /\ s.current[d] \notin W
        BY <1>5, <1>7, <1>8, <3>2
      <4> QED
        BY <1>10, <1>13, <4>1
    <3> QED
      BY <3>1, <3>2
  <2> QED
    BY <2>1, <2>2, <2>3, <2>4 DEF Placed
<1>15. Waiting(r)
  <2>0. /\ \A u \in Threads : s.pended_on[u] # <<>> <=> "PENDING" \in s.state[u]
        /\ \A u \in Threads : NotOwnQueue(s, u)
        /\ \A u \in s.armed : s.state[u] \cap {"SLEEPING", "PENDING"} # {}
        /\ s.armed \subseteq Threads
    BY DEF Sound, Waiting, Kernel
  <2>1. ASSUME NEW u \in Threads
        PROVE  r.pended_on[u] # <<>> <=> "PENDING" \in r.state[u]
    <3>1. CASE u = t
      BY <1>3, <2>0, <3>1 DEF Halting
    <3>2. CASE u # t
      BY <1>3, <2>0, <3>2
    <3> QED
      BY <3>1, <3>2
  <2>2. ASSUME NEW u \in Threads PROVE NotOwnQueue(r, u)
    <3>1. r.pended_on[u] = <<>> \/ r.pended_on[u] = s.pended_on[u]
      BY <1>3
    <3>2. <<>> # <<"join", u>> /\ <<>> # <<"halt", u>>
      OBVIOUS
    <3> QED
      BY <2>0, <3>1, <3>2 DEF NotOwnQueue
  <2>3. ASSUME NEW u \in r.armed PROVE r.state[u] \cap {"SLEEPING", "PENDING"} # {}
    <3>1. u \in s.armed /\ u \notin W /\ u \in Threads
      BY <1>3, <2>0
    <3>2. CASE u = t
      <4>1. ~dead /\ r.state[u] = (s.state[t] \cup {new_state}) \ Halting
        BY <1>3, <3>2
      <4> QED
        BY <2>0, <3>1, <3>2, <4>1 DEF Halting
    <3>3. CASE u # t
      BY <1>3, <2>0, <3>1, <3>3
    <3> QED
      BY <3>2, <3>3
  <2> QED
    BY <2>1, <2>2, <2>3 DEF Waiting
<1>16. ASSUME NEW u \in Threads PROVE Found(r, u)
  <2> SUFFICES ASSUME z_is_thread_ready(r, u)
               PROVE  Queued(r, u) \/ \E d \in Cpus : r.current[d] = u
    BY DEF Found
  <2>1. u # t
    BY <1>9
  <2>2. CASE u \in W
    BY <1>10, <2>1, <2>2
  <2>3. CASE u \notin W
    <3>1. z_is_thread_ready(s, u)
      BY <1>12, <2>1, <2>3
    <3>2. CASE Queued(s, u)
      BY <1>10, <2>1, <3>2
    <3>3. CASE \E d \in Cpus : s.current[d] = u
      <4>1. PICK d \in Cpus : s.current[d] = u
        BY <3>3
      <4>2. r.current[d] = u
        BY <1>8, <2>1, <4>1 DEF Dummify
      <4> QED
        BY <4>2
    <3> QED
      BY <3>1, <3>2, <3>3 DEF Sound, Found
  <2> QED
    BY <2>2, <2>3
<1>17. ASSUME NEW d \in Cpus, ~(Dummify(s, c, t, new_state) /\ d = c) PROVE AsGood(s, r, d)
  <2>1. CASE r.pending_ipi = Cpus
    BY <2>1 DEF AsGood
  <2>2. CASE ToSet(r.runq) \subseteq ToSet(s.runq)
    <3>1. r.current[d] = s.current[d]
      BY <1>8, <1>17
    <3> QED
      BY <1>3, <2>2, <3>1 DEF AsGood, BestOn, NotWorse, Queued
  <2> QED
    BY <1>3, <2>1, <2>2
<1>18. s.pending_ipi \subseteq r.pending_ipi
  BY <1>3, <1>7
<1> QED
  BY <1>2, <1>14, <1>15, <1>16, <1>17, <1>18 DEF Sound

-----------------------------------------------------------------------------
(* next_up *)

\* m is s after the current thread of CPU c was halted, if it was to halt.
CurrentHalted(s, m, c) ==
  LET t == s.current[c]
      new_state == IF "ABORTING" \in s.state[t] THEN "DEAD" ELSE "SUSPENDED"
  IN  IF is_halting(s, t) /\ new_state \notin s.state[t]
        THEN Halted(s, m, t, new_state) ELSE m = s

\* No other CPU executes a thread that is pending.
OthersRun(s, c) ==
  \A d \in Cpus \ {c} : s.current[d] # None => "PENDING" \notin s.state[s.current[d]]

LEMMA HaltCurrentKeeps ==
  ASSUME NEW s \in Kernel, Sound(s), NEW c \in Cpus, OthersRun(s, c),
         NEW m, m = HaltCurrent(s, c)
  PROVE  /\ CurrentHalted(s, m, c) /\ Sound(m) /\ m \in Kernel
         /\ \A d \in Cpus \ {c} : m.current[d] = s.current[d]
         /\ c \notin in_isr' => m.current = s.current
         /\ \/ m = s \/ (c \in in_isr' /\ m.current[c] = None)
            \/ m.current[c] = s.current[c] /\
                 (c \in in_isr' => Halted(s, m, s.current[c], "SUSPENDED"))
         /\ s.pending_ipi \subseteq m.pending_ipi
         /\ \A d \in Cpus : AsGood(s, m, d) \/ (c \in in_isr' /\ d = c)
<1> DEFINE t == s.current[c]
           new_state == IF "ABORTING" \in s.state[t] THEN "DEAD" ELSE "SUSPENDED"
<1>1. t \in Threads \cup {None} /\ None \notin Threads
  BY SchedAssumption DEF Kernel
<1>2. CASE ~(is_halting(s, t) /\ new_state \notin s.state[t])
  <2>1. m = s
    BY <1>2 DEF HaltCurrent, halt_thread
  <2>2. CurrentHalted(s, m, c)
    BY <1>2, <2>1 DEF CurrentHalted
  <2> QED
    BY <2>1, <2>2 DEF AsGood
<1>3. CASE is_halting(s, t) /\ new_state \notin s.state[t]
  <2>1. t \in Threads
    BY <1>1, <1>3 DEF is_halting
  <2>2. m = halt_thread(s, c, t, new_state)
    BY <1>3 DEF HaltCurrent
  <2>3. new_state \in {"DEAD", "SUSPENDED"}
    OBVIOUS
  <2>4. ASSUME NEW w \in Waiters(s, t, new_state), NEW d \in Cpus PROVE s.current[d] # w
    <3>1. w \in Threads /\ "PENDING" \in s.state[w] /\ w # t
      <4> HIDE DEF t, new_state
      <4> QED
        BY <2>1, WaitersPend DEF Sound
    <3>2. "PENDING" \in s.state[w]
      BY <3>1
    <3>3. w # None
      BY <1>1, <3>1
    <3>4. CASE d = c
      BY <3>1, <3>4
    <3>5. CASE d # c
      BY <3>2, <3>3, <3>5 DEF OthersRun
    <3> QED
      BY <3>4, <3>5
  <2>5. CurrentHalted(s, m, c) <=> Halted(s, m, t, new_state)
    BY <1>3 DEF CurrentHalted
  <2>6. new_state \notin s.state[t]
    BY <1>3
  <2> HIDE DEF new_state, t
  <2>7. /\ Halted(s, m, t, new_state) /\ Sound(m)
        /\ m.current = IF Dummify(s, c, t, new_state)
                         THEN [s.current EXCEPT ![c] = None] ELSE s.current
        /\ s.pending_ipi \subseteq m.pending_ipi
        /\ \A d \in Cpus : AsGood(s, m, d) \/ (Dummify(s, c, t, new_state) /\ d = c)
    BY <2>1, <2>2, <2>3, <2>4, <2>6, HaltKeeps
  <2>8. Dummify(s, c, t, new_state) => c \in in_isr'
    BY DEF Dummify
  <2>9. s.current \in [Cpus -> Threads \cup {None}]
    BY DEF Kernel
  <2>10. m \in Kernel
    BY <2>7 DEF Halted
  <2>11. \/ c \in in_isr' /\ m.current[c] = None
         \/ m.current[c] = s.current[c] /\
              (c \in in_isr' => Halted(s, m, s.current[c], "SUSPENDED"))
    <3>1. CASE Dummify(s, c, t, new_state)
      BY <2>7, <2>8, <2>9, <3>1
    <3>2. CASE ~Dummify(s, c, t, new_state)
      <4>1. m.current[c] = s.current[c]
        BY <2>7, <3>2
      <4>2. c \in in_isr' => new_state = "SUSPENDED"
        BY <2>3, <3>2 DEF Dummify, t
      <4> QED
        BY <2>7, <4>1, <4>2 DEF t
    <3> QED
      BY <3>1, <3>2
  <2> QED
    BY <2>5, <2>7, <2>8, <2>9, <2>10, <2>11
<1> QED
  BY <1>2, <1>3

\* next_up keeps what is sound, and CPU c goes on with the best.
LEMMA NextUp ==
  ASSUME NEW s \in Kernel, Sound(s), NEW c \in Cpus, OthersRun(s, c), c \notin in_isr',
         NEW r, r = next_up(s, c)
  PROVE  \E m \in Kernel :
           /\ CurrentHalted(s, m, c) /\ Chosen(m, r, c) /\ Sound(r)
           /\ m.current = s.current
           /\ s.pending_ipi \subseteq r.pending_ipi
           /\ \A d \in Cpus \ {c} : AsGood(s, r, d)
<1> DEFINE m == HaltCurrent(s, c)
<1>1. /\ CurrentHalted(s, m, c) /\ Sound(m) /\ m \in Kernel
      /\ m.current = s.current
      /\ s.pending_ipi \subseteq m.pending_ipi
      /\ \A d \in Cpus : AsGood(s, m, d)
  BY HaltCurrentKeeps
<1>2. r = [dequeue_thread(Requeued(m, m.current[c], Choice(m, c)), Choice(m, c)) EXCEPT
             !.current[c] = Choice(m, c), !.swap_ok[c] = FALSE]
  BY DEF next_up
<1> HIDE DEF m
<1>3. Chosen(m, r, c)
  BY <1>1, <1>2, ChooseNext DEF Sound
<1>4. Sound(r)
  <2>1. Waiting(r)
    BY <1>1, <1>3 DEF Chosen, Sound, Waiting, NotOwnQueue
  <2> QED
    BY <1>1, <1>3, <2>1 DEF Sound, Chosen
<1>5. \A d \in Cpus \ {c} : AsGood(s, r, d)
  BY <1>1, <1>3 DEF AsGood, Chosen
<1>6. s.pending_ipi \subseteq r.pending_ipi
  BY <1>1, <1>3 DEF Chosen
<1> QED
  BY <1>1, <1>3, <1>4, <1>5, <1>6

-----------------------------------------------------------------------------
(* What the other steps of the calls keep *)

\* A change of state that makes no thread ready and none of the run queue not.
LEMMA BlockKeeps ==
  ASSUME NEW s \in Kernel, Placed(s), NEW r \in Kernel,
         r.runq = s.runq, r.prio = s.prio, r.current = s.current,
         \A v \in Threads : z_is_thread_ready(r, v) => z_is_thread_ready(s, v),
         \A v \in Threads : Queued(s, v) => z_is_thread_ready(r, v)
  PROVE  Placed(r) /\ \A v \in Threads : Found(s, v) => Found(r, v)
<1>1. WellQueued(r)
  BY DEF WellQueued, Placed
<1>2. \A v : Queued(r, v) <=> Queued(s, v)
  BY DEF Queued
<1> QED
  BY <1>1, <1>2 DEF Placed, Found

\* A change of nothing but swap_ok and pending_ipi.
Alike(s, r) ==
  /\ r.state = s.state /\ r.prio = s.prio /\ r.current = s.current
  /\ r.pended_on = s.pended_on /\ r.armed = s.armed

LEMMA AlikeKeeps ==
  ASSUME NEW s \in Kernel, NEW r \in Kernel, Alike(s, r), r.runq = s.runq
  PROVE  /\ Sound(s) => Sound(r)
         /\ \A d \in Cpus : BestOn(s, d) => BestOn(r, d)
<1>1. \A v : Queued(r, v) <=> Queued(s, v)
  BY DEF Queued
<1>2. WellQueued(r) <=> WellQueued(s)
  BY DEF WellQueued, Alike
<1>3. \A v : z_is_thread_ready(r, v) <=> z_is_thread_ready(s, v)
  BY DEF z_is_thread_ready, Alike
<1>4. Placed(s) => Placed(r)
  BY <1>1, <1>2, <1>3 DEF Placed, Alike
<1>5. Waiting(s) => Waiting(r)
  BY DEF Waiting, Alike, NotOwnQueue
<1>6. \A v \in Threads : Found(s, v) => Found(r, v)
  BY <1>1, <1>3 DEF Found, Alike
<1>7. \A d \in Cpus : BestOn(s, d) => BestOn(r, d)
  BY <1>1 DEF BestOn, NotWorse, Alike
<1> QED
  BY <1>4, <1>5, <1>6, <1>7 DEF Sound

\* ready_thread finds a place for a thread that does not run.
LEMMA ReadyKeeps ==
  ASSUME NEW s \in Kernel, Placed(s), Waiting(s), NEW c \in Cpus, NEW t \in Threads,
         \A v \in Threads \ {t} : Found(s, v),
         \A d \in Cpus : s.current[d] # t,
         NEW r, r = ready_thread(s, c, t)
  PROVE  /\ r \in Kernel /\ Sound(r) /\ Alike(s, r)
         /\ s.pending_ipi \subseteq r.pending_ipi
         /\ \A d \in Cpus : AsGood(s, r, d)
<1>1. /\ r \in Kernel
      /\ r = [s EXCEPT !.runq = r.runq, !.swap_ok = r.swap_ok, !.pending_ipi = r.pending_ipi]
      /\ Queues(s, r, {u \in {t} : z_is_thread_ready(s, u)})
  BY ReadyThread
<1>2. Alike(s, r)
  BY <1>1 DEF Alike, Kernel
<1>3. \A v \in Threads : Queued(r, v) <=> Queued(s, v) \/ (v = t /\ z_is_thread_ready(s, t))
  BY <1>1 DEF Queues, Queued
<1>4. /\ WellQueued(r)
      /\ r.pending_ipi = Cpus \/ (r.pending_ipi = s.pending_ipi /\ r.runq = s.runq)
  BY <1>1 DEF Queues, Placed
<1>5. \A v : z_is_thread_ready(r, v) <=> z_is_thread_ready(s, v)
  BY <1>2 DEF Alike, z_is_thread_ready
<1>6. \A d \in Cpus : s.current[d] \in Threads \/ s.current[d] = None
  BY DEF Kernel
<1>7. ~Queued(r, None)
  <2>1. ToSet(r.runq) \subseteq Threads
    BY <1>1, ListElements DEF Kernel
  <2> QED
    BY <2>1, SchedAssumption DEF Queued
<1>8. Placed(r)
  <2>1. \A v \in Threads : Queued(r, v) => z_is_thread_ready(r, v)
    BY <1>3, <1>5 DEF Placed
  <2>2. \A d \in Cpus : ~Queued(r, r.current[d])
    <3>1. \A d \in Cpus : r.current[d] = s.current[d] /\ ~Queued(s, s.current[d])
      BY <1>2 DEF Alike, Placed
    <3> QED
      BY <1>3, <1>6, <1>7, <3>1
  <2> QED
    BY <1>2, <1>4, <2>1, <2>2 DEF Placed, Alike
<1>9. Waiting(r)
  BY <1>2 DEF Waiting, Alike, NotOwnQueue
<1>10. \A v \in Threads : Found(r, v)
  BY <1>2, <1>3, <1>5 DEF Found, Alike
<1>11. \A d \in Cpus : AsGood(s, r, d)
  <2>1. CASE r.pending_ipi = Cpus
    BY <2>1 DEF AsGood
  <2>2. CASE r.runq = s.runq
    BY <1>1, <1>2, <2>2, AlikeKeeps DEF AsGood
  <2> QED
    BY <1>4, <2>1, <2>2
<1>12. s.pending_ipi \subseteq r.pending_ipi
  BY <1>4 DEF Kernel
<1> QED
  BY <1>1, <1>2, <1>8, <1>9, <1>10, <1>11, <1>12 DEF Sound

-----------------------------------------------------------------------------
(* How a call ends *)

\* The thread of CPU d can run; but an interrupt may have suspended it.
Rests(s, d, I) ==
  s.current[d] # None =>
    /\ s.state[s.current[d]] \cap {"PENDING", "SLEEPING", "DEAD"} = {}
    /\ "SUSPENDED" \in s.state[s.current[d]] => d \in I /\ "isr abort" \in program

\* CPU d has the best thread it could have, or will choose again.
Told(s, d, I, P) == d \in P \cup I \cup s.pending_ipi \/ BestOn(s, d)

\* Halting changes nothing of a thread that is not pending.
LEMMA HaltedOthers ==
  ASSUME NEW s \in Kernel, NEW r, NEW t, NEW new_state, Halted(s, r, t, new_state),
         NEW v \in Threads, v # t
  PROVE  /\ r.state[v] \in {s.state[v], s.state[v] \ {"PENDING"}}
         /\ "PENDING" \notin s.state[v] => r.state[v] = s.state[v]
<1> DEFINE W == Waiters(s, t, new_state)
<1>1. r.state[v] = IF v \in W THEN s.state[v] \ {"PENDING"} ELSE s.state[v]
  BY DEF Halted
<1> HIDE DEF W
<1> QED
  BY <1>1

LEMMA CurrentHaltedOthers ==
  ASSUME NEW s \in Kernel, NEW m, NEW c, CurrentHalted(s, m, c),
         NEW v \in Threads, v # s.current[c]
  PROVE  /\ m.state[v] \in {s.state[v], s.state[v] \ {"PENDING"}}
         /\ "PENDING" \notin s.state[v] => m.state[v] = s.state[v]
<1>1. m = s \/ \E new_state : Halted(s, m, s.current[c], new_state)
  BY DEF CurrentHalted
<1> QED
  BY <1>1, HaltedOthers

\* n is s after the current thread of CPU c was halted, if it was to halt, and
\* after CPU c chose another.
HaltsThenSwitches(s, n, c) ==
  \E m \in Kernel :
    /\ CurrentHalted(s, m, c) /\ m.current = s.current
    /\ n.state = m.state /\ n.pended_on = m.pended_on /\ n.armed = m.armed
    /\ \A d \in Cpus \ {c} : n.current[d] = m.current[d]

\* The state after next_up and the IPIs.
LEMMA SwapKeeps ==
  ASSUME NEW s \in Kernel, Sound(s), NEW c \in Cpus, c \notin in_isr',
         \A d \in Cpus \ {c} : Rests(s, d, in_isr') /\ Told(s, d, in_isr', ipi),
         NEW r, r = next_up(s, c), NEW n, n = [r EXCEPT !.pending_ipi = {}],
         NEW P, ipi \cup (r.pending_ipi \ {c}) \subseteq P
  PROVE  /\ n \in Kernel /\ Sound(n)
         /\ \A d \in Cpus : Rests(n, d, in_isr') /\ Told(n, d, in_isr', P)
         /\ HaltsThenSwitches(s, n, c)
<1>1. OthersRun(s, c)
  BY DEF OthersRun, Rests
<1>2. PICK m \in Kernel :
        /\ CurrentHalted(s, m, c) /\ Chosen(m, r, c) /\ Sound(r)
        /\ m.current = s.current
        /\ s.pending_ipi \subseteq r.pending_ipi
        /\ \A d \in Cpus \ {c} : AsGood(s, r, d)
  BY <1>1, NextUp
<1>3. /\ r \in Kernel
      /\ r.state = m.state /\ r.prio = m.prio /\ r.pended_on = m.pended_on
      /\ r.armed = m.armed
      /\ \A d \in Cpus \ {c} : r.current[d] = m.current[d]
      /\ r.current[c] # None => z_is_thread_ready(r, r.current[c])
      /\ BestOn(r, c)
  BY <1>2 DEF Chosen
<1>4. n \in Kernel /\ Alike(r, n) /\ n.runq = r.runq /\ n.pending_ipi = {}
  BY <1>3 DEF Kernel, Alike
<1>5. Sound(n) /\ \A d \in Cpus : BestOn(r, d) => BestOn(n, d)
  BY <1>2, <1>3, <1>4, AlikeKeeps
<1>6. /\ n.state = m.state /\ n.pended_on = m.pended_on /\ n.armed = m.armed
      /\ \A d \in Cpus \ {c} : n.current[d] = m.current[d]
      /\ n.current[c] # None => z_is_thread_ready(n, n.current[c])
  BY <1>3, <1>4 DEF Alike, z_is_thread_ready
<1>7. ASSUME NEW d \in Cpus PROVE Told(n, d, in_isr', P)
  <2>1. CASE d = c
    BY <1>3, <1>5, <2>1 DEF Told
  <2>2. CASE d # c
    <3>1. d \in ipi \cup in_isr' \cup s.pending_ipi \/ BestOn(s, d)
      BY <2>2 DEF Told
    <3>2. CASE d \in ipi \cup in_isr' \cup r.pending_ipi
      BY <2>2, <3>2 DEF Told
    <3>3. CASE BestOn(r, d)
      BY <1>5, <3>3 DEF Told
    <3> QED
      BY <1>2, <2>2, <3>1, <3>2, <3>3 DEF AsGood
  <2> QED
    BY <2>1, <2>2
<1>8. ASSUME NEW d \in Cpus PROVE Rests(n, d, in_isr')
  <2>1. CASE d = c
    BY <1>6, <2>1 DEF Rests, z_is_thread_ready, Preventing
  <2>2. CASE d # c /\ n.current[d] # None
    <3> DEFINE v == s.current[d]
    <3>1. n.current[d] = v /\ v # None /\ v \in Threads
      BY <1>2, <1>6, <2>2 DEF Kernel
    <3>2. v # s.current[c]
      BY <2>2, <3>1 DEF Sound, Placed
    <3>3. Rests(s, d, in_isr') /\ "PENDING" \notin s.state[v]
      BY <2>2, <3>1 DEF Rests
    <3> HIDE DEF v
    <3>4. m.state[v] = s.state[v]
      BY <1>2, <3>1, <3>2, <3>3, CurrentHaltedOthers
    <3>5. n.state[v] = s.state[v]
      BY <1>6, <3>4
    <3> QED
      BY <3>1, <3>3, <3>5 DEF Rests, v
  <2>3. CASE n.current[d] = None
    BY <2>3 DEF Rests
  <2> QED
    BY <2>1, <2>2, <2>3
<1>9. HaltsThenSwitches(s, n, c)
  BY <1>2, <1>6 DEF HaltsThenSwitches
<1> QED
  BY <1>4, <1>5, <1>7, <1>8, <1>9

-----------------------------------------------------------------------------
(* Who halts a thread *)

Down == {"DEAD", "SUSPENDED"}
OwnQueues(u) == {<<"join", u>>, <<"halt", u>>}
RunsIn(s, t) == \E d \in Cpus : s.current[d] = t

\* h[t], which t halts, is halted, or t waits for it (or is dead).
Waits(s, h, t) ==
  h[t] # None /\ "DEAD" \notin s.state[t] =>
    \/ s.pended_on[t] \in OwnQueues(h[t])
    \/ s.pended_on[t] = <<>> /\ s.state[h[t]] \cap Down # {}

\* No timeout ends that wait.
Untimed(s, h, f, t) == t \in s.armed \/ t = f => h[t] = None

\* A thread is asked to halt while it runs, and is not halted yet.
Flagged(s, t) ==
  s.state[t] \cap Halting # {} =>
    /\ "DEAD" \notin s.state[t]
    /\ "SUSPENDED" \in s.state[t] => "SUSPENDING" \notin s.state[t]
    /\ RunsIn(s, t)

\* What an interrupt waits for is being aborted, or dead; but the thread may
\* suspend itself and forget that it is to abort.
Spins(s, sp, p, c) ==
  sp[c] # None => /\ "isr abort" \in p
                  /\ "suspend self" \notin p => s.state[sp[c]] \cap {"ABORTING", "DEAD"} # {}

Halts(s, h, f, sp, p) ==
  /\ \A t \in Threads : Waits(s, h, t) /\ Untimed(s, h, f, t) /\ Flagged(s, t)
  /\ \A c \in Cpus : Spins(s, sp, p, c)

\* From s to r, thread t gets no nearer to running, and waits until who it waits
\* for is halted.
StaysDown(s, r, t) ==
  /\ "DEAD" \in s.state[t] => "DEAD" \in r.state[t]
  /\ s.state[t] \cap Down # {} => r.state[t] \cap Down # {}
StaysWaiting(s, r, t) ==
  \/ r.pended_on[t] = s.pended_on[t]
  \/ "DEAD" \in r.state[t]
  \/ /\ r.pended_on[t] = <<>>
     /\ \A u \in Threads : s.pended_on[t] \in OwnQueues(u) => r.state[u] \cap Down # {}
StaysFlagged(s, r, t) ==
  r.state[t] \cap Halting # {} =>
    /\ r.state[t] \cap (Halting \cup Down) \subseteq s.state[t]
    /\ RunsIn(s, t) => RunsIn(r, t)
StaysAborting(s, r, p, t) ==
  "ABORTING" \in s.state[t] /\ "suspend self" \notin p => r.state[t] \cap {"ABORTING", "DEAD"} # {}

Stays(s, r, p, t) ==
  StaysDown(s, r, t) /\ StaysWaiting(s, r, t) /\ StaysFlagged(s, r, t) /\ StaysAborting(s, r, p, t)

Onward(s, r, p) ==
  /\ r.armed \subseteq s.armed
  /\ \A t \in Threads : Stays(s, r, p, t)

\* Such a step keeps the invariant.
LEMMA OnwardKeeps ==
  ASSUME NEW s \in Kernel, NEW r \in Kernel, NEW p, Onward(s, r, p), NEW f,
         NEW h \in [Threads -> Threads \cup {None}], NEW sp \in [Cpus -> Threads \cup {None}],
         Halts(s, h, f, sp, p)
  PROVE  Halts(r, h, f, sp, p)
<1>1. ASSUME NEW t \in Threads PROVE Waits(r, h, t)
  <2> SUFFICES ASSUME h[t] # None, "DEAD" \notin r.state[t]
               PROVE  \/ r.pended_on[t] \in OwnQueues(h[t])
                      \/ r.pended_on[t] = <<>> /\ r.state[h[t]] \cap Down # {}
    BY DEF Waits
  <2>1. h[t] \in Threads
    OBVIOUS
  <2>2. "DEAD" \notin s.state[t] /\ StaysWaiting(s, r, t) /\ StaysDown(s, r, h[t])
    BY <2>1 DEF Onward, Stays, StaysDown
  <2>3. \/ s.pended_on[t] \in OwnQueues(h[t])
        \/ s.pended_on[t] = <<>> /\ s.state[h[t]] \cap Down # {}
    BY <2>2 DEF Halts, Waits
  <2> QED
    BY <2>1, <2>2, <2>3 DEF StaysWaiting, StaysDown
<1>2. ASSUME NEW t \in Threads PROVE Untimed(r, h, f, t)
  BY DEF Onward, Halts, Untimed
<1>3. ASSUME NEW t \in Threads PROVE Flagged(r, t)
  <2> SUFFICES ASSUME r.state[t] \cap Halting # {}
               PROVE  /\ "DEAD" \notin r.state[t]
                      /\ "SUSPENDED" \in r.state[t] => "SUSPENDING" \notin r.state[t]
                      /\ RunsIn(r, t)
    BY DEF Flagged
  <2>1. /\ r.state[t] \cap (Halting \cup Down) \subseteq s.state[t]
        /\ RunsIn(s, t) => RunsIn(r, t)
    BY DEF Onward, Stays, StaysFlagged
  <2>2. Flagged(s, t)
    BY DEF Halts
  <2>3. s.state[t] \cap Halting # {}
    BY <2>1
  <2> QED
    BY <2>1, <2>2, <2>3 DEF Flagged, Halting, Down
<1>4. ASSUME NEW c \in Cpus PROVE Spins(r, sp, p, c)
  <2> SUFFICES ASSUME sp[c] # None
               PROVE  /\ "isr abort" \in p
                      /\ "suspend self" \notin p => r.state[sp[c]] \cap {"ABORTING", "DEAD"} # {}
    BY DEF Spins
  <2>1. sp[c] \in Threads /\ Spins(s, sp, p, c)
    BY DEF Halts
  <2>2. StaysAborting(s, r, p, sp[c]) /\ StaysDown(s, r, sp[c])
    BY <2>1 DEF Onward, Stays
  <2> QED
    BY <2>1, <2>2 DEF Spins, StaysAborting, StaysDown
<1> QED
  BY <1>1, <1>2, <1>3, <1>4 DEF Halts

LEMMA OnwardTwice ==
  ASSUME NEW s \in Kernel, NEW m \in Kernel, NEW r \in Kernel, NEW p,
         Onward(s, m, p), Onward(m, r, p)
  PROVE  Onward(s, r, p)
<1> SUFFICES ASSUME NEW t \in Threads PROVE Stays(s, r, p, t)
  BY DEF Onward
<1>1. Stays(s, m, p, t) /\ Stays(m, r, p, t)
  BY DEF Onward
<1>2. StaysDown(s, r, t)
  BY <1>1 DEF Stays, StaysDown
<1>3. StaysWaiting(s, r, t)
  <2>1. StaysWaiting(s, m, t) /\ StaysWaiting(m, r, t) /\ StaysDown(m, r, t)
    BY <1>1 DEF Stays
  <2>2. \A u \in Threads : StaysDown(m, r, u)
    BY DEF Onward, Stays
  <2>3. CASE r.pended_on[t] = m.pended_on[t]
    BY <2>1, <2>2, <2>3 DEF StaysWaiting, StaysDown
  <2>4. CASE "DEAD" \in r.state[t]
    BY <2>4 DEF StaysWaiting
  <2>5. CASE /\ r.pended_on[t] = <<>>
             /\ \A u \in Threads : m.pended_on[t] \in OwnQueues(u) => r.state[u] \cap Down # {}
    BY <2>1, <2>2, <2>5 DEF StaysWaiting, StaysDown
  <2> QED
    BY <2>1, <2>3, <2>4, <2>5 DEF StaysWaiting
<1>4. StaysFlagged(s, r, t)
  <2> SUFFICES ASSUME r.state[t] \cap Halting # {}
               PROVE  /\ r.state[t] \cap (Halting \cup Down) \subseteq s.state[t]
                      /\ RunsIn(s, t) => RunsIn(r, t)
    BY DEF StaysFlagged
  <2>1. /\ r.state[t] \cap (Halting \cup Down) \subseteq m.state[t]
        /\ RunsIn(m, t) => RunsIn(r, t)
    BY <1>1 DEF Stays, StaysFlagged
  <2>2. m.state[t] \cap Halting # {}
    BY <2>1
  <2>3. /\ m.state[t] \cap (Halting \cup Down) \subseteq s.state[t]
        /\ RunsIn(s, t) => RunsIn(m, t)
    BY <1>1, <2>2 DEF Stays, StaysFlagged
  <2> QED
    BY <2>1, <2>3
<1>5. StaysAborting(s, r, p, t)
  BY <1>1 DEF Stays, StaysAborting, StaysDown
<1> QED
  BY <1>2, <1>3, <1>4, <1>5 DEF Stays

\* Nothing happens to a thread.
LEMMA OnwardAlike ==
  ASSUME NEW s \in Kernel, NEW r \in Kernel, NEW p, r.state = s.state,
         r.pended_on = s.pended_on, r.armed \subseteq s.armed, r.current = s.current
  PROVE  Onward(s, r, p)
<1> SUFFICES ASSUME NEW t \in Threads PROVE Stays(s, r, p, t)
  BY DEF Onward
<1>1. StaysDown(s, r, t) /\ StaysWaiting(s, r, t) /\ StaysAborting(s, r, p, t)
  BY DEF StaysDown, StaysWaiting, StaysAborting
<1>2. StaysFlagged(s, r, t)
  BY DEF StaysFlagged, RunsIn
<1> QED
  BY <1>1, <1>2 DEF Stays

\* A thread is halted.
LEMMA OnwardHalted ==
  ASSUME NEW s \in Kernel, NEW r, NEW p, NEW t \in Threads,
         NEW new_state \in {"DEAD", "SUSPENDED"}, Halted(s, r, t, new_state),
         "ABORTING" \in s.state[t] /\ "suspend self" \notin p => new_state = "DEAD",
         \A d \in Cpus : s.current[d] # t => r.current[d] = s.current[d]
  PROVE  Onward(s, r, p)
<1> DEFINE W == Waiters(s, t, new_state)
           dead == new_state = "DEAD"
<1>1. /\ r \in Kernel
      /\ \A u \in Threads \ {t} :
           /\ r.state[u] = IF u \in W THEN s.state[u] \ {"PENDING"} ELSE s.state[u]
           /\ r.pended_on[u] = IF u \in W THEN <<>> ELSE s.pended_on[u]
      /\ r.state[t] = ((s.state[t] \cup {new_state}) \ Halting)
                        \ (IF dead THEN {"PENDING"} ELSE {})
      /\ r.pended_on[t] = IF dead THEN <<>> ELSE s.pended_on[t]
      /\ r.armed \subseteq s.armed
  BY DEF Halted
<1>2. \A u \in W : s.pended_on[u] \in OwnQueues(t)
  BY DEF Waiters, OwnQueues
<1>3. /\ new_state \in r.state[t] /\ r.state[t] \cap Halting = {}
      /\ \A x \in Down : x \in s.state[t] => x \in r.state[t]
  BY <1>1 DEF Halting, Down
<1> HIDE DEF W
<1>4. ASSUME NEW u \in Threads PROVE Stays(s, r, p, u)
  <2>1. StaysDown(s, r, u)
    <3>1. CASE u = t
      BY <1>3, <3>1 DEF StaysDown, Down
    <3>2. CASE u # t
      BY <1>1, <3>2 DEF StaysDown, Down
    <3> QED
      BY <3>1, <3>2
  <2>2. StaysWaiting(s, r, u)
    <3>1. CASE u = t
      BY <1>1, <1>3, <3>1 DEF StaysWaiting
    <3>2. CASE u # t /\ u \notin W
      BY <1>1, <3>2 DEF StaysWaiting
    <3>3. CASE u # t /\ u \in W
      <4>1. r.pended_on[u] = <<>> /\ s.pended_on[u] \in OwnQueues(t)
        BY <1>1, <1>2, <3>3
      <4>2. \A v : s.pended_on[u] \in OwnQueues(v) => v = t
        <5>1. \A a, b, x, y : <<a, b>> = <<x, y>> => b = y
          OBVIOUS
        <5>2. \A v : s.pended_on[u] \in OwnQueues(v) => \E x : s.pended_on[u] = <<x, v>>
          BY DEF OwnQueues
        <5>3. PICK y : s.pended_on[u] = <<y, t>>
          BY <4>1, <5>2
        <5>4. ASSUME NEW v, s.pended_on[u] \in OwnQueues(v) PROVE v = t
          <6>1. PICK x : s.pended_on[u] = <<x, v>>
            BY <5>2, <5>4
          <6>2. <<x, v>> = <<y, t>>
            BY <5>3, <6>1
          <6> QED
            BY <5>1, <6>2
        <5> QED
          BY <5>4
      <4>3. r.state[t] \cap Down # {}
        BY <1>3 DEF Down
      <4> QED
        BY <4>1, <4>2, <4>3 DEF StaysWaiting
    <3> QED
      BY <3>1, <3>2, <3>3
  <2>3. StaysFlagged(s, r, u)
    <3>1. CASE u = t
      BY <1>3, <3>1 DEF StaysFlagged
    <3>2. CASE u # t
      <4>1. r.state[u] \subseteq s.state[u]
        BY <1>1, <3>2
      <4>2. RunsIn(s, u) => RunsIn(r, u)
        BY <3>2 DEF RunsIn
      <4> QED
        BY <4>1, <4>2 DEF StaysFlagged
    <3> QED
      BY <3>1, <3>2
  <2>4. StaysAborting(s, r, p, u)
    <3>1. CASE u = t
      BY <1>3, <3>1 DEF StaysAborting
    <3>2. CASE u # t
      BY <1>1, <3>2 DEF StaysAborting
    <3> QED
      BY <3>1, <3>2
  <2> QED
    BY <2>1, <2>2, <2>3, <2>4 DEF Stays
<1> QED
  BY <1>1, <1>4 DEF Onward

\* The current thread of CPU c is halted if it is to halt.
LEMMA OnwardCurrentHalted ==
  ASSUME NEW s \in Kernel, NEW m \in Kernel, NEW p, NEW c \in Cpus, CurrentHalted(s, m, c),
         \A d \in Cpus \ {c} : m.current[d] = s.current[d],
         s.current[c] # None => Flagged(s, s.current[c]),
         m = s \/ m.current[c] \in {None, s.current[c]}
  PROVE  /\ Onward(s, m, p)
         /\ s.current[c] # None => m.state[s.current[c]] \cap Halting = {}
<1> DEFINE t == s.current[c]
           new_state == IF "ABORTING" \in s.state[t] THEN "DEAD" ELSE "SUSPENDED"
<1>1. IF is_halting(s, t) /\ new_state \notin s.state[t]
        THEN Halted(s, m, t, new_state) ELSE m = s
  BY DEF CurrentHalted
<1>2. t # None => t \in Threads
  BY DEF Kernel
<1>3. is_halting(s, t) => new_state \notin s.state[t]
  BY DEF is_halting, Flagged, Halting
<1>4. new_state \in {"DEAD", "SUSPENDED"} /\ ("ABORTING" \in s.state[t] => new_state = "DEAD")
  OBVIOUS
<1> HIDE DEF new_state
<1>5. CASE is_halting(s, t)
  <2>1. t \in Threads /\ Halted(s, m, t, new_state)
    BY <1>1, <1>2, <1>3, <1>5 DEF is_halting
  <2>2. m.state[t] \cap Halting = {}
    BY <2>1 DEF Halted
  <2>3. \A d \in Cpus : s.current[d] # t => m.current[d] = s.current[d]
    OBVIOUS
  <2> HIDE DEF t
  <2>4. Onward(s, m, p)
    BY <1>4, <2>1, <2>3, OnwardHalted
  <2> QED
    BY <2>2, <2>4 DEF t
<1>6. CASE ~is_halting(s, t)
  <2>1. m = s
    BY <1>1, <1>6
  <2>2. Onward(s, m, p)
    BY <2>1, OnwardAlike
  <2> QED
    BY <1>6, <2>1, <2>2 DEF is_halting
<1> QED
  BY <1>5, <1>6

\* CPU c switches, after that.
LEMMA OnwardSwitch ==
  ASSUME NEW s \in Kernel, NEW n \in Kernel, NEW p, NEW c \in Cpus, HaltsThenSwitches(s, n, c),
         \A v \in Threads : Flagged(s, v)
  PROVE  Onward(s, n, p)
<1>0. PICK m \in Kernel :
        /\ CurrentHalted(s, m, c) /\ m.current = s.current
        /\ n.state = m.state /\ n.pended_on = m.pended_on /\ n.armed = m.armed
        /\ \A d \in Cpus \ {c} : n.current[d] = m.current[d]
  BY DEF HaltsThenSwitches
<1>1. s.current[c] # None => s.current[c] \in Threads
  BY DEF Kernel
<1>2. /\ Onward(s, m, p)
      /\ s.current[c] # None => m.state[s.current[c]] \cap Halting = {}
  BY <1>0, <1>1, OnwardCurrentHalted
<1>3. ASSUME NEW t \in Threads PROVE Stays(m, n, p, t)
  <2>1. StaysDown(m, n, t) /\ StaysWaiting(m, n, t) /\ StaysAborting(m, n, p, t)
    BY <1>0 DEF StaysDown, StaysWaiting, StaysAborting
  <2>2. StaysFlagged(m, n, t)
    <3>1. t # None
      BY SchedAssumption
    <3>2. CASE t = s.current[c]
      BY <1>0, <1>2, <3>1, <3>2 DEF StaysFlagged
    <3>3. CASE t # s.current[c]
      BY <1>0, <3>3 DEF StaysFlagged, RunsIn
    <3> QED
      BY <3>2, <3>3
  <2> QED
    BY <2>1, <2>2 DEF Stays
<1>4. Onward(m, n, p)
  BY <1>0, <1>3 DEF Onward
<1> QED
  BY <1>2, <1>4, OnwardTwice

-----------------------------------------------------------------------------
(* The inductive invariant *)

SchedTypes ==
  /\ k \in Kernel /\ ipi \subseteq Cpus /\ in_isr \subseteq Cpus
  /\ spin \in [Cpus -> Threads \cup {None}] /\ firing \in Threads \cup {None}
  /\ halting \in [Threads -> Threads \cup {None}] /\ program \in Programs

KernelInv ==
  /\ SchedTypes
  /\ Sound(k)
  /\ \A d \in Cpus : Rests(k, d, in_isr) /\ Told(k, d, in_isr, ipi)
  /\ firing # None => firing \notin k.armed /\ k.state[firing] \cap {"SLEEPING", "PENDING"} # {}

HaltInv == Halts(k, halting, firing, spin, program)

\* No program both resumes threads and has interrupts that abort them: what such
\* an interrupt suspends still is the current thread of its CPU, and to resume it
\* then would queue a thread that runs.
NoResumeOfInterrupted == \A p \in Programs : ~({"resume", "isr abort"} \subseteq p)

LEMMA HaltsEnd ==
  ASSUME SchedTypes, halting' \in [Threads -> Threads \cup {None}], NEW s \in Kernel,
         k' \in Kernel, Onward(s, k', program), Halts(s, halting', firing', spin', program),
         program' = program, spin' \in [Cpus -> Threads \cup {None}]
  PROVE  HaltInv'
<1>1. Halts(k', halting', firing', spin', program)
  BY OnwardKeeps
<1>2. \A t \in Threads : Waits(k, halting, t)' /\ Untimed(k, halting, firing, t)' /\ Flagged(k, t)'
  BY <1>1 DEF Halts, Waits, Untimed, Flagged, RunsIn
<1>3. \A c \in Cpus : Spins(k, spin, program, c)'
  BY <1>1 DEF Halts, Spins
<1> QED
  BY <1>2, <1>3 DEF HaltInv, Halts

LEMMA StepEnds ==
  ASSUME SchedTypes, program' = program, firing' = None,
         k' \in Kernel, Sound(k'), ipi' \subseteq Cpus, in_isr' \subseteq Cpus,
         spin' \in [Cpus -> Threads \cup {None}],
         halting' \in [Threads -> Threads \cup {None}],
         \A d \in Cpus : Rests(k', d, in_isr') /\ Told(k', d, in_isr', ipi')
  PROVE  KernelInv'
<1>1. SchedTypes'
  BY DEF SchedTypes
<1>2. \A d \in Cpus : Rests(k, d, in_isr)'
  BY DEF Rests
<1>3. \A d \in Cpus : Told(k, d, in_isr, ipi)'
  BY DEF Told
<1> QED
  BY <1>1, <1>2, <1>3 DEF KernelInv

\* The thread that makes a call runs, and nowhere else.
LEMMA RunningFacts ==
  ASSUME KernelInv, firing = None, NEW c \in Cpus, NEW t \in Threads, NEW op, Running(c, t, op)
  PROVE  /\ op \in program /\ program' = program /\ firing' = None /\ spin' = spin
         /\ in_isr' = in_isr /\ c \notin in_isr
         /\ k.current[c] = t /\ z_is_thread_ready(k, t) /\ ~Queued(k, t)
         /\ \A d \in Cpus \ {c} : k.current[d] # t
<1>1. /\ op \in program /\ program' = program /\ firing' = None /\ spin' = spin
      /\ in_isr' = in_isr /\ c \notin in_isr
      /\ k.current[c] = t /\ t # None
  BY DEF Running
<1>2. Rests(k, c, in_isr) /\ Placed(k)
  BY DEF KernelInv, Sound
<1>3. z_is_thread_ready(k, t)
  BY <1>1, <1>2 DEF Rests, z_is_thread_ready, Preventing
<1>4. ~Queued(k, t) /\ \A d \in Cpus \ {c} : k.current[d] # t
  BY <1>1, <1>2 DEF Placed
<1> QED
  BY <1>1, <1>3, <1>4

\* A call of thread t that ends with next_up and IPIs, some to the CPUs of X.
LEMMA NextUpEnds ==
  ASSUME KernelInv, firing = None, NEW c \in Cpus, NEW t \in Threads, NEW op, Running(c, t, op),
         NEW s \in Kernel, Sound(s),
         \A d \in Cpus \ {c} : Rests(s, d, in_isr) /\ Told(s, d, in_isr, ipi),
         NEW r, r = next_up(s, c), NEW X \in SUBSET Cpus,
         k' = [r EXCEPT !.pending_ipi = {}],
         ipi' = ipi \cup (r.pending_ipi \ {c}) \cup X,
         halting' \in [Threads -> Threads \cup {None}]
  PROVE  KernelInv' /\ (Halts(s, halting', None, spin, program) => HaltInv')
<1>1. SchedTypes
  BY DEF KernelInv
<1>2. /\ program' = program /\ firing' = None /\ spin' = spin
      /\ in_isr' = in_isr /\ c \notin in_isr
  BY RunningFacts
<1>4. \A d \in Cpus \ {c} : Rests(s, d, in_isr') /\ Told(s, d, in_isr', ipi)
  BY <1>2
<1>5. /\ k' \in Kernel /\ Sound(k')
      /\ \A d \in Cpus : Rests(k', d, in_isr') /\ Told(k', d, in_isr', ipi')
      /\ HaltsThenSwitches(s, k', c)
  <2>1. ipi \cup (r.pending_ipi \ {c}) \subseteq ipi'
    OBVIOUS
  <2> QED
    BY <1>2, <1>4, <2>1, SwapKeeps
<1>6. ipi' \subseteq Cpus
  <2>1. OthersRun(s, c)
    BY <1>4 DEF OthersRun, Rests
  <2>2. r \in Kernel
    BY <1>2, <2>1, NextUp DEF Chosen
  <2> QED
    BY <1>1, <2>2 DEF Kernel, SchedTypes
<1>7. KernelInv'
  BY <1>1, <1>2, <1>5, <1>6, StepEnds DEF SchedTypes
<1>8. ASSUME Halts(s, halting', None, spin, program) PROVE HaltInv'
  <2>1. \A v \in Threads : Flagged(s, v)
    BY <1>8 DEF Halts
  <2>2. Onward(s, k', program)
    BY <1>5, <2>1, OnwardSwitch
  <2> QED
    BY <1>1, <1>2, <1>5, <1>8, <2>2, HaltsEnd DEF SchedTypes
<1> QED
  BY <1>7, <1>8

\* A call of thread t that ends with z_swap.
LEMMA SwapEnds ==
  ASSUME KernelInv, firing = None, NEW c \in Cpus, NEW t \in Threads, NEW op, Running(c, t, op),
         NEW s \in Kernel, Sound(s),
         \A d \in Cpus \ {c} : Rests(s, d, in_isr) /\ Told(s, d, in_isr, ipi),
         z_swap(s, c), halting' \in [Threads -> Threads \cup {None}]
  PROVE  KernelInv' /\ (Halts(s, halting', None, spin, program) => HaltInv')
<1>1. PICK r : r = next_up(s, c)
  OBVIOUS
<1>2. /\ k' = [r EXCEPT !.pending_ipi = {}]
      /\ ipi' = ipi \cup (r.pending_ipi \ {c}) \cup {}
  BY <1>1 DEF z_swap, signal_pending_ipi
<1>3. PICK X \in SUBSET Cpus : X = {}
  OBVIOUS
<1>4. ipi' = ipi \cup (r.pending_ipi \ {c}) \cup X
  BY <1>2, <1>3
<1> QED
  BY <1>1, <1>2, <1>4, NextUpEnds

LEMMA RestsLike ==
  ASSUME NEW s, NEW r, NEW d, NEW I, Rests(r, d, I), s.current[d] = r.current[d],
         s.current[d] # None =>
           s.state[s.current[d]] \cap Preventing \subseteq r.state[s.current[d]]
  PROVE  Rests(s, d, I)
BY DEF Rests, Preventing

\* What a call does that blocks no thread but its own.
LEMMA SelfBlock ==
  ASSUME KernelInv, firing = None, NEW c \in Cpus, NEW t \in Threads, NEW op, Running(c, t, op),
         NEW s \in Kernel, Waiting(s),
         s.runq = k.runq, s.prio = k.prio, s.current = k.current,
         s.pending_ipi = k.pending_ipi,
         \A v \in Threads \ {t} : s.state[v] \cap Preventing = k.state[v] \cap Preventing,
         k.state[t] \subseteq s.state[t]
  PROVE  /\ Sound(s)
         /\ \A d \in Cpus \ {c} : Rests(s, d, in_isr) /\ Told(s, d, in_isr, ipi)
<1>1. /\ k.current[c] = t /\ z_is_thread_ready(k, t) /\ ~Queued(k, t)
      /\ \A d \in Cpus \ {c} : k.current[d] # t
  BY RunningFacts
<1>2. /\ k \in Kernel /\ Placed(k) /\ \A v \in Threads : Found(k, v)
      /\ \A d \in Cpus : Rests(k, d, in_isr) /\ Told(k, d, in_isr, ipi)
  BY DEF KernelInv, SchedTypes, Sound
<1>3. \A v \in Threads : z_is_thread_ready(s, v) => z_is_thread_ready(k, v)
  BY DEF z_is_thread_ready
<1>4. \A v \in Threads : Queued(k, v) => z_is_thread_ready(s, v)
  BY <1>1, <1>2 DEF Placed, z_is_thread_ready
<1>5. Sound(s)
  BY <1>2, <1>3, <1>4, BlockKeeps DEF Sound
<1>6. ASSUME NEW d \in Cpus \ {c} PROVE Rests(s, d, in_isr)
  <2>1. k.current[d] # t /\ k.current[d] \in Threads \cup {None}
    BY <1>1, <1>2 DEF Kernel
  <2>2. s.current[d] # None =>
           s.state[s.current[d]] \cap Preventing \subseteq k.state[s.current[d]]
    BY <2>1
  <2> QED
    BY <1>2, <2>2, RestsLike
<1>7. ASSUME NEW d \in Cpus \ {c} PROVE Told(s, d, in_isr, ipi)
  BY <1>2 DEF Told, BestOn, NotWorse, Queued
<1> QED
  BY <1>5, <1>6, <1>7

-----------------------------------------------------------------------------
(* The calls *)

LEMMA HaltingTyped ==
  ASSUME SchedTypes, NEW t \in Threads, NothingHalted(t)
  PROVE  halting' \in [Threads -> Threads \cup {None}]
BY DEF SchedTypes, NothingHalted

\* What a call does that halts nobody.
LEMMA HaltsNobody ==
  ASSUME KernelInv, HaltInv, NEW s \in Kernel, s.current = k.current,
         NEW h \in [Threads -> Threads \cup {None}],
         \A v \in Threads :
           /\ s.state[v] \cap (Halting \cup {"DEAD"}) = k.state[v] \cap (Halting \cup {"DEAD"})
           /\ "SUSPENDED" \in s.state[v] => "SUSPENDED" \in k.state[v],
         \A v \in Threads :
           h[v] # None => /\ h[v] = halting[v] /\ s.pended_on[v] = k.pended_on[v]
                          /\ v \in s.armed => v \in k.armed
                          /\ "SUSPENDED" \in k.state[h[v]] => "SUSPENDED" \in s.state[h[v]]
  PROVE  Halts(s, h, None, spin, program)
<1>1. /\ \A t \in Threads : Waits(k, halting, t) /\ Untimed(k, halting, firing, t) /\ Flagged(k, t)
      /\ \A c \in Cpus : Spins(k, spin, program, c)
      /\ spin \in [Cpus -> Threads \cup {None}]
  BY DEF HaltInv, Halts, KernelInv, SchedTypes
<1>2. \A v \in Threads : /\ "DEAD" \in s.state[v] <=> "DEAD" \in k.state[v]
                         /\ "ABORTING" \in s.state[v] <=> "ABORTING" \in k.state[v]
                         /\ "SUSPENDING" \in s.state[v] <=> "SUSPENDING" \in k.state[v]
                         /\ s.state[v] \cap Halting = k.state[v] \cap Halting
  BY DEF Halting
<1>3. ASSUME NEW t \in Threads PROVE Waits(s, h, t)
  <2>1. h[t] # None => h[t] \in Threads
    OBVIOUS
  <2> QED
    BY <1>1, <1>2, <2>1 DEF Waits, Down
<1>4. ASSUME NEW t \in Threads PROVE Untimed(s, h, None, t)
  BY <1>1, SchedAssumption DEF Untimed
<1>5. ASSUME NEW t \in Threads PROVE Flagged(s, t)
  BY <1>1, <1>2 DEF Flagged, RunsIn
<1>6. ASSUME NEW c \in Cpus PROVE Spins(s, spin, program, c)
  <2>1. spin[c] # None =>
          (s.state[spin[c]] \cap {"ABORTING", "DEAD"} = k.state[spin[c]] \cap {"ABORTING", "DEAD"})
    BY <1>1, <1>2
  <2>2. Spins(k, spin, program, c)
    BY <1>1
  <2> QED
    BY <2>1, <2>2 DEF Spins
<1> QED
  BY <1>3, <1>4, <1>5, <1>6 DEF Halts

LEMMA NothingHaltedBy ==
  ASSUME SchedTypes, NEW t \in Threads, NothingHalted(t), NEW v \in Threads, halting'[v] # None
  PROVE  v # t /\ halting'[v] = halting[v]
BY DEF SchedTypes, NothingHalted

LEMMA YieldKeeps ==
  ASSUME KernelInv, firing = None, NEW c \in Cpus, NEW t \in Threads, k_yield(c, t)
  PROVE  KernelInv' /\ (HaltInv => HaltInv')
<1> DEFINE s == [k EXCEPT !.swap_ok[c] = TRUE]
<1>1. Running(c, t, "yield") /\ z_swap(s, c) /\ NothingHalted(t)
  BY DEF k_yield
<1>2. k \in Kernel /\ Waiting(k) /\ SchedTypes
  BY DEF KernelInv, SchedTypes, Sound
<1>3. s \in Kernel /\ Alike(k, s) /\ s.runq = k.runq /\ s.pending_ipi = k.pending_ipi
  <2> DEFINE sw == [k.swap_ok EXCEPT ![c] = TRUE]
  <2>1. sw \in [Cpus -> BOOLEAN] /\ s = [k EXCEPT !.swap_ok = sw]
    BY <1>2 DEF Kernel
  <2> HIDE DEF sw, s
  <2> QED
    BY <1>2, <2>1 DEF Kernel, Alike
<1> HIDE DEF s
<1>4. Waiting(s)
  BY <1>2, <1>3 DEF Waiting, Alike, NotOwnQueue
<1>5. /\ Sound(s)
      /\ \A d \in Cpus \ {c} : Rests(s, d, in_isr) /\ Told(s, d, in_isr, ipi)
  BY <1>1, <1>3, <1>4, SelfBlock DEF Alike
<1>6. HaltInv => Halts(s, halting', None, spin, program)
  BY <1>1, <1>2, <1>3, HaltsNobody, NothingHaltedBy, HaltingTyped DEF Alike
<1> QED
  BY <1>1, <1>2, <1>3, <1>5, <1>6, SwapEnds, HaltingTyped

LEMMA SleepKeeps ==
  ASSUME KernelInv, firing = None, NEW c \in Cpus, NEW t \in Threads, k_sleep(c, t)
  PROVE  KernelInv' /\ (HaltInv => HaltInv')
<1> DEFINE st == [k.state EXCEPT ![t] = @ \cup {"SLEEPING"}]
           s == [k EXCEPT !.state = st, !.armed = @ \cup {t}]
<1>1. Running(c, t, "sleep") /\ z_swap(s, c) /\ NothingHalted(t)
  BY DEF k_sleep
<1>2. k \in Kernel /\ Waiting(k) /\ SchedTypes
  BY DEF KernelInv, SchedTypes, Sound
<1>3. /\ st \in [Threads -> States]
      /\ \A v \in Threads : st[v] = IF v = t THEN k.state[v] \cup {"SLEEPING"} ELSE k.state[v]
  BY <1>2 DEF Kernel, States, Preventing
<1> HIDE DEF st
<1>4. /\ s \in Kernel /\ s.runq = k.runq /\ s.prio = k.prio /\ s.current = k.current
      /\ s.pending_ipi = k.pending_ipi /\ s.pended_on = k.pended_on
      /\ s.state = st /\ s.armed = k.armed \cup {t}
  BY <1>2, <1>3 DEF Kernel
<1> HIDE DEF s
<1>5. Waiting(s)
  <2>1. \A v \in Threads : s.pended_on[v] # <<>> <=> "PENDING" \in s.state[v]
    BY <1>2, <1>3, <1>4 DEF Waiting
  <2>2. \A v \in Threads : NotOwnQueue(s, v)
    BY <1>2, <1>4 DEF Waiting, NotOwnQueue
  <2>3. ASSUME NEW v \in s.armed PROVE s.state[v] \cap {"SLEEPING", "PENDING"} # {}
    <3>1. v \in Threads
      BY <1>4 DEF Kernel
    <3>2. CASE v = t
      BY <1>3, <1>4, <3>2
    <3>3. CASE v # t
      <4>1. k.state[v] \cap {"SLEEPING", "PENDING"} # {}
        BY <1>2, <1>4, <3>3 DEF Waiting
      <4> QED
        BY <1>3, <1>4, <3>1, <3>3, <4>1
    <3> QED
      BY <3>2, <3>3
  <2> QED
    BY <2>1, <2>2, <2>3 DEF Waiting
<1>6. /\ Sound(s)
      /\ \A d \in Cpus \ {c} : Rests(s, d, in_isr) /\ Told(s, d, in_isr, ipi)
  BY <1>1, <1>3, <1>4, <1>5, SelfBlock
<1>7. HaltInv => Halts(s, halting', None, spin, program)
  <2>1. halting' \in [Threads -> Threads \cup {None}]
    BY <1>1, <1>2, HaltingTyped
  <2>2. \A v \in Threads :
          /\ s.state[v] \cap (Halting \cup {"DEAD"}) = k.state[v] \cap (Halting \cup {"DEAD"})
          /\ "SUSPENDED" \in s.state[v] <=> "SUSPENDED" \in k.state[v]
    BY <1>3, <1>4 DEF Halting
  <2>3. ASSUME NEW v \in Threads, halting'[v] # None
        PROVE  /\ halting'[v] = halting[v] /\ s.pended_on[v] = k.pended_on[v]
               /\ v \in s.armed => v \in k.armed
    BY <1>1, <1>2, <1>4, <2>3, NothingHaltedBy
  <2> QED
    BY <1>4, <2>1, <2>2, <2>3, HaltsNobody
<1> QED
  BY <1>1, <1>2, <1>4, <1>6, <1>7, SwapEnds, HaltingTyped

\* r is s with t waiting in queue q.
PendedOn(s, r, t, q) ==
  /\ r \in Kernel /\ Waiting(r)
  /\ r = [s EXCEPT !.state = r.state, !.pended_on = r.pended_on]
  /\ \A v \in Threads :
       /\ r.state[v] = IF v = t THEN s.state[v] \cup {"PENDING"} ELSE s.state[v]
       /\ r.pended_on[v] = IF v = t THEN q ELSE s.pended_on[v]

\* A thread may wait in the queues of another thread.
LEMMA PendedFields ==
  ASSUME NEW s \in Kernel, Waiting(s), NEW t \in Threads, NEW u \in Threads, u # t,
         NEW q \in {<<"join", u>>, <<"halt", u>>}
  PROVE  PendedOn(s, Pended(s, t, q), t, q)
<1> DEFINE st == [s.state EXCEPT ![t] = @ \cup {"PENDING"}]
           po == [s.pended_on EXCEPT ![t] = q]
           r == Pended(s, t, q)
<1>1. r = [s EXCEPT !.state = st, !.pended_on = po]
  BY DEF Pended
<1>2. q \in WaitQueues
  BY DEF WaitQueues
<1>3. st \in [Threads -> States] /\ po \in [Threads -> WaitQueues]
  BY <1>2 DEF Kernel, States, Preventing
<1>4. \A v \in Threads :
        /\ st[v] = IF v = t THEN s.state[v] \cup {"PENDING"} ELSE s.state[v]
        /\ po[v] = IF v = t THEN q ELSE s.pended_on[v]
  BY DEF Kernel
<1> HIDE DEF st, po, r
<1>5. r \in Kernel /\ r.state = st /\ r.pended_on = po /\ r.armed = s.armed
  BY <1>1, <1>3 DEF Kernel
<1>6. q # <<>> /\ q \notin {<<"join", t>>, <<"halt", t>>}
  <2>1. \A a, b, x, y : <<a, b>> = <<x, y>> => b = y
    OBVIOUS
  <2>2. <<>> # <<"join", u>> /\ <<>> # <<"halt", u>>
    OBVIOUS
  <2> QED
    BY <2>1, <2>2
<1>7. Waiting(r)
  <2>1. ASSUME NEW v \in Threads PROVE r.pended_on[v] # <<>> <=> "PENDING" \in r.state[v]
    BY <1>4, <1>5, <1>6 DEF Waiting
  <2>2. ASSUME NEW v \in Threads PROVE NotOwnQueue(r, v)
    BY <1>4, <1>5, <1>6 DEF Waiting, NotOwnQueue
  <2>3. ASSUME NEW v \in r.armed PROVE r.state[v] \cap {"SLEEPING", "PENDING"} # {}
    BY <1>4, <1>5 DEF Waiting, Kernel
  <2> QED
    BY <2>1, <2>2, <2>3 DEF Waiting
<1> QED
  BY <1>1, <1>4, <1>5, <1>7 DEF PendedOn, r

LEMMA JoinKeeps ==
  ASSUME KernelInv, firing = None, NEW c \in Cpus, NEW t \in Threads, NEW u \in Threads,
         NEW timeout \in BOOLEAN, k_thread_join(c, t, u, timeout)
  PROVE  KernelInv' /\ (HaltInv => HaltInv')
<1> DEFINE p == Pended(k, t, <<"join", u>>)
           ar == IF timeout THEN p.armed \cup {t} ELSE p.armed
           s == [p EXCEPT !.armed = ar]
<1>1. Running(c, t, "join") /\ z_swap(s, c) /\ NothingHalted(t) /\ u # t
  BY DEF k_thread_join
<1>2. k \in Kernel /\ Waiting(k) /\ SchedTypes
  BY DEF KernelInv, SchedTypes, Sound
<1>3. /\ p \in Kernel /\ Waiting(p)
      /\ p = [k EXCEPT !.state = p.state, !.pended_on = p.pended_on]
      /\ \A v \in Threads :
           /\ p.state[v] = IF v = t THEN k.state[v] \cup {"PENDING"} ELSE k.state[v]
           /\ p.pended_on[v] = IF v = t THEN <<"join", u>> ELSE k.pended_on[v]
  <2>1. PendedOn(k, p, t, <<"join", u>>)
    BY <1>1, <1>2, PendedFields
  <2> HIDE DEF p
  <2> QED
    BY <2>1 DEF PendedOn
<1> HIDE DEF p
<1>4. ar \subseteq p.armed \cup {t} /\ ar \subseteq Threads
  BY <1>3 DEF Kernel
<1> HIDE DEF ar
<1>5. /\ s \in Kernel /\ s.runq = k.runq /\ s.prio = k.prio /\ s.current = k.current
      /\ s.pending_ipi = k.pending_ipi /\ s.pended_on = p.pended_on
      /\ s.state = p.state /\ s.armed = ar
  BY <1>2, <1>3, <1>4 DEF Kernel
<1> HIDE DEF s
<1>6. Waiting(s)
  BY <1>3, <1>4, <1>5 DEF Waiting, NotOwnQueue
<1>7. /\ \A v \in Threads \ {t} : s.state[v] \cap Preventing = k.state[v] \cap Preventing
      /\ k.state[t] \subseteq s.state[t]
  BY <1>3, <1>5
<1>8. /\ Sound(s)
      /\ \A d \in Cpus \ {c} : Rests(s, d, in_isr) /\ Told(s, d, in_isr, ipi)
  BY <1>1, <1>5, <1>6, <1>7, SelfBlock
<1>9. HaltInv => Halts(s, halting', None, spin, program)
  <2>1. halting' \in [Threads -> Threads \cup {None}]
    BY <1>1, <1>2, HaltingTyped
  <2>2. \A v \in Threads :
          /\ s.state[v] \cap (Halting \cup {"DEAD"}) = k.state[v] \cap (Halting \cup {"DEAD"})
          /\ "SUSPENDED" \in s.state[v] <=> "SUSPENDED" \in k.state[v]
    <3>1. \A v \in Threads :
            s.state[v] = IF v = t THEN k.state[v] \cup {"PENDING"} ELSE k.state[v]
      BY <1>3, <1>5
    <3>2. ASSUME NEW v \in Threads
          PROVE  /\ s.state[v] \cap (Halting \cup {"DEAD"}) = k.state[v] \cap (Halting \cup {"DEAD"})
                 /\ "SUSPENDED" \in s.state[v] <=> "SUSPENDED" \in k.state[v]
      <4>1. s.state[v] \in {k.state[v], k.state[v] \cup {"PENDING"}}
        BY <3>1
      <4> QED
        BY <4>1 DEF Halting
    <3> QED
      BY <3>2
  <2>3. p.armed = k.armed
    BY <1>2, <1>3 DEF Kernel
  <2>4. ASSUME NEW v \in Threads, halting'[v] # None
        PROVE  /\ halting'[v] = halting[v] /\ s.pended_on[v] = k.pended_on[v]
               /\ v \in s.armed => v \in k.armed
    <3>1. v # t /\ halting'[v] = halting[v]
      BY <1>1, <1>2, <2>4, NothingHaltedBy
    <3> QED
      BY <1>3, <1>4, <1>5, <2>3, <3>1
  <2> QED
    BY <1>5, <2>1, <2>2, <2>4, HaltsNobody
<1> QED
  BY <1>1, <1>2, <1>5, <1>8, <1>9, SwapEnds, HaltingTyped

\* m is s but for the state, the queue and the timeout of a thread u that neither
\* runs nor is in the run queue.
Unblocks(s, m, u) ==
  /\ m \in Kernel /\ Waiting(m)
  /\ m.runq = s.runq /\ m.prio = s.prio /\ m.current = s.current
  /\ m.pending_ipi = s.pending_ipi
  /\ \A v \in Threads \ {u} : m.state[v] = s.state[v]
  /\ \A d \in Cpus : s.current[d] # u
  /\ ~Queued(s, u)

\* Such a thread is readied.
LEMMA UnblockKeeps ==
  ASSUME NEW s \in Kernel, Sound(s), NEW u \in Threads, NEW m, Unblocks(s, m, u),
         NEW c \in Cpus, NEW r, r = ready_thread(m, c, u)
  PROVE  /\ r \in Kernel /\ Sound(r) /\ Alike(m, r)
         /\ s.pending_ipi \subseteq r.pending_ipi
         /\ \A d \in Cpus : AsGood(s, r, d)
         /\ \A d \in Cpus : r.current[d] = s.current[d]
         /\ \A v \in Threads \ {u} : r.state[v] = s.state[v]
<1>1. /\ m \in Kernel /\ Waiting(m)
      /\ m.runq = s.runq /\ m.prio = s.prio /\ m.current = s.current
      /\ m.pending_ipi = s.pending_ipi
      /\ \A v \in Threads \ {u} : m.state[v] = s.state[v]
      /\ \A d \in Cpus : s.current[d] # u
      /\ ~Queued(s, u)
  BY DEF Unblocks
<1>2. \A v : Queued(m, v) <=> Queued(s, v)
  BY <1>1 DEF Queued
<1>3. \A v \in Threads \ {u} : z_is_thread_ready(m, v) <=> z_is_thread_ready(s, v)
  BY <1>1 DEF z_is_thread_ready
<1>4. WellQueued(m)
  BY <1>1 DEF WellQueued, Sound, Placed
<1>5. Placed(m)
  <2>1. \A v \in Threads : Queued(m, v) => z_is_thread_ready(m, v)
    BY <1>1, <1>2, <1>3 DEF Sound, Placed
  <2> QED
    BY <1>1, <1>2, <1>4, <2>1 DEF Sound, Placed
<1>6. \A v \in Threads \ {u} : Found(m, v)
  BY <1>1, <1>2, <1>3 DEF Sound, Found
<1>7. \A d \in Cpus : m.current[d] # u
  BY <1>1
<1>8. /\ r \in Kernel /\ Sound(r) /\ Alike(m, r)
      /\ m.pending_ipi \subseteq r.pending_ipi
      /\ \A d \in Cpus : AsGood(m, r, d)
  BY <1>1, <1>5, <1>6, <1>7, ReadyKeeps
<1>9. \A d \in Cpus : AsGood(s, r, d)
  <2>1. \A d \in Cpus : BestOn(s, d) => BestOn(m, d)
    BY <1>1, <1>2 DEF BestOn, NotWorse
  <2> QED
    BY <1>8, <2>1 DEF AsGood
<1> QED
  BY <1>1, <1>8, <1>9 DEF Alike

\* A call of thread t that ends with z_reschedule.
LEMMA RescheduleEnds ==
  ASSUME KernelInv, firing = None, NEW c \in Cpus, NEW t \in Threads, NEW op, Running(c, t, op),
         NEW r \in Kernel, Sound(r),
         \A d \in Cpus \ {c} : Rests(r, d, in_isr) /\ Told(r, d, in_isr, ipi),
         z_reschedule(r, c), halting' \in [Threads -> Threads \cup {None}]
  PROVE  KernelInv' /\ (Halts(r, halting', None, spin, program) => HaltInv')
<1> DEFINE s == [r EXCEPT !.swap_ok[c] = FALSE]
<1>1. z_swap(s, c)
  BY DEF z_reschedule
<1>2. s \in Kernel /\ Alike(r, s) /\ s.runq = r.runq /\ s.pending_ipi = r.pending_ipi
  <2> DEFINE sw == [r.swap_ok EXCEPT ![c] = FALSE]
  <2>1. sw \in [Cpus -> BOOLEAN] /\ s = [r EXCEPT !.swap_ok = sw]
    BY DEF Kernel
  <2> HIDE DEF sw, s
  <2> QED
    BY <2>1 DEF Kernel, Alike
<1> HIDE DEF s
<1>3. Sound(s) /\ \A d \in Cpus : BestOn(r, d) => BestOn(s, d)
  BY <1>2, AlikeKeeps
<1>4. \A d \in Cpus \ {c} : Rests(s, d, in_isr) /\ Told(s, d, in_isr, ipi)
  BY <1>2, <1>3 DEF Rests, Told, Alike
<1>5. KernelInv' /\ (Halts(s, halting', None, spin, program) => HaltInv')
  BY <1>1, <1>2, <1>3, <1>4, SwapEnds
<1>6. Halts(r, halting', None, spin, program) => Halts(s, halting', None, spin, program)
  <2>1. spin \in [Cpus -> Threads \cup {None}]
    BY DEF KernelInv, SchedTypes
  <2>2. Onward(r, s, program)
    BY <1>2, OnwardAlike DEF Alike
  <2> QED
    BY <1>2, <2>1, <2>2, OnwardKeeps
<1> QED
  BY <1>5, <1>6

\* A call that readies a thread and reschedules.
LEMMA ReadyEnds ==
  ASSUME KernelInv, firing = None, NEW c \in Cpus, NEW t \in Threads, NEW op, Running(c, t, op),
         NEW u \in Threads, NEW m, Unblocks(k, m, u),
         z_reschedule(ready_thread(m, c, u), c), halting' \in [Threads -> Threads \cup {None}]
  PROVE  KernelInv' /\ (Halts(m, halting', None, spin, program) => HaltInv')
<1> DEFINE r == ready_thread(m, c, u)
<1>1. /\ k \in Kernel /\ Sound(k)
      /\ \A d \in Cpus : Rests(k, d, in_isr) /\ Told(k, d, in_isr, ipi)
  BY DEF KernelInv, SchedTypes
<1>2. /\ r \in Kernel /\ Sound(r) /\ Alike(m, r)
      /\ k.pending_ipi \subseteq r.pending_ipi
      /\ \A d \in Cpus : AsGood(k, r, d)
      /\ \A d \in Cpus : r.current[d] = k.current[d]
      /\ \A v \in Threads \ {u} : r.state[v] = k.state[v]
  BY <1>1, UnblockKeeps
<1>3. z_reschedule(r, c)
  OBVIOUS
<1> HIDE DEF r
<1>4. \A d \in Cpus \ {c} : Told(r, d, in_isr, ipi)
  BY <1>1, <1>2 DEF Told, AsGood
<1>5. ASSUME NEW d \in Cpus \ {c} PROVE Rests(r, d, in_isr)
  <2>1. k.current[d] # u /\ k.current[d] \in Threads \cup {None}
    BY <1>1 DEF Unblocks, Kernel
  <2>2. r.current[d] # None => r.state[r.current[d]] = k.state[r.current[d]]
    BY <1>2, <2>1
  <2> QED
    BY <1>1, <1>2, <2>2, RestsLike
<1>6. KernelInv' /\ (Halts(r, halting', None, spin, program) => HaltInv')
  BY <1>2, <1>3, <1>4, <1>5, RescheduleEnds
<1>7. Halts(m, halting', None, spin, program) => Halts(r, halting', None, spin, program)
  <2>1. spin \in [Cpus -> Threads \cup {None}] /\ m \in Kernel
    BY DEF KernelInv, SchedTypes, Unblocks
  <2>2. Onward(m, r, program)
    BY <1>2, <2>1, OnwardAlike DEF Alike
  <2> QED
    BY <1>2, <2>1, <2>2, OnwardKeeps
<1> QED
  BY <1>6, <1>7

LEMMA WakeupKeeps ==
  ASSUME KernelInv, firing = None, NEW c \in Cpus, NEW t \in Threads, NEW u \in Threads,
         k_wakeup(c, t, u)
  PROVE  KernelInv' /\ (HaltInv => HaltInv')
<1> DEFINE st == [k.state EXCEPT ![u] = @ \ {"SLEEPING"}]
           m == [k EXCEPT !.armed = @ \ {u}, !.state = st]
<1>1. /\ Running(c, t, "wakeup") /\ "SLEEPING" \in k.state[u]
      /\ z_reschedule(ready_thread(m, c, u), c) /\ NothingHalted(t)
  BY DEF k_wakeup
<1>2. /\ k \in Kernel /\ SchedTypes /\ Waiting(k) /\ Placed(k)
      /\ \A d \in Cpus : Rests(k, d, in_isr)
  BY DEF KernelInv, SchedTypes, Sound
<1>3. /\ st \in [Threads -> States]
      /\ \A v \in Threads : st[v] = IF v = u THEN k.state[v] \ {"SLEEPING"} ELSE k.state[v]
  BY <1>2 DEF Kernel, States
<1> HIDE DEF st
<1>4. /\ m \in Kernel /\ m.runq = k.runq /\ m.prio = k.prio /\ m.current = k.current
      /\ m.pending_ipi = k.pending_ipi /\ m.pended_on = k.pended_on
      /\ m.state = st /\ m.armed = k.armed \ {u}
  BY <1>2, <1>3 DEF Kernel
<1> HIDE DEF m
<1>5. Waiting(m)
  <2>1. \A v \in Threads : m.pended_on[v] # <<>> <=> "PENDING" \in m.state[v]
    BY <1>2, <1>3, <1>4 DEF Waiting
  <2>2. \A v \in Threads : NotOwnQueue(m, v)
    BY <1>2, <1>4 DEF Waiting, NotOwnQueue
  <2>3. \A v \in m.armed : m.state[v] \cap {"SLEEPING", "PENDING"} # {}
    BY <1>2, <1>3, <1>4 DEF Waiting, Kernel
  <2> QED
    BY <2>1, <2>2, <2>3 DEF Waiting
<1>6. ~z_is_thread_ready(k, u)
  BY <1>1 DEF z_is_thread_ready, Preventing
<1>7. ~Queued(k, u)
  BY <1>2, <1>6 DEF Placed
<1>8. \A d \in Cpus : k.current[d] # u
  <2>1. u # None
    BY SchedAssumption
  <2> QED
    BY <1>1, <1>2, <2>1 DEF Rests
<1>9. Unblocks(k, m, u)
  BY <1>3, <1>4, <1>5, <1>7, <1>8 DEF Unblocks
<1>10. HaltInv => Halts(m, halting', None, spin, program)
  <2>1. halting' \in [Threads -> Threads \cup {None}]
    BY <1>1, <1>2, HaltingTyped
  <2>2. \A v \in Threads :
          /\ m.state[v] \cap (Halting \cup {"DEAD"}) = k.state[v] \cap (Halting \cup {"DEAD"})
          /\ "SUSPENDED" \in m.state[v] <=> "SUSPENDED" \in k.state[v]
    BY <1>3, <1>4 DEF Halting
  <2>3. ASSUME NEW v \in Threads, halting'[v] # None
        PROVE  /\ halting'[v] = halting[v] /\ m.pended_on[v] = k.pended_on[v]
               /\ v \in m.armed => v \in k.armed
    BY <1>1, <1>2, <1>4, <2>3, NothingHaltedBy
  <2> QED
    BY <1>4, <2>1, <2>2, <2>3, HaltsNobody
<1> QED
  BY <1>1, <1>2, <1>9, <1>10, ReadyEnds, HaltingTyped

LEMMA ResumeKeeps ==
  ASSUME NoResumeOfInterrupted,
         KernelInv, firing = None, NEW c \in Cpus, NEW t \in Threads, NEW u \in Threads,
         k_thread_resume(c, t, u)
  PROVE  KernelInv' /\ (HaltInv => HaltInv')
<1> DEFINE st == [k.state EXCEPT ![u] = @ \ {"SUSPENDED"}]
           m == [k EXCEPT !.state = st]
<1>1. /\ Running(c, t, "resume") /\ "SUSPENDED" \in k.state[u]
      /\ z_reschedule(ready_thread(m, c, u), c)
      /\ halting' = [v \in Threads |-> IF v = t \/ halting[v] = u THEN None ELSE halting[v]]
  BY DEF k_thread_resume
<1>2. /\ k \in Kernel /\ SchedTypes /\ Waiting(k) /\ Placed(k)
      /\ \A d \in Cpus : Rests(k, d, in_isr)
  BY DEF KernelInv, SchedTypes, Sound
<1>3. /\ st \in [Threads -> States]
      /\ \A v \in Threads : st[v] = IF v = u THEN k.state[v] \ {"SUSPENDED"} ELSE k.state[v]
  BY <1>2 DEF Kernel, States
<1> HIDE DEF st
<1>4. /\ m \in Kernel /\ m.runq = k.runq /\ m.prio = k.prio /\ m.current = k.current
      /\ m.pending_ipi = k.pending_ipi /\ m.pended_on = k.pended_on
      /\ m.state = st /\ m.armed = k.armed
  BY <1>2, <1>3 DEF Kernel
<1> HIDE DEF m
<1>5. Waiting(m)
  <2>1. \A v \in Threads : m.pended_on[v] # <<>> <=> "PENDING" \in m.state[v]
    BY <1>2, <1>3, <1>4 DEF Waiting
  <2>2. \A v \in Threads : NotOwnQueue(m, v)
    BY <1>2, <1>4 DEF Waiting, NotOwnQueue
  <2>3. ASSUME NEW v \in m.armed PROVE m.state[v] \cap {"SLEEPING", "PENDING"} # {}
    <3>1. v \in Threads /\ k.state[v] \cap {"SLEEPING", "PENDING"} # {}
      BY <1>2, <1>4 DEF Waiting, Kernel
    <3> QED
      BY <1>3, <1>4, <3>1
  <2> QED
    BY <2>1, <2>2, <2>3 DEF Waiting
<1>6. ~z_is_thread_ready(k, u)
  BY <1>1 DEF z_is_thread_ready, Preventing
<1>7. ~Queued(k, u)
  BY <1>2, <1>6 DEF Placed
<1>8. \A d \in Cpus : k.current[d] # u
  <2>1. u # None
    BY SchedAssumption
  <2>2. "isr abort" \notin program
    <3>1. "resume" \in program /\ program \in Programs
      BY <1>1, <1>2 DEF Running, SchedTypes
    <3> QED
      BY <3>1 DEF NoResumeOfInterrupted
  <2> QED
    BY <1>1, <1>2, <2>1, <2>2 DEF Rests
<1>9. Unblocks(k, m, u)
  BY <1>3, <1>4, <1>5, <1>7, <1>8 DEF Unblocks
<1>10. halting' \in [Threads -> Threads \cup {None}]
  BY <1>1, <1>2 DEF SchedTypes
<1>11. HaltInv => Halts(m, halting', None, spin, program)
  <2>1. \A v \in Threads :
          /\ m.state[v] \cap (Halting \cup {"DEAD"}) = k.state[v] \cap (Halting \cup {"DEAD"})
          /\ "SUSPENDED" \in m.state[v] => "SUSPENDED" \in k.state[v]
          /\ v # u /\ "SUSPENDED" \in k.state[v] => "SUSPENDED" \in m.state[v]
    BY <1>3, <1>4 DEF Halting
  <2>2. ASSUME NEW v \in Threads, halting'[v] # None
        PROVE  /\ halting'[v] = halting[v] /\ m.pended_on[v] = k.pended_on[v]
               /\ v \in m.armed => v \in k.armed
               /\ "SUSPENDED" \in k.state[halting'[v]] => "SUSPENDED" \in m.state[halting'[v]]
    <3>1. halting'[v] = halting[v] /\ halting'[v] # u /\ halting'[v] \in Threads
      BY <1>1, <1>10, <2>2
    <3> QED
      BY <1>4, <2>1, <3>1
  <2> QED
    BY <1>4, <1>10, <2>1, <2>2, HaltsNobody
<1> QED
  BY <1>1, <1>9, <1>10, <1>11, ReadyEnds

-----------------------------------------------------------------------------
(* Suspending and aborting *)

\* Halting u leaves the other threads that run alone.
LEMMA HaltRests ==
  ASSUME NEW s \in Kernel, NEW r, NEW u, NEW new_state, Halted(s, r, u, new_state),
         NEW d \in Cpus, NEW I, Rests(s, d, I),
         r.current[d] = None \/ (r.current[d] = s.current[d] /\ s.current[d] # u)
  PROVE  Rests(r, d, I)
<1>1. CASE r.current[d] = None
  BY <1>1 DEF Rests
<1>2. CASE r.current[d] # None
  <2>1. r.current[d] = s.current[d] /\ s.current[d] # u /\ s.current[d] \in Threads
    BY <1>2 DEF Kernel
  <2>2. r.state[s.current[d]] \subseteq s.state[s.current[d]]
    BY <2>1, HaltedOthers
  <2> QED
    BY <2>1, <2>2, RestsLike
<1> QED
  BY <1>1, <1>2

\* Who waits does not run.
LEMMA WaitersDontRun ==
  ASSUME KernelInv, NEW u \in Threads, NEW new_state
  PROVE  \A w \in Waiters(k, u, new_state), d \in Cpus : k.current[d] # w
<1> SUFFICES ASSUME NEW w \in Waiters(k, u, new_state), NEW d \in Cpus, k.current[d] = w
             PROVE  FALSE
  OBVIOUS
<1>1. k \in Kernel /\ Waiting(k) /\ Rests(k, d, in_isr)
  BY DEF KernelInv, SchedTypes, Sound
<1>2. w \in Threads /\ "PENDING" \in k.state[w]
  BY <1>1, WaitersPend
<1>3. w # None
  BY <1>2, SchedAssumption
<1> QED
  BY <1>1, <1>2, <1>3 DEF Rests

\* r is s after CPU c halted t.
HaltsNow(s, r, c, t, new_state) ==
  /\ Halted(s, r, t, new_state) /\ Sound(r)
  /\ r.current = IF Dummify(s, c, t, new_state)
                   THEN [s.current EXCEPT ![c] = None] ELSE s.current
  /\ s.pending_ipi \subseteq r.pending_ipi
  /\ \A d \in Cpus : AsGood(s, r, d) \/ (Dummify(s, c, t, new_state) /\ d = c)

LEMMA HaltNow ==
  ASSUME KernelInv, NEW c \in Cpus, NEW u \in Threads, NEW new_state \in {"DEAD", "SUSPENDED"},
         new_state \notin k.state[u]
  PROVE  HaltsNow(k, halt_thread(k, c, u, new_state), c, u, new_state)
<1>1. k \in Kernel /\ Sound(k)
  BY DEF KernelInv, SchedTypes
<1>2. \A w \in Waiters(k, u, new_state), d \in Cpus : k.current[d] # w
  BY WaitersDontRun
<1>3. PICK r : r = halt_thread(k, c, u, new_state)
  OBVIOUS
<1>4. /\ Halted(k, r, u, new_state) /\ Sound(r)
      /\ r.current = IF Dummify(k, c, u, new_state)
                       THEN [k.current EXCEPT ![c] = None] ELSE k.current
      /\ k.pending_ipi \subseteq r.pending_ipi
      /\ \A d \in Cpus : AsGood(k, r, d) \/ (Dummify(k, c, u, new_state) /\ d = c)
  BY <1>1, <1>2, <1>3, HaltKeeps
<1>5. HaltsNow(k, r, c, u, new_state)
  BY <1>4 DEF HaltsNow
<1> QED
  BY <1>3, <1>5

\* A thread that runs is asked to halt.
LEMMA FlagHalts ==
  ASSUME KernelInv, HaltInv, NEW s \in Kernel, s.current = k.current, s.armed = k.armed,
         NEW u \in Threads, NEW flag \in Halting, RunsIn(k, u), "DEAD" \notin k.state[u],
         flag = "SUSPENDING" => "SUSPENDED" \notin k.state[u],
         s.state[u] = k.state[u] \cup {flag},
         \A v \in Threads \ {u} : s.state[v] \in {k.state[v], k.state[v] \cup {"PENDING"}},
         NEW h \in [Threads -> Threads \cup {None}],
         \A v \in Threads :
           h[v] # None => \/ s.pended_on[v] \in OwnQueues(h[v]) /\ v \notin k.armed
                          \/ h[v] = halting[v] /\ s.pended_on[v] = k.pended_on[v]
  PROVE  Halts(s, h, None, spin, program)
<1>1. /\ \A t \in Threads : Waits(k, halting, t) /\ Untimed(k, halting, firing, t) /\ Flagged(k, t)
      /\ \A c \in Cpus : Spins(k, spin, program, c)
      /\ spin \in [Cpus -> Threads \cup {None}]
  BY DEF HaltInv, Halts, KernelInv, SchedTypes
<1>2. \A v \in Threads :
        /\ k.state[v] \subseteq s.state[v]
        /\ "DEAD" \in s.state[v] <=> "DEAD" \in k.state[v]
        /\ "SUSPENDED" \in s.state[v] <=> "SUSPENDED" \in k.state[v]
        /\ v # u => s.state[v] \cap Halting = k.state[v] \cap Halting
  BY DEF Halting
<1>3. ASSUME NEW t \in Threads PROVE Waits(s, h, t)
  <2>1. h[t] # None => h[t] \in Threads
    OBVIOUS
  <2> QED
    BY <1>1, <1>2, <2>1 DEF Waits, Down
<1>4. ASSUME NEW t \in Threads PROVE Untimed(s, h, None, t)
  BY <1>1, SchedAssumption DEF Untimed
<1>5. ASSUME NEW t \in Threads PROVE Flagged(s, t)
  <2>1. Flagged(k, t) /\ (RunsIn(s, t) <=> RunsIn(k, t))
    BY <1>1 DEF RunsIn
  <2>2. CASE t # u
    <3>1. "SUSPENDING" \in s.state[t] <=> "SUSPENDING" \in k.state[t]
      BY <1>2, <2>2 DEF Halting
    <3> QED
      BY <1>2, <2>1, <2>2, <3>1 DEF Flagged
  <2>3. CASE t = u
    <3>1. "SUSPENDED" \in k.state[u] /\ "SUSPENDING" \in k.state[u] => FALSE
      BY <2>1, <2>3 DEF Flagged, Halting
    <3>2. "SUSPENDED" \in s.state[u] => "SUSPENDING" \notin s.state[u]
      BY <1>2, <3>1
    <3> QED
      BY <1>2, <2>1, <2>3, <3>2 DEF Flagged
  <2> QED
    BY <2>2, <2>3
<1>6. ASSUME NEW c \in Cpus PROVE Spins(s, spin, program, c)
  <2>1. spin[c] # None =>
          (k.state[spin[c]] \cap {"ABORTING", "DEAD"} \subseteq s.state[spin[c]] \cap {"ABORTING", "DEAD"})
    BY <1>1, <1>2
  <2>2. Spins(k, spin, program, c)
    BY <1>1
  <2> QED
    BY <2>1, <2>2 DEF Spins
<1> QED
  BY <1>3, <1>4, <1>5, <1>6 DEF Halts

LEMMA HaltCallKeeps ==
  ASSUME KernelInv, firing = None, NEW c \in Cpus, NEW t \in Threads, NEW op, Running(c, t, op),
         NEW u \in Threads, NEW flag \in Halting, NEW new_state \in {"DEAD", "SUSPENDED"},
         NEW q \in {<<"join", u>>, <<"halt", u>>}, new_state \notin k.state[u],
         z_thread_halt(c, t, u, flag, new_state, q),
         halting' = [halting EXCEPT ![t] = IF u = t THEN None ELSE u],
         flag = "SUSPENDING" => new_state = "SUSPENDED",
         u = t /\ new_state = "SUSPENDED" => op = "suspend self"
  PROVE  KernelInv' /\ (HaltInv => HaltInv')
<1>1. /\ k \in Kernel /\ Sound(k) /\ SchedTypes
      /\ \A d \in Cpus : Rests(k, d, in_isr) /\ Told(k, d, in_isr, ipi)
  BY DEF KernelInv, SchedTypes
<1>2. /\ program' = program /\ firing' = None /\ spin' = spin
      /\ in_isr' = in_isr /\ c \notin in_isr /\ k.current[c] = t
      /\ \A d \in Cpus \ {c} : k.current[d] # t
      /\ op \in program /\ z_is_thread_ready(k, t)
  BY RunningFacts
<1>h. /\ halting' \in [Threads -> Threads \cup {None}]
      /\ \A v \in Threads : halting'[v] = IF v # t THEN halting[v] ELSE IF u = t THEN None ELSE u
  BY <1>1 DEF SchedTypes
<1>a. t \notin k.armed /\ k.pended_on[t] = <<>>
  BY <1>1, <1>2 DEF Sound, Waiting, z_is_thread_ready, Preventing
<1>3. CASE thread_active_elsewhere(k, c, u)
  <2> DEFINE st == [k.state EXCEPT ![u] = @ \cup {flag}]
             m == [k EXCEPT !.state = st]
             s == Pended(m, t, q)
             r == next_up(s, c)
             X == {d \in Cpus : k.current[d] = u}
  <2>1. /\ k' = [r EXCEPT !.pending_ipi = {}]
        /\ ipi' = ipi \cup (r.pending_ipi \ {c}) \cup X
    BY <1>3 DEF z_thread_halt
  <2>2. u # t
    BY <1>2, <1>3 DEF thread_active_elsewhere
  <2>3. /\ st \in [Threads -> States]
        /\ \A v \in Threads : st[v] = IF v = u THEN k.state[v] \cup {flag} ELSE k.state[v]
    BY <1>1 DEF Kernel, States
  <2> HIDE DEF st
  <2>4. /\ m \in Kernel /\ m.runq = k.runq /\ m.prio = k.prio /\ m.current = k.current
        /\ m.pending_ipi = k.pending_ipi /\ m.pended_on = k.pended_on
        /\ m.state = st /\ m.armed = k.armed
    BY <1>1, <2>3 DEF Kernel
  <2> HIDE DEF m
  <2>5. flag # "PENDING" /\ flag \notin Preventing
    BY DEF Halting, Preventing
  <2>6. Waiting(m)
    <3>1. \A v \in Threads : m.pended_on[v] # <<>> <=> "PENDING" \in m.state[v]
      BY <1>1, <2>3, <2>4, <2>5 DEF Sound, Waiting
    <3>2. \A v \in Threads : NotOwnQueue(m, v)
      BY <1>1, <2>4 DEF Sound, Waiting, NotOwnQueue
    <3>3. ASSUME NEW v \in m.armed PROVE m.state[v] \cap {"SLEEPING", "PENDING"} # {}
      <4>1. v \in Threads /\ k.state[v] \cap {"SLEEPING", "PENDING"} # {}
        BY <1>1, <2>4 DEF Sound, Waiting, Kernel
      <4> QED
        BY <2>3, <2>4, <4>1
    <3> QED
      BY <3>1, <3>2, <3>3 DEF Waiting
  <2>7. PendedOn(m, s, t, q)
    BY <2>2, <2>4, <2>6, PendedFields
  <2> HIDE DEF s
  <2>8. /\ s \in Kernel /\ Waiting(s)
        /\ s.runq = k.runq /\ s.prio = k.prio /\ s.current = k.current
        /\ s.pending_ipi = k.pending_ipi
    BY <2>4, <2>7 DEF PendedOn, Kernel
  <2>9. /\ \A v \in Threads \ {t} : s.state[v] \cap Preventing = k.state[v] \cap Preventing
        /\ k.state[t] \subseteq s.state[t]
    <3>1. /\ \A v \in Threads \ {t} : s.state[v] = st[v]
          /\ s.state[t] = st[t] \cup {"PENDING"}
      BY <2>4, <2>7 DEF PendedOn
    <3>2. st[t] = k.state[t]
      BY <2>2, <2>3
    <3>3. \A v \in Threads : st[v] \cap Preventing = k.state[v] \cap Preventing
      BY <2>3, <2>5
    <3> QED
      BY <3>1, <3>2, <3>3
  <2>10. /\ Sound(s)
         /\ \A d \in Cpus \ {c} : Rests(s, d, in_isr) /\ Told(s, d, in_isr, ipi)
    BY <2>8, <2>9, SelfBlock
  <2>11. X \in SUBSET Cpus
    OBVIOUS
  <2> HIDE DEF X
  <2>12. HaltInv => Halts(s, halting', None, spin, program)
    <3>1. s.armed = k.armed
      BY <2>4, <2>7 DEF PendedOn, Kernel
    <3>2. /\ s.state[u] = k.state[u] \cup {flag}
          /\ \A v \in Threads \ {u} : s.state[v] \in {k.state[v], k.state[v] \cup {"PENDING"}}
      BY <2>2, <2>3, <2>4, <2>7 DEF PendedOn
    <3>3. \A v \in Threads : s.pended_on[v] = IF v = t THEN q ELSE k.pended_on[v]
      BY <2>4, <2>7 DEF PendedOn
    <3>4. RunsIn(k, u) /\ "DEAD" \notin k.state[u]
      <4>1. PICK d \in Cpus : k.current[d] = u
        BY <1>3 DEF thread_active_elsewhere
      <4>2. u # None /\ Rests(k, d, in_isr)
        BY <1>1, SchedAssumption
      <4> QED
        BY <4>1, <4>2 DEF RunsIn, Rests
    <3>5. ASSUME NEW v \in Threads, halting'[v] # None
          PROVE  \/ s.pended_on[v] \in OwnQueues(halting'[v]) /\ v \notin k.armed
                 \/ halting'[v] = halting[v] /\ s.pended_on[v] = k.pended_on[v]
      BY <1>h, <1>a, <2>2, <3>3, <3>5 DEF OwnQueues
    <3> QED
      BY <1>h, <2>8, <3>1, <3>2, <3>4, <3>5, FlagHalts
  <2> QED
    BY <1>h, <2>1, <2>8, <2>10, <2>11, <2>12, NextUpEnds
<1>4. CASE ~thread_active_elsewhere(k, c, u)
  <2>0. PICK s : s = halt_thread(k, c, u, new_state)
    OBVIOUS
  <2>1. IF u = t THEN z_swap(s, c) ELSE Unlock(s)
    BY <1>4, <2>0 DEF z_thread_halt
  <2>2. /\ Halted(k, s, u, new_state) /\ Sound(s)
        /\ s.current = IF Dummify(k, c, u, new_state)
                         THEN [k.current EXCEPT ![c] = None] ELSE k.current
        /\ k.pending_ipi \subseteq s.pending_ipi
        /\ \A d \in Cpus : AsGood(k, s, d) \/ (Dummify(k, c, u, new_state) /\ d = c)
    <3>1. HaltsNow(k, s, c, u, new_state)
      BY <2>0, HaltNow
    <3> QED
      BY <3>1 DEF HaltsNow
  <2>3. ~Dummify(k, c, u, new_state)
    BY <1>2 DEF Dummify
  <2>4. s \in Kernel /\ s.current = k.current
    BY <2>2, <2>3 DEF Halted
  <2>h. ASSUME HaltInv PROVE Halts(s, halting', None, spin, program)
    <3>1. Halts(k, halting, None, spin, program) /\ Flagged(k, u)
      BY <2>h DEF HaltInv, Halts
    <3>2. "ABORTING" \in k.state[u] /\ "suspend self" \notin program => new_state = "DEAD"
      <4>1. CASE u = t
        BY <1>2, <4>1
      <4>2. CASE u # t
        <5>1. ~RunsIn(k, u)
          BY <1>2, <1>4, <4>2 DEF RunsIn, thread_active_elsewhere
        <5> QED
          BY <3>1, <5>1 DEF Flagged, Halting
      <4> QED
        BY <4>1, <4>2
    <3>3. Onward(k, s, program)
      BY <1>1, <2>2, <2>4, <3>2, OnwardHalted
    <3>4. Halts(s, halting, None, spin, program)
      BY <1>1, <2>4, <3>1, <3>3, OnwardKeeps DEF SchedTypes
    <3>5. s.armed \subseteq k.armed
      BY <3>3 DEF Onward
    <3>6. u # t => s.pended_on[t] = <<>> /\ s.state[u] \cap Down # {}
      <4>1. u # t => s.pended_on[t] \in {<<>>, k.pended_on[t]}
        BY <2>2 DEF Halted
      <4>2. new_state \in s.state[u]
        BY <2>2 DEF Halted, Halting
      <4> QED
        BY <1>a, <4>1, <4>2 DEF Down
    <3>7. ASSUME NEW v \in Threads
          PROVE  Waits(s, halting', v) /\ Untimed(s, halting', None, v) /\ Flagged(s, v)
      <4>1. Waits(s, halting, v) /\ Untimed(s, halting, None, v) /\ Flagged(s, v)
        BY <3>4 DEF Halts
      <4>2. CASE v # t
        BY <1>h, <4>1, <4>2 DEF Waits, Untimed
      <4>3. CASE v = t
        <5>1. v # None
          BY SchedAssumption
        <5> QED
          BY <1>h, <1>a, <3>5, <3>6, <4>1, <4>3, <5>1 DEF Waits, Untimed
      <4> QED
        BY <4>2, <4>3
    <3> QED
      BY <3>4, <3>7 DEF Halts
  <2>5. ASSUME NEW d \in Cpus PROVE Told(s, d, in_isr, ipi)
    BY <1>1, <2>2, <2>3 DEF Told, AsGood
  <2>6. ASSUME NEW d \in Cpus, k.current[d] # u PROVE Rests(s, d, in_isr)
    BY <1>1, <2>2, <2>4, <2>6, HaltRests
  <2>7. CASE u = t
    <3>1. z_swap(s, c)
      BY <2>1, <2>7
    <3>2. \A d \in Cpus \ {c} : Rests(s, d, in_isr) /\ Told(s, d, in_isr, ipi)
      BY <1>2, <2>5, <2>6, <2>7
    <3> QED
      BY <1>h, <2>2, <2>4, <2>h, <3>1, <3>2, SwapEnds
  <2>8. CASE u # t
    <3>1. k' = s /\ ipi' = ipi
      BY <2>1, <2>8 DEF Unlock
    <3>2. \A d \in Cpus : k.current[d] # u
      BY <1>2, <1>4, <2>8 DEF thread_active_elsewhere
    <3>3. \A d \in Cpus : Rests(k', d, in_isr') /\ Told(k', d, in_isr', ipi')
      BY <1>2, <2>5, <2>6, <3>1, <3>2
    <3>4. KernelInv'
      BY <1>1, <1>2, <1>h, <2>2, <2>4, <3>1, <3>3, StepEnds DEF SchedTypes
    <3>5. ASSUME HaltInv PROVE HaltInv'
      <4>1. Onward(s, k', program)
        BY <2>4, <3>1, OnwardAlike
      <4> QED
        BY <1>1, <1>2, <1>h, <2>4, <2>h, <3>1, <3>5, <4>1, HaltsEnd DEF SchedTypes
    <3> QED
      BY <3>4, <3>5
  <2> QED
    BY <2>7, <2>8
<1> QED
  BY <1>3, <1>4

LEMMA SuspendKeeps ==
  ASSUME KernelInv, firing = None, NEW c \in Cpus, NEW t \in Threads, NEW u \in Threads,
         k_thread_suspend(c, t, u)
  PROVE  KernelInv' /\ (HaltInv => HaltInv')
<1>1. PICK op : Running(c, t, op) /\ (u = t => op = "suspend self")
  BY DEF k_thread_suspend
<1>2. /\ "SUSPENDED" \notin k.state[u]
      /\ z_thread_halt(c, t, u, "SUSPENDING", "SUSPENDED", <<"halt", u>>)
      /\ halting' = [halting EXCEPT ![t] = IF u = t THEN None ELSE u]
  BY DEF k_thread_suspend
<1>3. PICK q \in {<<"join", u>>, <<"halt", u>>} : q = <<"halt", u>>
  OBVIOUS
<1>4. "SUSPENDING" \in Halting
  BY DEF Halting
<1> QED
  BY <1>1, <1>2, <1>3, <1>4, HaltCallKeeps

LEMMA AbortKeeps ==
  ASSUME KernelInv, firing = None, NEW c \in Cpus, NEW t \in Threads, NEW u \in Threads,
         k_thread_abort(c, t, u)
  PROVE  KernelInv' /\ (HaltInv => HaltInv')
<1>1. Running(c, t, "abort")
  BY DEF k_thread_abort
<1>2. /\ "DEAD" \notin k.state[u]
      /\ z_thread_halt(c, t, u, "ABORTING", "DEAD", <<"join", u>>)
      /\ halting' = [halting EXCEPT ![t] = IF u = t THEN None ELSE u]
  BY DEF k_thread_abort
<1>3. PICK q \in {<<"join", u>>, <<"halt", u>>} : q = <<"join", u>>
  OBVIOUS
<1>4. "ABORTING" \in Halting
  BY DEF Halting
<1> QED
  BY <1>1, <1>2, <1>3, <1>4, HaltCallKeeps

-----------------------------------------------------------------------------
(* Changing priorities *)

\* A list without u is as ordered as it was, whatever the priority of u.
LEMMA OrderedWithout ==
  ASSUME NEW q \in Seq(Threads), NEW p, NEW n, NEW u, u \notin ToSet(q), Ordered(q, p),
         \A v \in Threads \ {u} : n[v] = p[v]
  PROVE  Ordered(q, n)
<1>1. ToSet(q) = {q[i] : i \in 1..Len(q)} /\ ToSet(q) \subseteq Threads
  BY ListElements
<1>2. \A i \in 1..Len(q) : q[i] \in Threads \ {u}
  BY <1>1
<1>3. \A i \in 1..Len(q) : n[q[i]] = p[q[i]]
  BY <1>2
<1> QED
  BY <1>3 DEF Ordered

\* r is k with the priority of u changed, but for the run queue's order and
\* pending_ipi.
Reprioritizes(r, u, prio) ==
  /\ r \in Kernel /\ WellQueued(r)
  /\ r.state = k.state /\ r.current = k.current
  /\ r.pended_on = k.pended_on /\ r.armed = k.armed
  /\ ToSet(r.runq) = ToSet(k.runq)
  /\ \A v \in Threads : r.prio[v] = IF v = u THEN prio ELSE k.prio[v]

LEMMA ReprioritizesSound ==
  ASSUME KernelInv, NEW u \in Threads, NEW prio, NEW r, Reprioritizes(r, u, prio)
  PROVE  Sound(r) /\ \A d \in Cpus : Rests(r, d, in_isr)
<1>1. k \in Kernel /\ Sound(k) /\ \A d \in Cpus : Rests(k, d, in_isr)
  BY DEF KernelInv, SchedTypes
<1>2. /\ r \in Kernel /\ WellQueued(r)
      /\ r.state = k.state /\ r.current = k.current
      /\ r.pended_on = k.pended_on /\ r.armed = k.armed
      /\ ToSet(r.runq) = ToSet(k.runq)
  BY DEF Reprioritizes
<1>3. \A v : /\ Queued(r, v) <=> Queued(k, v)
             /\ z_is_thread_ready(r, v) <=> z_is_thread_ready(k, v)
  BY <1>2 DEF Queued, z_is_thread_ready
<1>4. Placed(r)
  BY <1>1, <1>2, <1>3 DEF Sound, Placed
<1>5. Waiting(r)
  BY <1>1, <1>2 DEF Sound, Waiting, NotOwnQueue
<1>6. \A v \in Threads : Found(r, v)
  BY <1>1, <1>2, <1>3 DEF Sound, Found
<1>7. \A d \in Cpus : Rests(r, d, in_isr)
  BY <1>1, <1>2 DEF Rests
<1> QED
  BY <1>4, <1>5, <1>6, <1>7 DEF Sound

\* A CPU whose thread keeps or raises its priority goes on with the best, unless
\* the thread that gets a higher priority is queued.
LEMMA ReprioritizesBest ==
  ASSUME KernelInv, NEW u \in Threads, NEW prio \in Int, NEW r, Reprioritizes(r, u, prio),
         NEW d \in Cpus, BestOn(k, d),
         Queued(k, u) => k.prio[u] <= prio,
         k.current[d] = u => prio <= k.prio[u]
  PROVE  BestOn(r, d)
<1>1. /\ k \in Kernel /\ \A v \in Threads : k.prio[v] \in Int
      /\ k.current[d] \in Threads \cup {None}
      /\ ~Queued(k, k.current[d])
  BY DEF KernelInv, SchedTypes, Kernel, Sound, Placed
<1>2. /\ r.current = k.current /\ \A v : Queued(r, v) <=> Queued(k, v)
      /\ \A v \in Threads : r.prio[v] = IF v = u THEN prio ELSE k.prio[v]
  BY DEF Reprioritizes, Queued
<1> SUFFICES ASSUME NEW q \in Threads, Queued(k, q) PROVE NotWorse(r, d, q)
  BY <1>2 DEF BestOn
<1> DEFINE v == k.current[d]
<1>3. v # None /\ (k.prio[v] <= k.prio[q] \/ k.prio[v] < 0) /\ v \in Threads /\ v # q
  BY <1>1 DEF BestOn, NotWorse
<1> HIDE DEF v
<1>4. k.prio[v] \in Int /\ k.prio[q] \in Int /\ k.prio[u] \in Int
  BY <1>1, <1>3
<1>5. r.prio[v] <= k.prio[v] /\ r.prio[v] \in Int
  BY <1>2, <1>3, <1>4 DEF v
<1>6. k.prio[q] <= r.prio[q] /\ r.prio[q] \in Int
  BY <1>2, <1>4
<1>7. r.prio[v] <= r.prio[q] \/ r.prio[v] < 0
  BY <1>3, <1>4, <1>5, <1>6
<1> QED
  BY <1>2, <1>3, <1>7 DEF NotWorse, v

\* The new priority, before the run queue is put in order.
LEMMA NewPrio ==
  ASSUME KernelInv, NEW u \in Threads, NEW prio \in Int
  PROVE  LET s == [k EXCEPT !.prio[u] = prio]
         IN  /\ s \in Kernel /\ s = [k EXCEPT !.prio = s.prio]
             /\ \A v \in Threads : s.prio[v] = IF v = u THEN prio ELSE k.prio[v]
             /\ ~Queued(k, u) => Reprioritizes(s, u, prio)
<1> DEFINE pr == [k.prio EXCEPT ![u] = prio]
           s == [k EXCEPT !.prio[u] = prio]
<1>1. k \in Kernel /\ WellQueued(k)
  BY DEF KernelInv, SchedTypes, Sound, Placed
<1>2. /\ pr \in [Threads -> Int]
      /\ \A v \in Threads : pr[v] = IF v = u THEN prio ELSE k.prio[v]
  BY <1>1 DEF Kernel
<1>3. s = [k EXCEPT !.prio = pr]
  OBVIOUS
<1> HIDE DEF pr, s
<1>4. /\ s \in Kernel /\ s.prio = pr /\ s.runq = k.runq
      /\ s.state = k.state /\ s.current = k.current
      /\ s.pended_on = k.pended_on /\ s.armed = k.armed
  BY <1>1, <1>2, <1>3 DEF Kernel
<1>5. ASSUME ~Queued(k, u) PROVE Reprioritizes(s, u, prio)
  <2>1. k.runq \in Seq(Threads) /\ Distinct(k.runq) /\ Ordered(k.runq, k.prio)
    BY <1>1 DEF Kernel, WellQueued
  <2>2. Ordered(k.runq, pr)
    BY <1>2, <1>5, <2>1, OrderedWithout DEF Queued
  <2>3. WellQueued(s)
    BY <1>4, <2>1, <2>2 DEF WellQueued
  <2> QED
    BY <1>2, <1>4, <2>3 DEF Reprioritizes
<1> QED
  BY <1>2, <1>3, <1>4, <1>5 DEF s

LEMMA RequeueReprioritizes ==
  ASSUME KernelInv, NEW c \in Cpus, NEW u \in Threads, NEW prio \in Int, Queued(k, u)
  PROVE  /\ Reprioritizes(Reprioritized(c, u, prio), u, prio)
         /\ Reprioritized(c, u, prio).pending_ipi =
              IF k.prio[u] > prio THEN Cpus ELSE k.pending_ipi
<1> DEFINE s == [k EXCEPT !.prio[u] = prio]
           o == dequeue_thread(s, u)
           p == queue_thread(o, u)
           pe == IF k.prio[u] > prio THEN Cpus ELSE p.pending_ipi
           r == [p EXCEPT !.pending_ipi = pe]
<1>1. k \in Kernel /\ WellQueued(k) /\ k.runq \in Seq(Threads)
  BY DEF KernelInv, SchedTypes, Sound, Placed, Kernel
<1>2. Reprioritized(c, u, prio) = r
  BY DEF Reprioritized
<1>3. /\ s \in Kernel /\ s = [k EXCEPT !.prio = s.prio]
      /\ \A v \in Threads : s.prio[v] = IF v = u THEN prio ELSE k.prio[v]
  BY NewPrio
<1> HIDE DEF s
<1>4. /\ s.runq = k.runq /\ s.state = k.state /\ s.current = k.current
      /\ s.pended_on = k.pended_on /\ s.armed = k.armed /\ s.pending_ipi = k.pending_ipi
  BY <1>1, <1>3 DEF Kernel
<1>5. /\ o \in Kernel /\ o = [s EXCEPT !.runq = o.runq]
      /\ ToSet(o.runq) = ToSet(s.runq) \ {u}
  BY <1>1, <1>3, <1>4, DequeueThread DEF WellQueued
<1>6. WellQueued(o)
  <2> DEFINE q == RemoveFirst(k.runq, u)
  <2>1. q \in Seq(Threads) /\ Distinct(q) /\ ToSet(q) = ToSet(k.runq) \ {u}
    BY <1>1, RemoveList DEF WellQueued
  <2>2. Ordered(q, k.prio)
    BY <1>1, RemoveOrdered DEF WellQueued, Queued
  <2>3. o.runq = q
    BY <1>3, <1>4 DEF dequeue_thread, Kernel
  <2> HIDE DEF q, o
  <2>4. o.prio = s.prio
    BY <1>3, <1>5 DEF Kernel
  <2>5. Ordered(q, s.prio)
    BY <1>3, <2>1, <2>2, OrderedWithout
  <2> QED
    BY <2>1, <2>3, <2>4, <2>5 DEF WellQueued
<1> HIDE DEF o
<1>7. /\ p \in Kernel /\ p = [o EXCEPT !.runq = p.runq]
      /\ ToSet(p.runq) = ToSet(o.runq) \cup {u}
      /\ WellQueued(p)
  BY <1>4, <1>5, <1>6, QueueThread DEF Queued
<1> HIDE DEF p
<1>8. /\ p.state = k.state /\ p.current = k.current /\ p.prio = s.prio
      /\ p.pended_on = k.pended_on /\ p.armed = k.armed /\ p.pending_ipi = k.pending_ipi
  <2>1. /\ o.state = s.state /\ o.current = s.current /\ o.prio = s.prio
        /\ o.pended_on = s.pended_on /\ o.armed = s.armed /\ o.pending_ipi = s.pending_ipi
    BY <1>3, <1>5 DEF Kernel
  <2>2. /\ p.state = o.state /\ p.current = o.current /\ p.prio = o.prio
        /\ p.pended_on = o.pended_on /\ p.armed = o.armed /\ p.pending_ipi = o.pending_ipi
    BY <1>5, <1>7 DEF Kernel
  <2> QED
    BY <1>4, <2>1, <2>2
<1>9. ToSet(p.runq) = ToSet(k.runq)
  BY <1>4, <1>5, <1>7 DEF Queued
<1>10. pe \in SUBSET Cpus
  BY <1>7 DEF Kernel
<1>11. pe = IF k.prio[u] > prio THEN Cpus ELSE k.pending_ipi
  BY <1>8
<1> HIDE DEF pe
<1>12. /\ r \in Kernel /\ r.pending_ipi = pe /\ r.runq = p.runq /\ r.prio = p.prio
       /\ r.state = p.state /\ r.current = p.current
       /\ r.pended_on = p.pended_on /\ r.armed = p.armed
  BY <1>7, <1>10 DEF Kernel
<1> HIDE DEF r
<1>13. WellQueued(r)
  BY <1>7, <1>12 DEF WellQueued
<1> QED
  BY <1>2, <1>3, <1>8, <1>9, <1>11, <1>12, <1>13 DEF Reprioritizes

LEMMA PriorityKeeps ==
  ASSUME KernelInv, firing = None, NEW c \in Cpus, NEW t \in Threads, NEW u \in Threads,
         NEW prio \in Prios, k_thread_priority_set(c, t, u, prio)
  PROVE  KernelInv' /\ (HaltInv => HaltInv')
<1>1. /\ k \in Kernel /\ Sound(k) /\ SchedTypes
      /\ \A d \in Cpus : Rests(k, d, in_isr) /\ Told(k, d, in_isr, ipi)
      /\ prio \in Int
  BY SchedAssumption DEF KernelInv, SchedTypes
<1>2. /\ Running(c, t, "priority")
      /\ IF z_is_thread_ready(k, u) THEN z_reschedule(Reprioritized(c, u, prio), c)
           ELSE Unlock([k EXCEPT !.prio[u] = prio])
      /\ NothingHalted(t)
  BY DEF k_thread_priority_set
<1>3. /\ program' = program /\ firing' = None /\ spin' = spin
      /\ in_isr' = in_isr /\ c \notin in_isr /\ k.current[c] = t
  BY <1>2, RunningFacts
<1>4. halting' \in [Threads -> Threads \cup {None}]
  BY <1>1, <1>2, HaltingTyped
<1>h. ASSUME NEW r, Reprioritizes(r, u, prio), HaltInv
      PROVE  Halts(r, halting', None, spin, program)
  <2>1. /\ r \in Kernel /\ r.state = k.state /\ r.current = k.current
        /\ r.pended_on = k.pended_on /\ r.armed = k.armed
    BY <1>h DEF Reprioritizes
  <2>2. \A v \in Threads : halting'[v] # None => halting'[v] = halting[v]
    BY <1>1, <1>2, NothingHaltedBy
  <2> QED
    BY <1>4, <1>h, <2>1, <2>2, HaltsNobody
<1> DEFINE s == [k EXCEPT !.prio[u] = prio]
<1>5. /\ s \in Kernel /\ s = [k EXCEPT !.prio = s.prio]
      /\ ~Queued(k, u) => Reprioritizes(s, u, prio)
  BY <1>1, NewPrio
<1>6. k.prio[u] \in Int
  BY <1>1 DEF Kernel
<1>7. CASE z_is_thread_ready(k, u) /\ Queued(k, u)
  <2> DEFINE r == Reprioritized(c, u, prio)
  <2>1. /\ Reprioritizes(r, u, prio)
        /\ r.pending_ipi = IF k.prio[u] > prio THEN Cpus ELSE k.pending_ipi
    BY <1>1, <1>7, RequeueReprioritizes
  <2>2. z_reschedule(r, c)
    BY <1>2, <1>7
  <2> HIDE DEF r
  <2>3. Sound(r) /\ (\A d \in Cpus : Rests(r, d, in_isr)) /\ r \in Kernel
    BY <2>1, ReprioritizesSound DEF Reprioritizes
  <2>4. ASSUME NEW d \in Cpus PROVE Told(r, d, in_isr, ipi)
    <3>1. CASE k.prio[u] > prio
      BY <2>1, <3>1 DEF Told
    <3>2. CASE ~(k.prio[u] > prio)
      <4>1. k.prio[u] <= prio /\ r.pending_ipi = k.pending_ipi
        BY <1>1, <1>6, <2>1, <3>2
      <4>2. k.current[d] # u
        BY <1>1, <1>7 DEF Sound, Placed
      <4>3. BestOn(k, d) => BestOn(r, d)
        BY <1>1, <2>1, <4>1, <4>2, ReprioritizesBest
      <4> QED
        BY <1>1, <4>1, <4>3 DEF Told
    <3> QED
      BY <3>1, <3>2
  <2> QED
    BY <1>2, <1>4, <1>h, <2>1, <2>2, <2>3, <2>4, RescheduleEnds
<1>8. CASE z_is_thread_ready(k, u) /\ ~Queued(k, u)
  <2> DEFINE pe == k.pending_ipi \cup LoweredIpi(c, u, prio)
             r == [s EXCEPT !.pending_ipi = pe]
  <2>1. z_reschedule(r, c)
    <3>1. s.pending_ipi = k.pending_ipi
      BY <1>1, <1>5 DEF Kernel
    <3>2. Reprioritized(c, u, prio) = [s EXCEPT !.pending_ipi = s.pending_ipi \cup LoweredIpi(c, u, prio)]
      BY <1>8 DEF Reprioritized
    <3> QED
      BY <1>2, <1>8, <3>1, <3>2
  <2>2. Reprioritizes(s, u, prio)
    BY <1>5, <1>8
  <2> HIDE DEF s
  <2>3. pe \in SUBSET Cpus
    BY <1>1 DEF LoweredIpi, Kernel
  <2> HIDE DEF pe
  <2>4. r \in Kernel /\ Alike(s, r) /\ r.runq = s.runq /\ r.pending_ipi = pe
    BY <1>5, <2>3 DEF Kernel, Alike
  <2> HIDE DEF r
  <2>5. Reprioritizes(r, u, prio)
    <3>1. WellQueued(r)
      BY <2>2, <2>4 DEF Reprioritizes, Alike, WellQueued
    <3> QED
      BY <2>2, <2>4, <3>1 DEF Reprioritizes, Alike
  <2>6. Sound(r) /\ \A d \in Cpus : Rests(r, d, in_isr)
    BY <2>5, ReprioritizesSound
  <2>7. ASSUME NEW d \in Cpus \ {c} PROVE Told(r, d, in_isr, ipi)
    <3>1. CASE k.current[d] = u /\ k.prio[u] < prio
      BY <2>4, <3>1 DEF Told, LoweredIpi, pe
    <3>2. CASE ~(k.current[d] = u /\ k.prio[u] < prio)
      <4>1. k.current[d] = u => prio <= k.prio[u]
        BY <1>1, <1>6, <3>2
      <4>2. BestOn(k, d) => BestOn(r, d)
        BY <1>1, <1>8, <2>5, <4>1, ReprioritizesBest
      <4> QED
        BY <1>1, <2>4, <4>2 DEF Told, pe
    <3> QED
      BY <3>1, <3>2
  <2> QED
    BY <1>2, <1>4, <1>h, <2>1, <2>4, <2>5, <2>6, <2>7, RescheduleEnds
<1>9. CASE ~z_is_thread_ready(k, u)
  <2>1. k' = s /\ ipi' = ipi
    BY <1>2, <1>9 DEF Unlock
  <2>2. ~Queued(k, u)
    BY <1>1, <1>9 DEF Sound, Placed
  <2>3. Reprioritizes(s, u, prio) /\ s.pending_ipi = k.pending_ipi
    BY <1>1, <1>5, <2>2 DEF Kernel
  <2> HIDE DEF s
  <2>4. Sound(s) /\ \A d \in Cpus : Rests(s, d, in_isr)
    BY <2>3, ReprioritizesSound
  <2>5. ASSUME NEW d \in Cpus PROVE Told(s, d, in_isr, ipi)
    <3>1. CASE k.current[d] = u
      <4>1. u # None /\ Rests(k, d, in_isr)
        BY <1>1, SchedAssumption
      <4>2. d \in in_isr
        BY <1>9, <3>1, <4>1 DEF Rests, z_is_thread_ready, Preventing
      <4> QED
        BY <4>2 DEF Told
    <3>2. CASE k.current[d] # u
      <4>1. BestOn(k, d) => BestOn(s, d)
        BY <1>1, <2>2, <2>3, <3>2, ReprioritizesBest
      <4> QED
        BY <1>1, <2>3, <4>1 DEF Told
    <3> QED
      BY <3>1, <3>2
  <2>6. KernelInv'
    BY <1>1, <1>3, <1>4, <1>5, <2>1, <2>4, <2>5, StepEnds DEF SchedTypes
  <2>7. ASSUME HaltInv PROVE HaltInv'
    <3>1. Onward(s, k', program) /\ Halts(s, halting', None, spin, program)
      BY <1>5, <1>h, <2>1, <2>3, <2>7, OnwardAlike
    <3> QED
      BY <1>1, <1>3, <1>4, <1>5, <2>1, <3>1, HaltsEnd DEF SchedTypes
  <2> QED
    BY <2>6, <2>7
<1> QED
  BY <1>7, <1>8, <1>9

-----------------------------------------------------------------------------
(* Interrupts *)

\* One more CPU in an interrupt.
LEMMA InIsrMore ==
  ASSUME NEW s, NEW d, NEW I, NEW J, I \subseteq J, NEW P
  PROVE  /\ Rests(s, d, I) => Rests(s, d, J)
         /\ Told(s, d, I, P) => Told(s, d, J, P)
BY DEF Rests, Told

LEMMA IpiKeeps ==
  ASSUME KernelInv, firing = None, NEW c \in Cpus, z_sched_ipi(c)
  PROVE  KernelInv' /\ (HaltInv => HaltInv')
<1>1. /\ c \in ipi /\ in_isr' = in_isr \cup {c} /\ ipi' = ipi \ {c}
      /\ UNCHANGED <<k, spin, firing, halting, program>>
  BY DEF z_sched_ipi
<1>2. \A d \in Cpus : Rests(k, d, in_isr') /\ Told(k, d, in_isr', ipi')
  BY <1>1 DEF KernelInv, Rests, Told
<1>3. KernelInv'
  BY <1>1, <1>2, StepEnds DEF KernelInv, SchedTypes
<1>4. ASSUME HaltInv PROVE HaltInv'
  <2>1. SchedTypes /\ k \in Kernel /\ Onward(k, k', program)
    BY <1>1, OnwardAlike DEF KernelInv, SchedTypes
  <2>2. Halts(k, halting', firing', spin', program)
    BY <1>1, <1>4 DEF HaltInv
  <2> QED
    BY <1>1, <2>1, <2>2, HaltsEnd DEF SchedTypes
<1> QED
  BY <1>3, <1>4

LEMMA ExpireKeeps ==
  ASSUME KernelInv, NEW t \in Threads, Expire(t)
  PROVE  KernelInv' /\ (HaltInv => HaltInv')
<1>1. /\ t \in k.armed /\ k' = [k EXCEPT !.armed = @ \ {t}] /\ firing' = t
      /\ UNCHANGED <<ipi, in_isr, spin, halting, program>>
  BY DEF Expire
<1>2. /\ k \in Kernel /\ SchedTypes /\ Placed(k) /\ Waiting(k)
      /\ \A v \in Threads : Found(k, v)
      /\ \A d \in Cpus : Rests(k, d, in_isr) /\ Told(k, d, in_isr, ipi)
  BY DEF KernelInv, SchedTypes, Sound
<1>3. /\ k' \in Kernel /\ k'.armed = k.armed \ {t}
      /\ k'.runq = k.runq /\ k'.prio = k.prio /\ k'.current = k.current /\ k'.state = k.state
      /\ k'.pended_on = k.pended_on /\ k'.pending_ipi = k.pending_ipi
  BY <1>1, <1>2 DEF Kernel
<1>4. SchedTypes'
  BY <1>1, <1>2, <1>3 DEF SchedTypes
<1>5. \A v : z_is_thread_ready(k', v) <=> z_is_thread_ready(k, v)
  BY <1>3 DEF z_is_thread_ready
<1>6. Placed(k') /\ \A v \in Threads : Found(k', v)
  <2>1. \A v \in Threads : Queued(k, v) => z_is_thread_ready(k', v)
    BY <1>2, <1>5 DEF Placed
  <2> QED
    BY <1>2, <1>3, <1>5, <2>1, BlockKeeps
<1>7. Waiting(k')
  BY <1>2, <1>3 DEF Waiting, NotOwnQueue
<1>8. \A d \in Cpus : Rests(k', d, in_isr) /\ Told(k', d, in_isr, ipi)
  BY <1>2, <1>3 DEF Rests, Told, BestOn, NotWorse, Queued
<1>9. \A d \in Cpus : Rests(k, d, in_isr)' /\ Told(k, d, in_isr, ipi)'
  BY <1>1, <1>8 DEF Rests, Told
<1>10. firing' \notin k'.armed /\ k'.state[firing'] \cap {"SLEEPING", "PENDING"} # {}
  BY <1>1, <1>2, <1>3 DEF Waiting
<1>11. Sound(k')
  BY <1>6, <1>7 DEF Sound
<1>12. ASSUME HaltInv PROVE HaltInv'
  <2>1. Onward(k, k', program)
    BY <1>2, <1>3, OnwardAlike
  <2>2. \A v \in Threads : Untimed(k, halting, t, v)
    BY <1>1, <1>12 DEF HaltInv, Halts, Untimed
  <2>3. Halts(k, halting, t, spin, program)
    BY <1>12, <2>2 DEF HaltInv, Halts
  <2>4. Halts(k, halting', firing', spin', program)
    BY <1>1, <2>3
  <2> QED
    BY <1>1, <1>2, <1>3, <2>1, <2>4, HaltsEnd DEF SchedTypes
<1> QED
  BY <1>4, <1>9, <1>10, <1>11, <1>12 DEF KernelInv

LEMMA TimeoutKeeps ==
  ASSUME KernelInv, NEW c \in Cpus, z_thread_timeout(c)
  PROVE  KernelInv' /\ (HaltInv => HaltInv')
<1> DEFINE t == firing
           s == IF k.pended_on[t] # <<>> THEN Unpended(k, t) ELSE k
           m == [s EXCEPT !.state[t] = @ \ {"SLEEPING"}]
<1>1. /\ firing # None /\ in_isr' = in_isr \cup {c} /\ firing' = None /\ ipi' = ipi
      /\ k' = IF k.state[t] \cap {"DEAD", "ABORTING"} # {} THEN k ELSE ready_thread(m, c, t)
      /\ UNCHANGED <<spin, halting, program>>
  BY DEF z_thread_timeout, Unlock
<1>2. /\ k \in Kernel /\ SchedTypes /\ Sound(k)
      /\ \A d \in Cpus : Rests(k, d, in_isr) /\ Told(k, d, in_isr, ipi)
      /\ t \in Threads /\ t \notin k.armed /\ k.state[t] \cap {"SLEEPING", "PENDING"} # {}
  BY <1>1 DEF KernelInv, SchedTypes
<1>3. \A d \in Cpus : Rests(k, d, in_isr') /\ Told(k, d, in_isr', ipi)
  BY <1>1, <1>2, InIsrMore
<1>4. CASE k.state[t] \cap {"DEAD", "ABORTING"} # {}
  <2>1. k' = k
    BY <1>1, <1>4
  <2>2. KernelInv'
    BY <1>1, <1>2, <1>3, <2>1, StepEnds DEF SchedTypes
  <2>3. ASSUME HaltInv PROVE HaltInv'
    <3>1. Onward(k, k', program) /\ halting \in [Threads -> Threads \cup {None}]
      BY <1>2, <2>1, OnwardAlike DEF SchedTypes
    <3>2. Halts(k, halting, None, spin, program)
      BY <1>2, <2>3, <3>1, HaltsNobody
    <3>3. Halts(k, halting', firing', spin', program)
      BY <1>1, <3>2
    <3> QED
      BY <1>1, <1>2, <2>1, <3>1, <3>3, HaltsEnd DEF SchedTypes
  <2> QED
    BY <2>2, <2>3
<1>5. CASE k.state[t] \cap {"DEAD", "ABORTING"} = {}
  <2>1. /\ s \in Kernel /\ s.runq = k.runq /\ s.prio = k.prio /\ s.current = k.current
        /\ s.pending_ipi = k.pending_ipi /\ s.armed = k.armed
        /\ \A v \in Threads :
             /\ s.state[v] = IF v = t THEN k.state[v] \ {"PENDING"} ELSE k.state[v]
             /\ s.pended_on[v] = IF v = t THEN <<>> ELSE k.pended_on[v]
    <3>1. CASE k.pended_on[t] # <<>>
      <4> DEFINE p == Unpended(k, t)
      <4>1. /\ p \in Kernel
            /\ p = [k EXCEPT !.state = p.state, !.pended_on = p.pended_on]
            /\ \A v \in Threads :
                 /\ p.state[v] = IF v = t THEN k.state[v] \ {"PENDING"} ELSE k.state[v]
                 /\ p.pended_on[v] = IF v = t THEN <<>> ELSE k.pended_on[v]
        BY <1>2, UnpendedFields
      <4>2. s = p
        BY <3>1
      <4> HIDE DEF p, s
      <4> QED
        BY <1>2, <4>1, <4>2 DEF Kernel
    <3>2. CASE k.pended_on[t] = <<>>
      <4>1. "PENDING" \notin k.state[t] /\ s = k
        BY <1>2, <3>2 DEF Sound, Waiting
      <4>2. k.state[t] \ {"PENDING"} = k.state[t]
        BY <4>1
      <4> QED
        BY <1>2, <3>2, <4>1, <4>2
    <3> QED
      BY <3>1, <3>2
  <2> HIDE DEF s, t
  <2> DEFINE st == [s.state EXCEPT ![t] = @ \ {"SLEEPING"}]
  <2>2. /\ st \in [Threads -> States]
        /\ \A v \in Threads : st[v] = IF v = t THEN s.state[v] \ {"SLEEPING"} ELSE s.state[v]
    BY <2>1 DEF Kernel, States
  <2>3. m = [s EXCEPT !.state = st]
    OBVIOUS
  <2> HIDE DEF st, m
  <2>4. /\ m \in Kernel /\ m.runq = k.runq /\ m.prio = k.prio /\ m.current = k.current
        /\ m.pending_ipi = k.pending_ipi /\ m.pended_on = s.pended_on
        /\ m.state = st /\ m.armed = k.armed
    BY <2>1, <2>2, <2>3 DEF Kernel
  <2>5. \A v \in Threads \ {t} : m.state[v] = k.state[v] /\ m.pended_on[v] = k.pended_on[v]
    BY <2>1, <2>2, <2>4
  <2>6. "PENDING" \notin m.state[t] /\ m.pended_on[t] = <<>>
    BY <1>2, <2>1, <2>2, <2>4
  <2>7. Waiting(m)
    <3>1. \A v \in Threads : m.pended_on[v] # <<>> <=> "PENDING" \in m.state[v]
      BY <1>2, <2>5, <2>6 DEF Sound, Waiting
    <3>2. ASSUME NEW v \in Threads PROVE NotOwnQueue(m, v)
      <4>1. <<>> # <<"join", v>> /\ <<>> # <<"halt", v>>
        OBVIOUS
      <4>2. m.pended_on[v] = <<>> \/ m.pended_on[v] = k.pended_on[v]
        BY <2>5, <2>6
      <4> QED
        BY <1>2, <4>1, <4>2 DEF Sound, Waiting, NotOwnQueue
    <3>3. \A v \in m.armed : m.state[v] \cap {"SLEEPING", "PENDING"} # {}
      BY <1>2, <2>4, <2>5 DEF Sound, Waiting, Kernel
    <3> QED
      BY <3>1, <3>2, <3>3 DEF Waiting
  <2>8. ~Queued(k, t)
    <3>1. ~z_is_thread_ready(k, t)
      BY <1>2 DEF z_is_thread_ready, Preventing
    <3> QED
      BY <1>2, <3>1 DEF Sound, Placed
  <2>9. \A d \in Cpus : k.current[d] # t
    <3>1. t # None
      BY <1>2, SchedAssumption
    <3> QED
      BY <1>2, <3>1 DEF Rests
  <2>10. Unblocks(k, m, t)
    BY <2>4, <2>5, <2>7, <2>8, <2>9 DEF Unblocks
  <2>11. k' = ready_thread(m, c, t)
    BY <1>1, <1>5
  <2>12. /\ k' \in Kernel /\ Sound(k') /\ Alike(m, k')
         /\ k.pending_ipi \subseteq k'.pending_ipi
         /\ \A d \in Cpus : AsGood(k, k', d)
         /\ \A d \in Cpus : k'.current[d] = k.current[d]
         /\ \A v \in Threads \ {t} : k'.state[v] = k.state[v]
    BY <1>2, <2>10, <2>11, UnblockKeeps
  <2>13. \A d \in Cpus : Told(k', d, in_isr', ipi')
    BY <1>1, <1>3, <2>12 DEF Told, AsGood
  <2>14. ASSUME NEW d \in Cpus PROVE Rests(k', d, in_isr')
    <3>1. k.current[d] # t /\ k.current[d] \in Threads \cup {None}
      BY <1>2, <2>9 DEF Kernel
    <3>2. k'.current[d] # None => k'.state[k'.current[d]] = k.state[k'.current[d]]
      BY <2>12, <3>1
    <3> QED
      BY <1>3, <2>12, <3>2, RestsLike
  <2>15. KernelInv'
    BY <1>1, <1>2, <2>12, <2>13, <2>14, StepEnds DEF SchedTypes
  <2>16. ASSUME HaltInv PROVE HaltInv'
    <3>1. halting[t] = None /\ halting \in [Threads -> Threads \cup {None}]
      BY <1>2, <2>16 DEF HaltInv, Halts, Untimed, SchedTypes, t
    <3>2. m.state[t] = (k.state[t] \ {"PENDING"}) \ {"SLEEPING"}
      BY <1>2, <2>1, <2>2, <2>4
    <3>3. ASSUME NEW v \in Threads
          PROVE  /\ m.state[v] \cap (Halting \cup {"DEAD"}) = k.state[v] \cap (Halting \cup {"DEAD"})
                 /\ "SUSPENDED" \in m.state[v] <=> "SUSPENDED" \in k.state[v]
      <4>1. CASE v = t
        BY <3>2, <4>1 DEF Halting
      <4>2. CASE v # t
        BY <2>5, <4>2
      <4> QED
        BY <4>1, <4>2
    <3>4. ASSUME NEW v \in Threads, halting[v] # None
          PROVE  /\ m.pended_on[v] = k.pended_on[v]
                 /\ v \in m.armed => v \in k.armed
                 /\ "SUSPENDED" \in k.state[halting[v]] => "SUSPENDED" \in m.state[halting[v]]
      BY <2>4, <2>5, <3>1, <3>3, <3>4
    <3>5. Halts(m, halting, None, spin, program)
      BY <2>4, <2>16, <3>1, <3>3, <3>4, HaltsNobody
    <3>6. Halts(m, halting', firing', spin', program)
      BY <1>1, <3>5
    <3>7. Onward(m, k', program)
      BY <2>4, <2>12, OnwardAlike DEF Alike
    <3> QED
      BY <1>1, <1>2, <2>4, <2>12, <3>6, <3>7, HaltsEnd DEF SchedTypes
  <2> QED
    BY <2>15, <2>16
<1> QED
  BY <1>4, <1>5

LEMMA IsrExitKeeps ==
  ASSUME KernelInv, firing = None, NEW c \in Cpus, IsrExit(c)
  PROVE  KernelInv' /\ (HaltInv => HaltInv')
<1>1. /\ in_isr' = in_isr \ {c} /\ spin' = [spin EXCEPT ![c] = None] /\ z_swap(k, c)
      /\ UNCHANGED <<firing, halting, program>>
  BY DEF IsrExit
<1>2. /\ k \in Kernel /\ SchedTypes /\ Sound(k)
      /\ \A d \in Cpus : Rests(k, d, in_isr) /\ Told(k, d, in_isr, ipi)
  BY DEF KernelInv, SchedTypes
<1>3. PICK r : r = next_up(k, c)
  OBVIOUS
<1>4. k' = [r EXCEPT !.pending_ipi = {}] /\ ipi' = ipi \cup (r.pending_ipi \ {c})
  BY <1>1, <1>3 DEF z_swap, signal_pending_ipi
<1>5. \A d \in Cpus \ {c} : Rests(k, d, in_isr') /\ Told(k, d, in_isr', ipi)
  BY <1>1, <1>2 DEF Rests, Told
<1>6. c \notin in_isr' /\ ipi \cup (r.pending_ipi \ {c}) \subseteq ipi'
  BY <1>1, <1>4
<1>7. /\ k' \in Kernel /\ Sound(k')
      /\ \A d \in Cpus : Rests(k', d, in_isr') /\ Told(k', d, in_isr', ipi')
      /\ HaltsThenSwitches(k, k', c)
  BY <1>2, <1>3, <1>4, <1>5, <1>6, SwapKeeps
<1>8. ipi' \subseteq Cpus
  <2>1. OthersRun(k, c)
    BY <1>5 DEF OthersRun, Rests
  <2>2. r \in Kernel
    BY <1>2, <1>3, <1>6, <2>1, NextUp DEF Chosen
  <2> QED
    BY <1>2, <1>4, <2>2 DEF Kernel, SchedTypes
<1>9. spin' \in [Cpus -> Threads \cup {None}]
  BY <1>1, <1>2 DEF SchedTypes
<1>10. KernelInv'
  BY <1>1, <1>2, <1>7, <1>8, <1>9, StepEnds DEF SchedTypes
<1>11. ASSUME HaltInv PROVE HaltInv'
  <2>1. \A v \in Threads : Flagged(k, v)
    BY <1>11 DEF HaltInv, Halts
  <2>2. Onward(k, k', program)
    BY <1>2, <1>7, <2>1, OnwardSwitch
  <2>3. \A d \in Cpus : spin'[d] = None \/ spin'[d] = spin[d]
    BY <1>1, <1>2 DEF SchedTypes
  <2>4. \A d \in Cpus : Spins(k, spin', program, d)
    BY <1>11, <2>3 DEF HaltInv, Halts, Spins
  <2>5. Halts(k, halting', firing', spin', program)
    BY <1>1, <1>11, <2>4 DEF HaltInv, Halts
  <2> QED
    BY <1>1, <1>2, <1>7, <1>9, <2>2, <2>5, HaltsEnd DEF SchedTypes
<1> QED
  BY <1>10, <1>11

\* k with the flag by which an interrupt asks u to abort.
LEMMA FlagKeeps ==
  ASSUME KernelInv, NEW u \in Threads
  PROVE  LET m == [k EXCEPT !.state[u] = @ \cup {"ABORTING"}]
         IN  /\ m \in Kernel /\ Sound(m)
             /\ m.current = k.current /\ m.pending_ipi = k.pending_ipi
             /\ m.pended_on = k.pended_on /\ m.armed = k.armed
             /\ \A v \in Threads :
                  m.state[v] = IF v = u THEN k.state[v] \cup {"ABORTING"} ELSE k.state[v]
             /\ \A d \in Cpus : Rests(m, d, in_isr) /\ Told(m, d, in_isr, ipi)
<1> DEFINE st == [k.state EXCEPT ![u] = @ \cup {"ABORTING"}]
           m == [k EXCEPT !.state[u] = @ \cup {"ABORTING"}]
<1>1. /\ k \in Kernel /\ Placed(k) /\ Waiting(k) /\ \A v \in Threads : Found(k, v)
      /\ \A d \in Cpus : Rests(k, d, in_isr) /\ Told(k, d, in_isr, ipi)
  BY DEF KernelInv, SchedTypes, Sound
<1>2. /\ st \in [Threads -> States]
      /\ \A v \in Threads : st[v] = IF v = u THEN k.state[v] \cup {"ABORTING"} ELSE k.state[v]
  BY <1>1 DEF Kernel, States, Halting
<1>3. m = [k EXCEPT !.state = st]
  OBVIOUS
<1> HIDE DEF st, m
<1>4. /\ m \in Kernel /\ m.runq = k.runq /\ m.prio = k.prio /\ m.current = k.current
      /\ m.pending_ipi = k.pending_ipi /\ m.pended_on = k.pended_on
      /\ m.state = st /\ m.armed = k.armed
  BY <1>1, <1>2, <1>3 DEF Kernel
<1>5. \A v \in Threads : m.state[v] \cap Preventing = k.state[v] \cap Preventing
  BY <1>2, <1>4 DEF Preventing
<1>6. Placed(m) /\ \A v \in Threads : Found(m, v)
  <2>1. \A v \in Threads : z_is_thread_ready(m, v) <=> z_is_thread_ready(k, v)
    BY <1>5 DEF z_is_thread_ready
  <2>2. \A v \in Threads : Queued(k, v) => z_is_thread_ready(m, v)
    BY <1>1, <2>1 DEF Placed
  <2> QED
    BY <1>1, <1>4, <2>1, <2>2, BlockKeeps
<1>7. Waiting(m)
  <2>1. \A v \in Threads : m.pended_on[v] # <<>> <=> "PENDING" \in m.state[v]
    BY <1>1, <1>2, <1>4 DEF Waiting
  <2>2. \A v \in Threads : NotOwnQueue(m, v)
    BY <1>1, <1>4 DEF Waiting, NotOwnQueue
  <2>3. ASSUME NEW v \in m.armed PROVE m.state[v] \cap {"SLEEPING", "PENDING"} # {}
    <3>1. v \in Threads /\ k.state[v] \cap {"SLEEPING", "PENDING"} # {}
      BY <1>1, <1>4 DEF Waiting, Kernel
    <3> QED
      BY <1>2, <1>4, <3>1
  <2> QED
    BY <2>1, <2>2, <2>3 DEF Waiting
<1>8. ASSUME NEW d \in Cpus PROVE Rests(m, d, in_isr)
  <2>1. k.current[d] \in Threads \cup {None}
    BY <1>1 DEF Kernel
  <2>2. m.current[d] # None =>
          m.state[m.current[d]] \cap Preventing \subseteq k.state[m.current[d]]
    BY <1>4, <1>5, <2>1
  <2> QED
    BY <1>1, <1>4, <2>2, RestsLike
<1>9. \A d \in Cpus : Told(m, d, in_isr, ipi)
  BY <1>1, <1>4 DEF Told, BestOn, NotWorse, Queued
<1> QED
  BY <1>2, <1>4, <1>6, <1>7, <1>8, <1>9 DEF Sound, m

LEMMA IsrAbortKeeps ==
  ASSUME KernelInv, firing = None, NEW c \in Cpus, NEW u \in Threads, IsrAbort(c, u)
  PROVE  KernelInv' /\ (HaltInv => HaltInv')
<1>1. /\ k \in Kernel /\ SchedTypes /\ Sound(k)
      /\ \A d \in Cpus : Rests(k, d, in_isr) /\ Told(k, d, in_isr, ipi)
  BY DEF KernelInv, SchedTypes
<1>2. /\ "isr abort" \in program /\ "DEAD" \notin k.state[u] /\ in_isr' = in_isr \cup {c}
      /\ UNCHANGED <<firing, halting, program>>
  BY DEF IsrAbort
<1>3. CASE thread_active_elsewhere(k, c, u)
  <2> DEFINE m == [k EXCEPT !.state[u] = @ \cup {"ABORTING"}]
  <2>1. /\ k' = HaltCurrent(m, c)
        /\ ipi' = ipi \cup {d \in Cpus : k.current[d] = u}
        /\ spin' = [spin EXCEPT ![c] = u]
    BY <1>3 DEF IsrAbort, thread_halt_spin
  <2>2. /\ m \in Kernel /\ Sound(m)
        /\ \A d \in Cpus : Rests(m, d, in_isr) /\ Told(m, d, in_isr, ipi)
        /\ m.current = k.current /\ m.pended_on = k.pended_on /\ m.armed = k.armed
        /\ \A v \in Threads :
             m.state[v] = IF v = u THEN k.state[v] \cup {"ABORTING"} ELSE k.state[v]
    BY FlagKeeps
  <2> HIDE DEF m
  <2>3. OthersRun(m, c)
    BY <2>2 DEF OthersRun, Rests
  <2>4. /\ CurrentHalted(m, k', c) /\ Sound(k') /\ k' \in Kernel
        /\ \A d \in Cpus \ {c} : k'.current[d] = m.current[d]
        /\ \/ k' = m \/ k'.current[c] = None
           \/ k'.current[c] = m.current[c] /\ Halted(m, k', m.current[c], "SUSPENDED")
        /\ m.pending_ipi \subseteq k'.pending_ipi
        /\ \A d \in Cpus : AsGood(m, k', d) \/ d = c
    <3>1. PICK n : n = HaltCurrent(m, c)
      OBVIOUS
    <3>2. k' = n /\ c \in in_isr'
      BY <1>2, <2>1, <3>1
    <3>3. /\ CurrentHalted(m, n, c) /\ Sound(n) /\ n \in Kernel
          /\ \A d \in Cpus \ {c} : n.current[d] = m.current[d]
          /\ \/ n = m \/ (c \in in_isr' /\ n.current[c] = None)
             \/ n.current[c] = m.current[c] /\
                  (c \in in_isr' => Halted(m, n, m.current[c], "SUSPENDED"))
          /\ m.pending_ipi \subseteq n.pending_ipi
          /\ \A d \in Cpus : AsGood(m, n, d) \/ (c \in in_isr' /\ d = c)
      BY <2>2, <2>3, <3>1, HaltCurrentKeeps
    <3> QED
      BY <3>2, <3>3
  <2>5. ASSUME NEW d \in Cpus PROVE Told(k', d, in_isr', ipi')
    <3>1. CASE d = c
      BY <1>2, <3>1 DEF Told
    <3>2. CASE d # c
      BY <1>2, <2>1, <2>2, <2>4, <3>2 DEF Told, AsGood
    <3> QED
      BY <3>1, <3>2
  <2>6. \A d \in Cpus : Rests(m, d, in_isr')
    BY <1>2, <2>2, InIsrMore
  <2>7. ASSUME NEW d \in Cpus \ {c} PROVE Rests(k', d, in_isr')
    <3>1. CASE m.current[d] = None
      BY <2>4, <3>1 DEF Rests
    <3>2. CASE m.current[d] # None
      <4>1. m.current[d] # m.current[c] /\ m.current[d] \in Threads
        BY <2>2, <3>2 DEF Sound, Placed, Kernel
      <4>2. k'.state[m.current[d]] \subseteq m.state[m.current[d]]
        BY <2>2, <2>4, <4>1, CurrentHaltedOthers
      <4> QED
        BY <2>4, <2>6, <4>2, RestsLike
    <3> QED
      BY <3>1, <3>2
  <2>8. Rests(k', c, in_isr')
    <3>1. CASE k' = m
      BY <2>6, <3>1
    <3>2. CASE k'.current[c] = None
      BY <3>2 DEF Rests
    <3>3. CASE k'.current[c] # None /\ k'.current[c] = m.current[c]
                 /\ Halted(m, k', m.current[c], "SUSPENDED")
      <4>1. k'.state[m.current[c]] = ((m.state[m.current[c]] \cup {"SUSPENDED"}) \ Halting) \ {}
        BY <3>3 DEF Halted
      <4> QED
        BY <1>2, <2>6, <3>3, <4>1 DEF Rests
    <3> QED
      BY <2>4, <3>1, <3>2, <3>3
  <2>9. \A d \in Cpus : Rests(k', d, in_isr') /\ Told(k', d, in_isr', ipi')
    BY <2>5, <2>7, <2>8
  <2>10. KernelInv'
    BY <1>1, <1>2, <2>1, <2>4, <2>9, StepEnds DEF SchedTypes
  <2>11. ASSUME HaltInv PROVE HaltInv'
    <3>1. RunsIn(k, u)
      BY <1>3 DEF thread_active_elsewhere, RunsIn
    <3>2. /\ m.state[u] = k.state[u] \cup {"ABORTING"}
          /\ \A v \in Threads \ {u} : m.state[v] = k.state[v]
          /\ "ABORTING" \in Halting /\ halting \in [Threads -> Threads \cup {None}]
      BY <1>1, <2>2 DEF Halting, SchedTypes
    <3>3. PICK flag \in Halting : flag = "ABORTING"
      BY <3>2
    <3>4. Halts(m, halting, None, spin, program)
      BY <1>2, <2>2, <2>11, <3>1, <3>2, <3>3, FlagHalts
    <3>5. \A v \in Threads : Flagged(m, v)
      BY <3>4 DEF Halts
    <3>6. m.current[c] # None => m.current[c] \in Threads
      BY <2>2 DEF Kernel
    <3>7. k' = m \/ k'.current[c] \in {None, m.current[c]}
      BY <2>4
    <3>8. Onward(m, k', program)
      BY <2>2, <2>4, <3>5, <3>6, <3>7, OnwardCurrentHalted
    <3>9. ASSUME NEW d \in Cpus PROVE Spins(m, spin', program, d)
      <4>1. CASE d = c
        <5>1. spin'[d] = u /\ "ABORTING" \in m.state[u]
          BY <1>1, <2>1, <3>2, <4>1 DEF SchedTypes
        <5> QED
          BY <1>2, <5>1 DEF Spins
      <4>2. CASE d # c
        <5>1. spin'[d] = spin[d]
          BY <1>1, <2>1, <4>2 DEF SchedTypes
        <5> QED
          BY <3>4, <5>1 DEF Halts, Spins
      <4> QED
        BY <4>1, <4>2
    <3>10. spin' \in [Cpus -> Threads \cup {None}]
      BY <1>1, <2>1 DEF SchedTypes
    <3>11. Halts(m, halting', firing', spin', program)
      BY <1>2, <3>4, <3>9 DEF Halts
    <3> QED
      BY <1>1, <1>2, <2>2, <2>4, <3>8, <3>10, <3>11, HaltsEnd DEF SchedTypes
  <2> QED
    BY <2>10, <2>11
<1>4. CASE ~thread_active_elsewhere(k, c, u)
  <2>1. k' = halt_thread(k, c, u, "DEAD") /\ ipi' = ipi /\ spin' = spin
    BY <1>3, <1>4 DEF IsrAbort, Unlock
  <2>2. PICK new_state \in {"DEAD", "SUSPENDED"} : new_state = "DEAD"
    OBVIOUS
  <2>3. /\ Halted(k, k', u, new_state) /\ Sound(k')
        /\ k'.current = IF Dummify(k, c, u, new_state)
                          THEN [k.current EXCEPT ![c] = None] ELSE k.current
        /\ k.pending_ipi \subseteq k'.pending_ipi
        /\ \A d \in Cpus : AsGood(k, k', d) \/ (Dummify(k, c, u, new_state) /\ d = c)
    <3>1. HaltsNow(k, k', c, u, new_state)
      BY <1>2, <2>1, <2>2, HaltNow
    <3> QED
      BY <3>1 DEF HaltsNow
  <2>4. ASSUME NEW d \in Cpus PROVE Told(k', d, in_isr', ipi')
    <3>1. CASE d = c
      BY <1>2, <3>1 DEF Told
    <3>2. CASE d # c
      BY <1>1, <1>2, <2>1, <2>3, <3>2 DEF Told, AsGood
    <3> QED
      BY <3>1, <3>2
  <2>5. ASSUME NEW d \in Cpus PROVE Rests(k', d, in_isr')
    <3>1. Rests(k, d, in_isr')
      BY <1>1, <1>2, InIsrMore
    <3>2. k.current \in [Cpus -> Threads \cup {None}]
      BY <1>1 DEF Kernel
    <3>3. k'.current[d] = None \/ (k'.current[d] = k.current[d] /\ k.current[d] # u)
      <4>1. CASE k.current[d] = u
        <5>1. d = c
          BY <1>4, <4>1 DEF thread_active_elsewhere
        <5>2. Dummify(k, c, u, new_state)
          BY <1>2, <2>2, <4>1, <5>1 DEF Dummify
        <5> QED
          BY <2>3, <3>2, <5>1, <5>2
      <4>2. CASE k.current[d] # u
        BY <2>3, <3>2, <4>2
      <4> QED
        BY <4>1, <4>2
    <3> QED
      BY <1>1, <2>3, <3>1, <3>3, HaltRests
  <2>6. k' \in Kernel
    BY <2>3 DEF Halted
  <2>7. KernelInv'
    BY <1>1, <1>2, <2>1, <2>3, <2>4, <2>5, <2>6, StepEnds DEF SchedTypes
  <2>8. ASSUME HaltInv PROVE HaltInv'
    <3>1. \A d \in Cpus : k.current[d] # u => k'.current[d] = k.current[d]
      <4>1. k.current \in [Cpus -> Threads \cup {None}]
        BY <1>1 DEF Kernel
      <4>2. CASE Dummify(k, c, u, new_state)
        <5>1. k.current[c] = u /\ k'.current = [k.current EXCEPT ![c] = None]
          BY <2>3, <4>2 DEF Dummify
        <5> QED
          BY <4>1, <5>1
      <4>3. CASE ~Dummify(k, c, u, new_state)
        BY <2>3, <4>3
      <4> QED
        BY <4>2, <4>3
    <3>2. Onward(k, k', program)
      BY <1>1, <2>2, <2>3, <3>1, OnwardHalted
    <3>3. Halts(k, halting', firing', spin', program)
      BY <1>2, <2>1, <2>8 DEF HaltInv
    <3> QED
      BY <1>1, <1>2, <2>1, <2>6, <3>2, <3>3, HaltsEnd DEF SchedTypes
  <2> QED
    BY <2>7, <2>8
<1> QED
  BY <1>3, <1>4

-----------------------------------------------------------------------------
(* The invariant *)

LEMMA InitKernel ==
  Init => KernelInv /\ HaltInv
<1> SUFFICES ASSUME Init PROVE KernelInv /\ HaltInv
  OBVIOUS
<1>1. PICK q \in SetToSeqs(Threads) :
        /\ \A i, j \in DOMAIN q : i < j => Base[q[i]] <= Base[q[j]]
        /\ k = [state |-> [t \in Threads |-> {}],
                prio |-> Base,
                runq |-> q,
                current |-> [c \in Cpus |-> None],
                swap_ok |-> [c \in Cpus |-> FALSE],
                pended_on |-> [t \in Threads |-> <<>>],
                armed |-> {},
                pending_ipi |-> {}]
  BY DEF Init
<1>2. Base \in [Threads -> Int] /\ None \notin Threads /\ IsFiniteSet(Threads)
  BY SchedAssumption
<1> DEFINE n == Cardinality(Threads)
<1>3. n \in Nat
  BY <1>2, FS_CardinalityType
<1>4. q \in [1..n -> Threads] /\ \A i, j \in 1..n : i # j => q[i] # q[j]
  BY DEF SetToSeqs
<1>5. \A v \in Threads : \E i \in 1..n : q[i] = v
  <2>1. q \in Injection(1..n, Threads)
    BY <1>4 DEF Injection, IsInjective
  <2>2. Cardinality(1..n) = n
    <3>1. Cardinality(1..n) = IF 1 > n THEN 0 ELSE n - 1 + 1
      BY <1>3, FS_Interval
    <3> QED
      BY <1>3, <3>1
  <2>3. q \in Surjection(1..n, Threads)
    BY <1>2, <2>1, <2>2, FS_Injection
  <2> QED
    BY <2>3 DEF Surjection
<1> HIDE DEF n
<1>6. q \in Seq(Threads) /\ Len(q) = n
  BY <1>3, <1>4
<1>7. ToSet(q) = Threads
  <2>1. ToSet(q) = {q[i] : i \in 1..Len(q)} /\ ToSet(q) \subseteq Threads
    BY <1>6, ListElements
  <2> QED
    BY <1>5, <1>6, <2>1
<1>8. /\ k \in Kernel /\ k.runq = q /\ k.prio = Base /\ k.armed = {}
      /\ \A v \in Threads : k.state[v] = {} /\ k.pended_on[v] = <<>>
      /\ \A c \in Cpus : k.current[c] = None
  BY <1>1, <1>2, <1>6 DEF Kernel, States, WaitQueues
<1>9. SchedTypes
  BY <1>8 DEF SchedTypes, Init
<1>10. WellQueued(k)
  <2>1. Distinct(q)
    BY <1>4, <1>6 DEF Distinct
  <2>2. DOMAIN q = 1..Len(q)
    BY <1>6
  <2>3. Ordered(q, Base)
    BY <1>1, <2>2 DEF Ordered
  <2> QED
    BY <1>8, <2>1, <2>3 DEF WellQueued
<1>11. /\ \A v : Queued(k, v) <=> v \in Threads
       /\ \A v \in Threads : z_is_thread_ready(k, v)
  BY <1>7, <1>8 DEF Queued, z_is_thread_ready
<1>12. Placed(k)
  BY <1>2, <1>8, <1>10, <1>11 DEF Placed
<1>13. Waiting(k)
  <2>1. \A v \in Threads : <<>> # <<"join", v>> /\ <<>> # <<"halt", v>>
    OBVIOUS
  <2> QED
    BY <1>8, <2>1 DEF Waiting, NotOwnQueue
<1>14. Sound(k)
  BY <1>11, <1>12, <1>13 DEF Sound, Found
<1>15. \A d \in Cpus : Rests(k, d, in_isr) /\ Told(k, d, in_isr, ipi)
  BY <1>8 DEF Rests, Told, Init
<1>16. firing = None
  BY DEF Init
<1>17. HaltInv
  <2>1. /\ \A t \in Threads : halting[t] = None
        /\ \A c \in Cpus : spin[c] = None
    BY DEF Init
  <2> QED
    BY <1>8, <2>1 DEF HaltInv, Halts, Waits, Untimed, Flagged, Spins
<1> QED
  BY <1>9, <1>14, <1>15, <1>16, <1>17 DEF KernelInv

LEMMA NextKernel ==
  ASSUME ~LateCallback, NoResumeOfInterrupted, KernelInv, [Next]_vars
  PROVE  KernelInv' /\ (HaltInv => HaltInv')
<1> DEFINE G == KernelInv' /\ (HaltInv => HaltInv')
<1> HIDE DEF G
<1>1. ASSUME UNCHANGED vars PROVE G
  <2>1. SchedTypes' /\ Sound(k') /\ k' = k /\ firing' = firing
    BY <1>1 DEF vars, KernelInv, SchedTypes
  <2>2. \A d \in Cpus : Rests(k, d, in_isr)' /\ Told(k, d, in_isr, ipi)'
    BY <1>1 DEF vars, KernelInv, Rests, Told
  <2>3. KernelInv'
    BY <2>1, <2>2 DEF KernelInv
  <2>4. HaltInv => HaltInv'
    BY <1>1 DEF vars, HaltInv, Halts, Waits, Untimed, Flagged, Spins, RunsIn
  <2> QED
    BY <2>3, <2>4 DEF G
<1>2. ASSUME NEW c \in Cpus, z_thread_timeout(c) PROVE G
  BY <1>2, TimeoutKeeps DEF G
<1>3. ASSUME firing = None, NEW c \in Cpus, NEW t \in Threads, ThreadCall(c, t)
      PROVE  G
  <2>1. ASSUME k_yield(c, t) \/ k_sleep(c, t) PROVE G
    BY <1>3, <2>1, YieldKeeps, SleepKeeps DEF G
  <2>2. ASSUME NEW u \in Threads, k_wakeup(c, t, u) PROVE G
    BY <1>3, <2>2, WakeupKeeps DEF G
  <2>3. ASSUME NEW u \in Threads, k_thread_suspend(c, t, u) PROVE G
    BY <1>3, <2>3, SuspendKeeps DEF G
  <2>4. ASSUME NEW u \in Threads, k_thread_resume(c, t, u) PROVE G
    BY <1>3, <2>4, ResumeKeeps DEF G
  <2>5. ASSUME NEW u \in Threads, k_thread_abort(c, t, u) PROVE G
    BY <1>3, <2>5, AbortKeeps DEF G
  <2>6. ASSUME NEW u \in Threads, NEW timeout \in BOOLEAN, k_thread_join(c, t, u, timeout)
        PROVE  G
    BY <1>3, <2>6, JoinKeeps DEF G
  <2>7. ASSUME NEW u \in Threads, NEW prio \in Prios, k_thread_priority_set(c, t, u, prio)
        PROVE  G
    BY <1>3, <2>7, PriorityKeeps DEF G
  <2> QED
    BY <1>3, <2>1, <2>2, <2>3, <2>4, <2>5, <2>6, <2>7 DEF ThreadCall
<1>4. ASSUME firing = None, NEW c \in Cpus, NEW t \in Threads, IsrAbort(c, t)
      PROVE  G
  BY <1>4, IsrAbortKeeps DEF G
<1>5. ASSUME firing = None, NEW c \in Cpus, z_sched_ipi(c) \/ IsrExit(c)
      PROVE  G
  BY <1>5, IpiKeeps, IsrExitKeeps DEF G
<1>6. ASSUME NEW t \in Threads, Expire(t)
      PROVE  G
  BY <1>6, ExpireKeeps DEF G
<1> QED
  BY <1>1, <1>2, <1>3, <1>4, <1>5, <1>6 DEF Next, G

LEMMA KernelInvariant ==
  ASSUME ~LateCallback, NoResumeOfInterrupted
  PROVE  Spec => []KernelInv
<1>1. Init => KernelInv
  BY InitKernel
<1>2. KernelInv /\ [Next]_vars => KernelInv'
  BY NextKernel
<1> QED
  BY <1>1, <1>2, PTL DEF Spec

LEMMA HaltInvariant ==
  ASSUME ~LateCallback, NoResumeOfInterrupted
  PROVE  Spec => [](KernelInv /\ HaltInv)
<1>1. Init => KernelInv /\ HaltInv
  BY InitKernel
<1>2. KernelInv /\ HaltInv /\ [Next]_vars => KernelInv' /\ HaltInv'
  BY NextKernel
<1> QED
  BY <1>1, <1>2, PTL DEF Spec

-----------------------------------------------------------------------------
(* What has to hold *)

\* A set none of whose elements differ has at most one.
LEMMA AtMostOne ==
  ASSUME NEW S, \A x, y \in S : x = y
  PROVE  Cardinality(S) \in {0, 1} /\ (S = {} => Cardinality(S) = 0)
<1>1. CASE S = {}
  BY <1>1, FS_EmptySet
<1>2. CASE S # {}
  <2>1. PICK x \in S : TRUE
    BY <1>2
  <2>2. S = {x}
    BY <2>1
  <2> QED
    BY <1>2, <2>2, FS_Singleton
<1> QED
  BY <1>1, <1>2

\* The kernel data keeps its type, and the run queue (add_to_runq, by priority)
\* stays in order and never has a thread twice, whatever the calls, threads and
\* CPUs.
THEOREM SchedTypeCorrect ==
  ASSUME ~LateCallback, NoResumeOfInterrupted
  PROVE  Spec => [](SchedTypes /\ WellQueued(k))
<1>1. KernelInv => SchedTypes /\ WellQueued(k)
  BY DEF KernelInv, Sound, Placed
<1> QED
  BY <1>1, KernelInvariant, PTL

\* No thread is lost or in two places (ready_thread, next_up, halt_thread): for any
\* number of CPUs and threads, unless callbacks of timeouts come late or threads
\* are resumed that an interrupt has suspended on its CPU.
THEOREM SchedNoThreadLost ==
  ASSUME ~LateCallback, NoResumeOfInterrupted
  PROVE  Spec => []NoThreadLost
<1>1. KernelInv => NoThreadLost
  <2> SUFFICES ASSUME KernelInv, NEW t \in Threads
               PROVE  /\ Cardinality({c \in Cpus : k.current[c] = t})
                           + Cardinality({i \in DOMAIN k.runq : k.runq[i] = t}) <= 1
                      /\ z_is_thread_ready(k, t) => Queued(k, t) \/ Runs(t)
                      /\ Queued(k, t) \/ (\E c \in Cpus \ in_isr : k.current[c] = t)
                           => z_is_thread_ready(k, t)
    BY DEF NoThreadLost
  <2>1. /\ k \in Kernel /\ Placed(k) /\ Found(k, t)
        /\ \A d \in Cpus : Rests(k, d, in_isr)
    BY DEF KernelInv, SchedTypes, Sound
  <2>2. k.runq \in Seq(Threads) /\ t # None
    BY <2>1, SchedAssumption DEF Kernel
  <2> DEFINE C == {c \in Cpus : k.current[c] = t}
             Q == {i \in DOMAIN k.runq : k.runq[i] = t}
  <2>3. Cardinality(C) \in {0, 1} /\ (C = {} => Cardinality(C) = 0)
    <3>1. \A x, y \in C : x = y
      BY <2>1, <2>2 DEF Placed
    <3> HIDE DEF C
    <3> QED
      BY <3>1, AtMostOne
  <2>4. Cardinality(Q) \in {0, 1} /\ (Q = {} => Cardinality(Q) = 0)
    <3>1. \A x, y \in Q : x = y
      BY <2>1, <2>2 DEF Placed, WellQueued, Distinct
    <3> HIDE DEF Q
    <3> QED
      BY <3>1, AtMostOne
  <2>5. C = {} \/ Q = {}
    <3>1. ToSet(k.runq) = {k.runq[i] : i \in 1..Len(k.runq)}
      BY <2>2, ListElements
    <3>2. Q # {} => Queued(k, t)
      BY <2>2, <3>1 DEF Queued
    <3>3. C # {} => ~Queued(k, t)
      BY <2>1 DEF Placed
    <3> QED
      BY <3>2, <3>3
  <2>6. Cardinality(C) + Cardinality(Q) <= 1
    <3> HIDE DEF C, Q
    <3> QED
      BY <2>3, <2>4, <2>5
  <2>7. z_is_thread_ready(k, t) => Queued(k, t) \/ Runs(t)
    BY <2>1 DEF Found, Runs
  <2>8. Queued(k, t) => z_is_thread_ready(k, t)
    BY <2>1 DEF Placed
  <2>9. (\E c \in Cpus \ in_isr : k.current[c] = t) => z_is_thread_ready(k, t)
    BY <2>1, <2>2 DEF Rests, z_is_thread_ready, Preventing
  <2> QED
    BY <2>6, <2>7, <2>8, <2>9
<1> QED
  BY <1>1, KernelInvariant, PTL

\* No CPU goes on with a thread while a better one is ready (next_up, flag_ipi,
\* signal_pending_ipi): for any number of CPUs, threads and priorities.
THEOREM SchedBestRuns ==
  ASSUME ~LateCallback, NoResumeOfInterrupted
  PROVE  Spec => []BestRuns
<1>1. KernelInv => BestRuns
  <2> SUFFICES ASSUME KernelInv, ipi = {}, in_isr = {}, k.pending_ipi = {}, k.runq # <<>>,
                      NEW c \in Cpus
               PROVE  k.current[c] # None /\ (k.prio[k.current[c]] <= k.prio[Head(k.runq)]
                                                \/ k.prio[k.current[c]] < 0)
    BY DEF BestRuns
  <2>1. k \in Kernel /\ WellQueued(k) /\ Told(k, c, in_isr, ipi)
    BY DEF KernelInv, SchedTypes, Sound, Placed
  <2>2. Head(k.runq) \in Threads /\ Queued(k, Head(k.runq))
    BY <2>1, HeadIsBest
  <2>3. BestOn(k, c)
    BY <2>1 DEF Told
  <2> QED
    BY <2>2, <2>3 DEF BestOn, NotWorse
<1> QED
  BY <1>1, KernelInvariant, PTL

\* No program both has threads that suspend themselves and interrupts that abort
\* threads: a thread that suspends itself forgets that it is to abort.
NoSuspendOfAborted == \A p \in Programs : ~({"suspend self", "isr abort"} \subseteq p)

\* Who aborts or suspends a thread (z_thread_halt, thread_halt_spin) goes on only
\* when that thread is halted and runs nowhere.
THEOREM SchedHaltEffective ==
  ASSUME ~LateCallback, NoResumeOfInterrupted, NoSuspendOfAborted
  PROVE  Spec => []HaltEffective
<1>1. KernelInv /\ HaltInv => HaltEffective
  <2> SUFFICES ASSUME KernelInv, HaltInv PROVE HaltEffective
    OBVIOUS
  <2>1. /\ k \in Kernel /\ SchedTypes /\ \A d \in Cpus : Rests(k, d, in_isr)
        /\ \A t \in Threads : Waits(k, halting, t)
        /\ \A c \in Cpus : Spins(k, spin, program, c)
    BY DEF KernelInv, SchedTypes, HaltInv, Halts
  <2>2. ASSUME NEW t \in Threads, halting[t] # None, k.pended_on[t] = <<>>, "DEAD" \notin k.state[t]
        PROVE  /\ k.state[halting[t]] \cap {"DEAD", "SUSPENDED"} # {}
               /\ \A c \in Cpus \ in_isr : k.current[c] # halting[t]
    <3>1. <<>> \notin OwnQueues(halting[t])
      <4>1. <<>> # <<"join", halting[t]>> /\ <<>> # <<"halt", halting[t]>>
        OBVIOUS
      <4> QED
        BY <4>1 DEF OwnQueues
    <3>2. k.state[halting[t]] \cap {"DEAD", "SUSPENDED"} # {}
      BY <2>1, <2>2, <3>1 DEF Waits, Down
    <3>3. ASSUME NEW c \in Cpus \ in_isr, k.current[c] = halting[t] PROVE FALSE
      BY <2>1, <2>2, <3>2, <3>3 DEF Rests
    <3> QED
      BY <3>2, <3>3
  <2>3. ASSUME NEW c \in Cpus, spin[c] # None
        PROVE  is_halting(k, spin[c]) \/ "DEAD" \in k.state[spin[c]]
    <3>1. "isr abort" \in program /\ program \in Programs
      BY <2>1, <2>3 DEF Spins, SchedTypes
    <3>2. "suspend self" \notin program
      BY <3>1 DEF NoSuspendOfAborted
    <3> QED
      BY <2>1, <2>3, <3>2 DEF Spins, is_halting, Halting
  <2> QED
    BY <2>2, <2>3 DEF HaltEffective
<1> QED
  BY <1>1, HaltInvariant, PTL
=============================================================================
