------------------------------ MODULE WorkQueue ------------------------------
(***************************************************************************)
(* Work queues of the Zephyr kernel (kernel/work.c): work items, delayable *)
(* work items, the thread of each queue, and the threads that flush,       *)
(* cancel, drain and stop.                                                 *)
(*                                                                         *)
(* Every function of work.c takes the file's one spinlock, so an action is *)
(* one critical section: what happens between k_spin_lock and              *)
(* k_spin_unlock (or z_sched_wait).  Between two actions anything may run: *)
(* another CPU, another thread, an interrupt.                              *)
(*                                                                         *)
(* The flusher work item lives in the k_work_sync object of the thread     *)
(* that flushes, so client c's flusher is the list element c itself.       *)
(***************************************************************************)
EXTENDS Naturals, Sequences, SequencesExt

CONSTANTS
  Works,        \* struct k_work items
  Delayable,    \* those embedded in a struct k_work_delayable
  Queues,       \* struct k_work_q, each with its thread
  Clients,      \* threads that block in a work API, each with a k_work_sync
  None,         \* the null pointer; as a caller, any thread or ISR that is
                \* not the thread of a work queue
  May,          \* May[c]: the blocking operations client c uses
  Chaining,     \* items whose handlers call the work API themselves
  Preemptible   \* can other code run after sys_clock_announce unlinked a
                \* timeout and before its callback takes the work lock?
                \* TRUE with SMP or with interrupts above the system timer

BlockingOps == {"flush", "cancel", "drain", "stop"}

ASSUME WorkQueueAssumption ==
  /\ Delayable \subseteq Works
  /\ Works \cap Clients = {}
  /\ None \notin Works \cup Clients \cup Queues
  /\ May \in [Clients -> SUBSET BlockingOps]
  /\ Chaining \subseteq Works
  /\ Preemptible \in BOOLEAN

VARIABLES
  flags,     \* k_work.flags of items and flushers
  queue,     \* k_work.queue, the queue of the last submission
  pending,   \* k_work_q.pending
  qflags,    \* k_work_q.flags
  qpc,       \* where the queue's thread is
  cur,       \* the item whose handler the queue's thread is executing
  dqueue,    \* k_work_delayable.queue
  armed,     \* delayable items whose timeout is on the kernel's timeout list
  firing,    \* item whose timeout is off the list, work_timeout not yet run
  fault,     \* the __ASSERT in z_add_timeout has failed
  pc,        \* the call in which a client is blocked
  target,    \* the item or queue that call is about
  sem,       \* count of the semaphore in the client's k_work_sync
  cancels,   \* pending_cancels, a list of cancelling clients
  owed       \* history: executions of target[c] a flush has still to wait for

itemVars   == <<flags, queue, pending>>
threadVars == <<qflags, qpc, cur>>
timerVars  == <<dqueue, armed, firing, fault>>
clientVars == <<pc, target, sem, cancels, owed>>
vars == <<itemVars, threadVars, timerVars, clientVars>>

Items    == Works \cup Clients
WorkFlag == {"RUNNING", "CANCELING", "QUEUED", "DELAYED", "FLUSHING"}
QFlag    == {"STARTED", "BUSY", "DRAIN", "PLUGGED", "STOP"}

TypeOK ==
  /\ flags   \in [Items -> SUBSET WorkFlag]
  /\ queue   \in [Works -> Queues \cup {None}]
  /\ pending \in [Queues -> Seq(Items)]
  /\ qflags  \in [Queues -> SUBSET QFlag]
  /\ qpc     \in [Queues -> {"none", "loop", "wait", "run", "dead"}]
  /\ cur     \in [Queues -> Items \cup {None}]
  /\ dqueue  \in [Delayable -> Queues \cup {None}]
  /\ armed   \in SUBSET Delayable
  /\ firing  \in Delayable \cup {None}
  /\ fault   \in BOOLEAN
  /\ pc      \in [Clients -> {"idle", "flush", "cancel", "drain", "join", "tjoin"}]
  /\ target  \in [Clients -> Works \cup Queues \cup {None}]
  /\ sem     \in [Clients -> {0, 1}]
  /\ cancels \in Seq(Clients)
  /\ owed    \in [Clients -> SUBSET {"RUNNING", "QUEUED"}]

Init ==
  /\ flags   = [i \in Items |-> {}]
  /\ queue   = [w \in Works |-> None]
  /\ pending = [q \in Queues |-> <<>>]
  /\ qflags  = [q \in Queues |-> {}]
  /\ qpc     = [q \in Queues |-> "none"]
  /\ cur     = [q \in Queues |-> None]
  /\ dqueue  = [d \in Delayable |-> None]
  /\ armed   = {}
  /\ firing  = None
  /\ fault   = FALSE
  /\ pc      = [c \in Clients |-> "idle"]
  /\ target  = [c \in Clients |-> None]
  /\ sem     = [c \in Clients |-> 0]
  /\ cancels = <<>>
  /\ owed    = [c \in Clients |-> {}]

-----------------------------------------------------------------------------
(* Lists and queues *)

\* z_sched_wake on notifyq: wakes the queue's thread only if it sleeps there.
MissedNotify(q) == UNCHANGED qpc

notify_queue_locked(q) ==
  qpc' = [qpc EXCEPT ![q] = IF @ = "wait" THEN "loop" ELSE @]

\* Where a flusher goes: right after the item if it is queued, else in front.
FlusherInFront(p, fl, w, c) == <<c>> \o p

queue_flusher_locked(p, fl, w, c) ==
  IF "QUEUED" \in fl
    THEN InsertAt(p, SelectInSeq(p, LAMBDA i : i = w) + 1, c)
    ELSE <<c>> \o p

\* Will queue q take work from ctx?  A draining queue only takes work its own
\* thread submits, a plugged one only while it is draining.
PlugIgnored(q, ctx) ==
  /\ q # None
  /\ "STARTED" \in qflags[q]
  /\ "DRAIN" \in qflags[q] => ctx = q

queue_submit_locked(q, ctx) ==
  /\ q # None
  /\ "STARTED" \in qflags[q]
  /\ "DRAIN" \in qflags[q] => ctx = q
  /\ "PLUGGED" \in qflags[q] => "DRAIN" \in qflags[q]

\* A running item can only be queued where it runs; a null queue means the
\* queue of the last submission.
QueueAsAsked(w, q) == IF q = None THEN queue[w] ELSE q

SubmitQueue(w, q) ==
  IF q = None \/ "RUNNING" \in flags[w] THEN queue[w] ELSE q

EvenIfQueued(w, q, ctx, fl) ==
  "CANCELING" \notin fl /\ queue_submit_locked(SubmitQueue(w, q), ctx)

EvenIfCanceling(w, q, ctx, fl) ==
  "QUEUED" \notin fl /\ queue_submit_locked(SubmitQueue(w, q), ctx)

Submittable(w, q, ctx, fl) ==
  /\ fl \cap {"CANCELING", "QUEUED"} = {}
  /\ queue_submit_locked(SubmitQueue(w, q), ctx)

\* fl is the value of w's flags when the function is entered.
submit_to_queue_locked(w, q, ctx, fl) ==
  \/ /\ Submittable(w, q, ctx, fl)
     /\ flags' = [flags EXCEPT ![w] = fl \cup {"QUEUED"}]
     /\ queue' = [queue EXCEPT ![w] = SubmitQueue(w, q)]
     /\ pending' = [pending EXCEPT ![SubmitQueue(w, q)] = Append(@, w)]
     /\ notify_queue_locked(SubmitQueue(w, q))
  \/ /\ ~Submittable(w, q, ctx, fl)
     /\ flags' = [flags EXCEPT ![w] = fl]
     /\ UNCHANGED <<queue, pending, qpc>>

\* An async call comes from a handler of queue ctx, or from elsewhere (None).
Caller(ctx) == ctx = None \/ (ctx \in Queues /\ cur[ctx] \in Chaining)

k_work_submit_to_queue(ctx, q, w) ==
  /\ Caller(ctx)
  /\ w \notin Delayable
  /\ submit_to_queue_locked(w, q, ctx, flags[w])
  /\ UNCHANGED <<qflags, cur, timerVars, clientVars>>

-----------------------------------------------------------------------------
(* Waiting for an item *)

\* A client enters a blocking call.
Block(c, call, on) ==
  /\ pc' = [pc EXCEPT ![c] = call]
  /\ target' = [target EXCEPT ![c] = on]

\* c's flusher is put behind item w, whose flags are fl, on list p of queue q.
work_flush_locked(c, w, fl, q, p) ==
  /\ pending' = [pending EXCEPT ![q] = queue_flusher_locked(p, fl, w, c)]
  /\ notify_queue_locked(q)
  /\ flags' = [flags EXCEPT ![w] = fl, ![c] = {"FLUSHING"}]
  /\ owed' = [owed EXCEPT ![c] = fl \cap {"RUNNING", "QUEUED"}]
  /\ Block(c, "flush", w)
  /\ sem' = [sem EXCEPT ![c] = 0]

k_work_flush(c, w) ==
  /\ pc[c] = "idle" /\ "flush" \in May[c]
  /\ w \notin Delayable
  /\ flags[w] \cap {"QUEUED", "RUNNING"} # {}
  /\ work_flush_locked(c, w, flags[w], queue[w], pending[queue[w]])
  /\ UNCHANGED <<queue, qflags, cur, timerVars, cancels>>

\* Flags that cancel_async_locked leaves when it finds fl.
CanceledFlags(fl) ==
  LET left == IF "CANCELING" \in fl THEN fl ELSE fl \ {"QUEUED"}
  IN  IF left = {} THEN {} ELSE left \cup {"CANCELING"}

\* fl: w's flags on entry.  The item leaves its queue unless a cancellation
\* is already in progress; if it is still busy it is marked.
cancel_async_locked(w, fl) ==
  LET dequeue == "QUEUED" \in fl /\ "CANCELING" \notin fl
  IN  /\ flags' = [flags EXCEPT ![w] = CanceledFlags(fl)]
      /\ pending' = IF dequeue
                      THEN [pending EXCEPT ![queue[w]] = RemoveFirst(@, w)]
                      ELSE pending
      /\ owed' = IF dequeue
                   THEN [c \in Clients |-> IF target[c] = w
                                             THEN owed[c] \ {"QUEUED"}
                                             ELSE owed[c]]
                   ELSE owed

k_work_cancel(ctx, w) ==
  /\ Caller(ctx)
  /\ w \notin Delayable
  /\ cancel_async_locked(w, flags[w])
  /\ UNCHANGED <<queue, threadVars, timerVars, pc, target, sem, cancels>>

\* Wait for the cancellation if the item is still marked as canceling.
cancel_sync_locked(c, w, fl) ==
  \/ /\ "CANCELING" \in CanceledFlags(fl)
     /\ cancels' = Append(cancels, c)
     /\ Block(c, "cancel", w)
     /\ sem' = [sem EXCEPT ![c] = 0]
  \/ /\ "CANCELING" \notin CanceledFlags(fl)
     /\ UNCHANGED <<cancels, pc, target, sem>>

k_work_cancel_sync(c, w) ==
  /\ pc[c] = "idle" /\ "cancel" \in May[c]
  /\ w \notin Delayable
  /\ flags[w] # {}
  /\ cancel_async_locked(w, flags[w])
  /\ cancel_sync_locked(c, w, flags[w])
  /\ UNCHANGED <<queue, threadVars, timerVars>>

\* k_sem_take on the semaphore of the client's k_work_sync returns.
SyncDone(c) ==
  /\ pc[c] \in {"flush", "cancel"}
  /\ sem[c] = 1
  /\ sem' = [sem EXCEPT ![c] = 0]
  /\ Block(c, "idle", None)
  /\ UNCHANGED <<itemVars, threadVars, timerVars, cancels, owed>>

-----------------------------------------------------------------------------
(* Delayable items *)

\* K_NO_WAIT, a number of ticks, or K_FOREVER
Delays == {"no_wait", "ticks", "forever"}

\* z_add_timeout asserts that the timeout is not on the list already; list is
\* the set of linked timeouts when it is called.  Nothing waits for ever.
z_add_timeout(d, delay, list) ==
  \/ /\ delay = "forever"
     /\ armed' = list
     /\ UNCHANGED fault
  \/ /\ delay # "forever"
     /\ fault' = (d \in list)
     /\ armed' = list \cup {d}

\* unschedule_locked: flags and timeout list after it.  DELAYED says whether
\* the timeout is taken off the list.
NotAborted(d) == armed

UnscheduledFlags(d) == flags[d] \ {"DELAYED"}
UnscheduledList(d)  == IF "DELAYED" \in flags[d] THEN armed \ {d} ELSE armed

schedule_for_queue_locked(ctx, q, d, delay, fl, list) ==
  \/ /\ delay = "no_wait"
     /\ submit_to_queue_locked(d, q, ctx, fl)
     /\ armed' = list
     /\ UNCHANGED <<dqueue, fault>>
  \/ /\ delay # "no_wait"
     /\ flags' = [flags EXCEPT ![d] = fl \cup {"DELAYED"}]
     /\ dqueue' = [dqueue EXCEPT ![d] = q]
     /\ z_add_timeout(d, delay, list)
     /\ UNCHANGED <<queue, pending, qpc>>

k_work_schedule_for_queue(ctx, q, d, delay) ==
  /\ Caller(ctx)
  /\ flags[d] \subseteq {"RUNNING"}
  /\ schedule_for_queue_locked(ctx, q, d, delay, flags[d], armed)
  /\ UNCHANGED <<qflags, cur, firing, clientVars>>

k_work_reschedule_for_queue(ctx, q, d, delay) ==
  /\ Caller(ctx)
  /\ schedule_for_queue_locked(ctx, q, d, delay,
                               UnscheduledFlags(d), UnscheduledList(d))
  /\ UNCHANGED <<qflags, cur, firing, clientVars>>

k_work_cancel_delayable(ctx, d) ==
  /\ Caller(ctx)
  /\ armed' = UnscheduledList(d)
  /\ cancel_async_locked(d, UnscheduledFlags(d))
  /\ UNCHANGED <<queue, threadVars, dqueue, firing, fault, pc, target, sem, cancels>>

k_work_cancel_delayable_sync(c, d) ==
  /\ pc[c] = "idle" /\ "cancel" \in May[c]
  /\ flags[d] # {}
  /\ armed' = UnscheduledList(d)
  /\ cancel_async_locked(d, UnscheduledFlags(d))
  /\ cancel_sync_locked(c, d, UnscheduledFlags(d))
  /\ UNCHANGED <<queue, threadVars, dqueue, firing, fault>>

\* If the timeout was taken off the list the item is submitted at once; then,
\* if it is queued or running, the client waits behind it.
k_work_flush_delayable(c, d) ==
  LET fl   == UnscheduledFlags(d)
      sub  == d \in armed /\ "DELAYED" \in flags[d] /\ Submittable(d, dqueue[d], None, fl)
      fl2  == IF sub THEN fl \cup {"QUEUED"} ELSE fl
      q    == IF sub THEN SubmitQueue(d, dqueue[d]) ELSE queue[d]
  IN  /\ pc[c] = "idle" /\ "flush" \in May[c]
      /\ flags[d] # {}
      /\ armed' = UnscheduledList(d)
      /\ queue' = [queue EXCEPT ![d] = q]
      /\ \/ /\ fl2 \cap {"QUEUED", "RUNNING"} # {}
            /\ work_flush_locked(c, d, fl2, q,
                 IF sub THEN Append(pending[q], d) ELSE pending[q])
         \/ /\ fl2 \cap {"QUEUED", "RUNNING"} = {}
            /\ flags' = [flags EXCEPT ![d] = fl2]
            /\ UNCHANGED <<pending, qpc, pc, target, sem, owed>>
      /\ UNCHANGED <<qflags, cur, dqueue, firing, fault, cancels>>

\* sys_clock_announce takes an expired timeout off the list.
Expire(d) ==
  /\ d \in armed
  /\ firing = None
  /\ armed' = armed \ {d}
  /\ firing' = d
  /\ UNCHANGED <<itemVars, threadVars, dqueue, fault, clientVars>>

\* ... and then calls the timeout's function.
work_timeout ==
  /\ firing # None
  /\ firing' = None
  /\ \/ /\ "DELAYED" \in flags[firing]
        /\ submit_to_queue_locked(firing, dqueue[firing], None,
                                  flags[firing] \ {"DELAYED"})
     \/ /\ "DELAYED" \notin flags[firing]
        /\ UNCHANGED <<itemVars, qpc>>
  /\ UNCHANGED <<qflags, cur, dqueue, armed, fault, clientVars>>

-----------------------------------------------------------------------------
(* The thread of a queue: work_queue_main *)

\* Takes the first pending item and enters its handler.
WrongFlagWord(q) ==
  /\ qpc[q] = "loop"
  /\ pending[q] # <<>>
  /\ pending' = [pending EXCEPT ![q] = Tail(@)]
  /\ qflags' = [qflags EXCEPT ![q] = @ \cup {"RUNNING"}]
  /\ cur' = [cur EXCEPT ![q] = Head(pending[q])]
  /\ qpc' = [qpc EXCEPT ![q] = "run"]
  /\ UNCHANGED <<flags, queue, timerVars, clientVars>>

RunNext(q) ==
  LET i == Head(pending[q])
  IN  /\ qpc[q] = "loop"
      /\ pending[q] # <<>>
      /\ pending' = [pending EXCEPT ![q] = Tail(@)]
      /\ qflags' = [qflags EXCEPT ![q] = @ \cup {"BUSY"}]
      /\ flags' = [flags EXCEPT ![i] = (@ \cup {"RUNNING"}) \ {"QUEUED"}]
      /\ cur' = [cur EXCEPT ![q] = i]
      /\ qpc' = [qpc EXCEPT ![q] = "run"]
      /\ owed' = [c \in Clients |-> IF target[c] = i /\ "QUEUED" \in owed[c]
                                      THEN {"RUNNING"} ELSE owed[c]]
      /\ UNCHANGED <<queue, timerVars, pc, target, sem, cancels>>

\* No work and a drain was requested: everyone who drains is released, and
\* the thread goes to sleep.
Drained(q) ==
  /\ qpc[q] = "loop"
  /\ pending[q] = <<>>
  /\ "DRAIN" \in qflags[q]
  /\ qflags' = [qflags EXCEPT ![q] = @ \ {"DRAIN"}]
  /\ pc' = [c \in Clients |-> IF pc[c] = "drain" /\ target[c] = q
                                THEN "idle" ELSE pc[c]]
  /\ target' = [c \in Clients |-> IF pc[c] = "drain" /\ target[c] = q
                                    THEN None ELSE target[c]]
  /\ qpc' = [qpc EXCEPT ![q] = "wait"]
  /\ UNCHANGED <<itemVars, cur, timerVars, sem, cancels, owed>>

\* No work, no drain, a stop was requested: the thread returns.
FlagsKept(q) ==
  /\ qpc[q] = "loop"
  /\ pending[q] = <<>>
  /\ "DRAIN" \notin qflags[q] /\ "STOP" \in qflags[q]
  /\ qflags' = [qflags EXCEPT ![q] = @ \ {"STOP"}]
  /\ qpc' = [qpc EXCEPT ![q] = "dead"]
  /\ UNCHANGED <<itemVars, cur, timerVars, clientVars>>

ThreadExit(q) ==
  /\ qpc[q] = "loop"
  /\ pending[q] = <<>>
  /\ "DRAIN" \notin qflags[q] /\ "STOP" \in qflags[q]
  /\ qflags' = [qflags EXCEPT ![q] = {}]
  /\ qpc' = [qpc EXCEPT ![q] = "dead"]
  /\ UNCHANGED <<itemVars, cur, timerVars, clientVars>>

\* Nothing to do: z_sched_wait on notifyq.
Sleep(q) ==
  /\ qpc[q] = "loop"
  /\ pending[q] = <<>>
  /\ qflags[q] \cap {"DRAIN", "STOP"} = {}
  /\ qpc' = [qpc EXCEPT ![q] = "wait"]
  /\ UNCHANGED <<itemVars, qflags, cur, timerVars, clientVars>>

\* finalize_cancel_locked: the list of cancellers once item i has finished.
\* The search stops at the first one that waits for i.
finalize_cancel_locked(i) ==
  IF "CANCELING" \in flags[i]
    THEN RemoveFirstMatch(cancels, LAMBDA c : target[c] = i)
    ELSE cancels

\* finalize_flush_locked: a flusher that has run releases its client.
finalize_flush_locked(i) == IF "FLUSHING" \in flags[i] THEN {i} ELSE {}

\* The handler has returned.
HandlerDone(q) ==
  LET i == cur[q]
      released == finalize_flush_locked(i)
                    \cup (ToSet(cancels) \ ToSet(finalize_cancel_locked(i)))
  IN  /\ qpc[q] = "run"
      /\ flags' = [flags EXCEPT ![i] = @ \ {"RUNNING", "FLUSHING", "CANCELING"}]
      /\ cancels' = finalize_cancel_locked(i)
      /\ sem' = [c \in Clients |-> IF c \in released THEN 1 ELSE sem[c]]
      /\ owed' = [c \in Clients |-> IF target[c] = i THEN owed[c] \ {"RUNNING"}
                                                     ELSE owed[c]]
      /\ qflags' = [qflags EXCEPT ![q] = @ \ {"BUSY"}]
      /\ cur' = [cur EXCEPT ![q] = None]
      /\ qpc' = [qpc EXCEPT ![q] = "loop"]
      /\ UNCHANGED <<queue, pending, timerVars, pc, target>>

-----------------------------------------------------------------------------
(* Controlling a queue *)

k_work_queue_start(q) ==
  /\ qpc[q] = "none"
  /\ qflags' = [qflags EXCEPT ![q] = {"STARTED"}]
  /\ pending' = [pending EXCEPT ![q] = <<>>]
  /\ qpc' = [qpc EXCEPT ![q] = "loop"]
  /\ UNCHANGED <<flags, queue, cur, timerVars, clientVars>>

k_work_queue_drain(c, q, plug) ==
  /\ pc[c] = "idle" /\ "drain" \in May[c]
  /\ qpc[q] # "none"              \* drainq and notifyq are initialized
  /\ \/ qflags[q] \cap {"BUSY", "DRAIN"} # {}
     \/ plug
     \/ pending[q] # <<>>
  /\ qflags' = [qflags EXCEPT ![q] =
                  @ \cup {"DRAIN"} \cup (IF plug THEN {"PLUGGED"} ELSE {})]
  /\ notify_queue_locked(q)
  /\ Block(c, "drain", q)
  /\ UNCHANGED <<itemVars, cur, timerVars, sem, cancels, owed>>

k_work_queue_unplug(q) ==
  /\ qflags' = [qflags EXCEPT ![q] = @ \ {"PLUGGED"}]
  /\ UNCHANGED <<itemVars, qpc, cur, timerVars, clientVars>>

\* forever: the timeout given to k_thread_join is K_FOREVER.
StopUnnotified(c, q, forever) ==
  /\ pc[c] = "idle" /\ "stop" \in May[c]
  /\ {"STARTED", "PLUGGED"} \subseteq qflags[q]
  /\ qflags' = [qflags EXCEPT ![q] = @ \cup {"STOP"}]
  /\ Block(c, IF forever THEN "join" ELSE "tjoin", q)
  /\ UNCHANGED <<itemVars, qpc, cur, timerVars, sem, cancels, owed>>

k_work_queue_stop(c, q, forever) ==
  /\ pc[c] = "idle" /\ "stop" \in May[c]
  /\ {"STARTED", "PLUGGED"} \subseteq qflags[q]
  /\ qflags' = [qflags EXCEPT ![q] = @ \cup {"STOP"}]
  /\ notify_queue_locked(q)
  /\ Block(c, IF forever THEN "join" ELSE "tjoin", q)
  /\ UNCHANGED <<itemVars, cur, timerVars, sem, cancels, owed>>

\* k_thread_join returns because the queue's thread has exited.
JoinDone(c) ==
  /\ pc[c] \in {"join", "tjoin"}
  /\ qpc[target[c]] = "dead"
  /\ Block(c, "idle", None)
  /\ UNCHANGED <<itemVars, threadVars, timerVars, sem, cancels, owed>>

\* k_thread_join times out, and the stop request is withdrawn.
JoinTimeout(c) ==
  /\ pc[c] = "tjoin"
  /\ qflags' = [qflags EXCEPT ![target[c]] = @ \ {"STOP"}]
  /\ Block(c, "idle", None)
  /\ UNCHANGED <<itemVars, qpc, cur, timerVars, sem, cancels, owed>>

-----------------------------------------------------------------------------
AsyncStep ==
  \E ctx \in Queues \cup {None} :
    \/ \E w \in Works :
         \/ \E q \in Queues \cup {None} : k_work_submit_to_queue(ctx, q, w)
         \/ k_work_cancel(ctx, w)
    \/ \E d \in Delayable :
         \/ \E q \in Queues, delay \in Delays :
              \/ k_work_schedule_for_queue(ctx, q, d, delay)
              \/ k_work_reschedule_for_queue(ctx, q, d, delay)
         \/ k_work_cancel_delayable(ctx, d)

\* A blocked call ends.
Resume(c) == SyncDone(c) \/ JoinDone(c) \/ JoinTimeout(c)

ClientStep(c) ==
  \/ \E w \in Works : k_work_flush(c, w) \/ k_work_cancel_sync(c, w)
  \/ \E d \in Delayable :
       k_work_cancel_delayable_sync(c, d) \/ k_work_flush_delayable(c, d)
  \/ \E q \in Queues, b \in BOOLEAN :
       k_work_queue_drain(c, q, b) \/ k_work_queue_stop(c, q, b)
  \/ Resume(c)

QueueThread(q) ==
  RunNext(q) \/ Drained(q) \/ ThreadExit(q) \/ Sleep(q) \/ HandlerDone(q)

Next ==
  /\ ~fault
  /\ \/ work_timeout
     \/ /\ firing = None \/ Preemptible
        /\ \/ AsyncStep
           \/ \E c \in Clients : ClientStep(c)
           \/ \E q \in Queues : \/ QueueThread(q)
                                \/ k_work_queue_start(q)
                                \/ k_work_queue_unplug(q)
           \/ \E d \in Delayable : Expire(d)

Spec == Init /\ [][Next]_vars

\* The threads of the queues are scheduled and handlers return; a thread whose
\* semaphore was given, or whose joined thread exited, is scheduled; the
\* callback of an expired timeout is executed.  A timer interrupt suspends the
\* threads of a uniprocessor between two steps, so that a ready thread is
\* enabled again and again, not continuously: strong fairness.
Fairness ==
  /\ \A q \in Queues : SF_vars((firing = None \/ Preemptible) /\ QueueThread(q))
  /\ \A c \in Clients : SF_vars((firing = None \/ Preemptible) /\ Resume(c))
  /\ WF_vars(work_timeout)

FairSpec == Spec /\ Fairness

-----------------------------------------------------------------------------
(* What has to hold, safety *)

\* An item is on at most one pending list, at most once, and exactly while its
\* K_WORK_QUEUED flag is set: the flag alone decides whether work.c touches
\* the list node, so a mismatch is a corrupted or a lost list.
QueuedOnce ==
  /\ \A q \in Queues : IsInjective(pending[q])
  /\ \A w \in Works, q \in Queues :
       w \in ToSet(pending[q]) <=> ("QUEUED" \in flags[w] /\ queue[w] = q)

\* "prevent handler re-entrancy" (submit_to_queue_locked): no item is executed
\* by two queue threads at once, however often it is resubmitted to other
\* queues while it runs, and K_WORK_RUNNING says exactly that it is executed.
NoReentrancy ==
  /\ \A q, r \in Queues : cur[q] # None /\ cur[q] = cur[r] => q = r
  /\ \A w \in Works : "RUNNING" \in flags[w] <=> \E q \in Queues : cur[q] = w

\* A queue's thread never sleeps on notifyq while it has work or is to drain.
NoLostNotify ==
  \A q \in Queues :
    qpc[q] = "wait" => pending[q] = <<>> /\ "DRAIN" \notin qflags[q]

\* k_work_flush only returns once every execution of the item that was queued
\* or running when it was called is over (or was cancelled).
FlushWaits ==
  \A c \in Clients : pc[c] = "flush" /\ sem[c] = 1 => owed[c] = {}

\* Once a queue was drained and left plugged it has no work and runs none:
\* what makes it safe for k_work_queue_stop to require the plug.
PluggedIsIdle ==
  \A q \in Queues :
    "PLUGGED" \in qflags[q] /\ "DRAIN" \notin qflags[q]
      => pending[q] = <<>> /\ cur[q] = None

\* "no work will be processed past this point" (k_work_queue_stop): a queue
\* whose thread has exited has no work left behind and accepts none.
DeadIsEmpty ==
  \A q \in Queues :
    qpc[q] = "dead" => /\ pending[q] = <<>> /\ cur[q] = None
                       /\ "STARTED" \notin qflags[q]

\* A timeout that is on the kernel's timeout list, or is about to be handled,
\* belongs to an item marked K_WORK_DELAYED, as long as nothing runs between
\* the two: unschedule_locked, which trusts the flag, never leaves one behind.
TimerSync ==
  \A d \in Delayable : d \in armed \cup {firing} => "DELAYED" \in flags[d]

\* When k_work_cancel_sync is released the item is neither running nor queued
\* nor marked as canceling.
CancelEffective ==
  [][\A c \in Clients :
       pc[c] = "cancel" /\ sem[c] = 0 /\ sem'[c] = 1
         => flags'[target[c]] \cap {"RUNNING", "QUEUED", "CANCELING"} = {}]_vars

-----------------------------------------------------------------------------
(* The abstract specification it implements *)

Abstract == INSTANCE WorkSpec WITH
  queued  <- {w \in Works : "QUEUED" \in flags[w]},
  running <- {r \in Queues \X Works : cur[r[1]] = r[2]},
  Threads <- Queues

\* Over all queues, items are submitted, executed and cancelled as if there
\* were one set of queued items and one execution at a time of each: every path
\* of work.c that touches an item is one of the four steps of WorkSpec.
ImplementsWorkSpec == Abstract!Spec

\* ... and every item that is queued is executed or cancelled, unless its own
\* queue is kept busy by a handler that never returns.
ServesWork == Abstract!FairSpec

-----------------------------------------------------------------------------
(* ... and liveness *)

\* A flush returns.
FlushReturns == \A c \in Clients : pc[c] = "flush" ~> pc[c] = "idle"

\* A cancellation returns, if no other thread cancels the same item.
CancelReturns == \A c \in Clients : pc[c] = "cancel" ~> pc[c] = "idle"

\* A drain of a queue whose thread has not exited returns.
DrainReturns ==
  \A c \in Clients, q \in Queues :
    pc[c] = "drain" /\ target[c] = q /\ qpc[q] # "dead" ~> pc[c] # "drain"

\* A stop without a timeout returns, unless the queue is unplugged meanwhile
\* (then other threads may keep it busy for ever).
StopReturns ==
  \A c \in Clients, q \in Queues :
    pc[c] = "join" /\ target[c] = q
      ~> \/ pc[c] = "idle"
         \/ "PLUGGED" \notin qflags[q] /\ qpc[q] # "dead"

\* Every blocking call returns.
CallsReturn == FlushReturns /\ CancelReturns /\ DrainReturns /\ StopReturns

-----------------------------------------------------------------------------
(* What comments and assertions of the code say, and its behaviour does not *)

\* "release what's waiting for the completion.  The same work item can appear
\* multiple times in the list" (finalize_cancel_locked): whoever waits for a
\* cancellation waits for one that is still in progress.
CancellersServed ==
  \A c \in ToSet(cancels) : "CANCELING" \in flags[target[c]]

\* __ASSERT(!sys_dnode_is_linked(&to->node)) of z_add_timeout: it holds as long
\* as nothing runs between the end of a timeout and its callback.
TimeoutNotLinked == ~fault
=============================================================================
