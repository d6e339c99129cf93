-------------------------------- MODULE Sched --------------------------------
(***************************************************************************)
(* The scheduler of the Zephyr kernel on several CPUs (kernel/sched.c,     *)
(* kernel/ipi.c): which threads are ready, queued and running, how they    *)
(* sleep, join, are suspended, resumed and aborted, and the interrupts by  *)
(* which CPUs tell each other to choose again (IPIs).                      *)
(*                                                                         *)
(* Everything the scheduler's spinlock protects is one record, k; what a   *)
(* call does with it under the lock is a function of k.  A context switch  *)
(* belongs to the call that decides on it.                                 *)
(***************************************************************************)
EXTENDS Lists, FiniteSetsExt

CONSTANTS
  Cpus,
  Threads,
  None,          \* no thread: on a CPU, its idle thread
  Base,          \* Base[t]: the priority of t at first; a negative one makes
                 \* t cooperative, and lower numbers are higher priorities
  Prios,         \* what k_thread_priority_set sets
  Programs,      \* sets of calls: threads and interrupts make those of one
  LateCallback   \* do other CPUs go on after sys_clock_announce unlinked a
                 \* timeout and before it calls its function?

Calls == {"yield", "sleep", "wakeup", "suspend", "suspend self", "resume", "abort",
          "isr abort", "join", "priority"}

ASSUME SchedAssumption ==
  /\ IsFiniteSet(Threads)
  /\ None \notin Threads
  /\ Base \in [Threads -> Int]
  /\ Prios \subseteq Int
  /\ Programs \subseteq SUBSET Calls
  /\ LateCallback \in BOOLEAN

VARIABLES
  k,         \* what the scheduler's lock protects:
             \*   state      base.thread_state of each thread
             \*   prio       base.prio
             \*   runq       the run queue
             \*   current    the thread each CPU executes
             \*   swap_ok    may a CPU choose another thread of equal priority,
             \*              or instead of a cooperative one?
             \*   pended_on  <<"join", u>> or <<"halt", u>>: a queue of thread u
             \*   armed      threads whose timeout is on the kernel's list
             \*   pending_ipi
  ipi,       \* CPUs an IPI is on its way to
  in_isr,    \* CPUs that execute an interrupt
  spin,      \* the thread whose end thread_halt_spin waits for, on each CPU
  firing,    \* thread whose timeout is off the list, callback not yet run
  halting,   \* history: the thread that t wants to halt, or has halted by its
             \* last call, if nobody has resumed it since
  program    \* the calls that are made

vars == <<k, ipi, in_isr, spin, firing, halting, program>>

Preventing == {"PENDING", "SLEEPING", "DEAD", "SUSPENDED"}
Halting == {"ABORTING", "SUSPENDING"}

\* All threads have been started, in some order.
Init ==
  /\ \E q \in SetToSeqs(Threads) :
       /\ \A i, j \in DOMAIN q : i < j => Base[q[i]] <= Base[q[j]]
       /\ k = [state |-> [t \in Threads |-> {}],
               prio |-> Base,
               runq |-> q,
               current |-> [c \in Cpus |-> None],
               swap_ok |-> [c \in Cpus |-> FALSE],
               pended_on |-> [t \in Threads |-> <<>>],
               armed |-> {},
               pending_ipi |-> {}]
  /\ ipi = Cpus
  /\ in_isr = {}
  /\ spin = [c \in Cpus |-> None]
  /\ firing = None
  /\ halting = [t \in Threads |-> None]
  /\ program \in Programs

-----------------------------------------------------------------------------
(* The scheduler: functions of k, called on CPU c *)

z_is_thread_ready(s, t) == s.state[t] \cap Preventing = {}

Queued(s, t) == t \in ToSet(s.runq)

queue_thread(s, t) == [s EXCEPT !.runq = z_priq_dumb_add(@, t, s.prio)]

dequeue_thread(s, t) == [s EXCEPT !.runq = RemoveFirst(@, t)]

\* A thread that becomes ready concerns all CPUs.
ready_thread(s, c, t) ==
  IF Queued(s, t) \/ ~z_is_thread_ready(s, t) THEN s
    ELSE [queue_thread(s, t) EXCEPT !.swap_ok[c] = FALSE, !.pending_ipi = Cpus]

NeverElsewhere(s, c, t) == FALSE

thread_active_elsewhere(s, c, t) == \E d \in Cpus \ {c} : s.current[d] = t

is_halting(s, t) == t # None /\ s.state[t] \cap Halting # {}

Unpended(s, t) == [s EXCEPT !.state[t] = @ \ {"PENDING"}, !.pended_on[t] = <<>>]

\* Threads that wait in the queues qs are woken.
unpend_one(s, c, t) == ready_thread([Unpended(s, t) EXCEPT !.armed = @ \ {t}], c, t)

unpend_all(s, c, qs) ==
  FoldSet(LAMBDA t, r : unpend_one(r, c, t), s, {t \in Threads : s.pended_on[t] \in qs})

\* The thread gets into new_state, off the run queue and, if it is dead, off
\* everything.  An interrupt that aborts the thread it interrupted leaves the
\* CPU without one.
halt_thread(s, c, t, new_state) ==
  LET dead == new_state = "DEAD"
      off == dequeue_thread([s EXCEPT !.state[t] = @ \cup {new_state}], t)
      gone == [Unpended(off, t) EXCEPT !.armed = @ \ {t}]
      woken == IF dead THEN unpend_all(gone, c, {<<"join", t>>, <<"halt", t>>})
                       ELSE unpend_all(off, c, {<<"halt", t>>})
      dummify == dead /\ s.current[c] = t /\ c \in in_isr'
  IN  IF new_state \in s.state[t] THEN s
      ELSE [woken EXCEPT !.swap_ok[c] = TRUE,
                         !.state[t] = @ \ Halting,
                         !.current[c] = IF dummify THEN None ELSE @]

HaltCurrent(s, c) ==
  LET t == s.current[c]
  IN  IF ~is_halting(s, t) THEN s
      ELSE halt_thread(s, c, t, IF "ABORTING" \in s.state[t] THEN "DEAD" ELSE "SUSPENDED")

\* The thread CPU c goes on with: the best of the queue, or its current one if
\* that is better or, unless it yielded, as good, or cooperative.
Choice(s, c) ==
  LET t == s.current[c]
      best == IF s.runq = <<>> THEN None ELSE Head(s.runq)
      keep == \/ best = None
              \/ s.prio[t] < s.prio[best]
              \/ s.prio[t] = s.prio[best] /\ ~s.swap_ok[c]
              \/ s.prio[t] < 0 /\ ~s.swap_ok[c]
  IN  IF t # None /\ z_is_thread_ready(s, t) /\ keep THEN t ELSE best

EvenIfHalted(s, t, new) ==
  IF t # None /\ t # new /\ ~Queued(s, t) THEN queue_thread(s, t) ELSE s

\* The thread that ran goes back to the queue if it still can run.
Requeued(s, t, new) ==
  IF t # None /\ t # new /\ z_is_thread_ready(s, t) /\ ~Queued(s, t)
    THEN queue_thread(s, t) ELSE s

next_up(s, c) ==
  LET r == HaltCurrent(s, c)
      new == Choice(r, c)
  IN  [dequeue_thread(Requeued(r, r.current[c], new), new) EXCEPT !.current[c] = new, !.swap_ok[c] = FALSE]

-----------------------------------------------------------------------------
(* How a call ends *)

\* IPIs that were flagged are sent.
signal_pending_ipi(s, c) ==
  /\ k' = [s EXCEPT !.pending_ipi = {}]
  /\ ipi' = ipi \cup (s.pending_ipi \ {c})

z_swap(s, c) == signal_pending_ipi(next_up(s, c), c)

z_reschedule(s, c) == z_swap([s EXCEPT !.swap_ok[c] = FALSE], c)

\* The lock is released, and that is all.
Unlock(s) == k' = s /\ UNCHANGED ipi

-----------------------------------------------------------------------------
(* Calls of the thread t that CPU c executes *)

\* t calls op, and so is done with the call before.
Running(c, t, op) ==
  /\ op \in program
  /\ c \notin in_isr /\ k.current[c] = t /\ t # None
  /\ UNCHANGED <<in_isr, spin, firing, program>>

NothingHalted(t) == halting' = [halting EXCEPT ![t] = None]

Pended(s, t, q) == [s EXCEPT !.state[t] = @ \cup {"PENDING"}, !.pended_on[t] = q]

k_yield(c, t) ==
  /\ Running(c, t, "yield")
  /\ z_swap([k EXCEPT !.swap_ok[c] = TRUE], c)
  /\ NothingHalted(t)

k_sleep(c, t) ==
  /\ Running(c, t, "sleep") /\ firing # t
  /\ z_swap([k EXCEPT !.state[t] = @ \cup {"SLEEPING"}, !.armed = @ \cup {t}], c)
  /\ NothingHalted(t)

k_wakeup(c, t, u) ==
  /\ Running(c, t, "wakeup")
  /\ "SLEEPING" \in k.state[u]
  /\ z_reschedule(ready_thread([k EXCEPT !.armed = @ \ {u}, !.state[u] = @ \ {"SLEEPING"}],
                               c, u), c)
  /\ NothingHalted(t)

\* z_thread_halt: a thread that runs on another CPU is asked to halt, and the
\* caller waits; else it is halted at once.
z_thread_halt(c, t, u, flag, new_state, q) ==
  \/ /\ thread_active_elsewhere(k, c, u)
     /\ LET s == Pended([k EXCEPT !.state[u] = @ \cup {flag}], t, q)
            r == next_up(s, c)
        IN  /\ k' = [r EXCEPT !.pending_ipi = {}]
            /\ ipi' = ipi \cup (r.pending_ipi \ {c}) \cup {d \in Cpus : k.current[d] = u}
  \/ /\ ~thread_active_elsewhere(k, c, u)
     /\ LET s == halt_thread(k, c, u, new_state)
        IN  IF u = t THEN z_swap(s, c) ELSE Unlock(s)

k_thread_suspend(c, t, u) ==
  /\ Running(c, t, IF t = u THEN "suspend self" ELSE "suspend")
  /\ "SUSPENDED" \notin k.state[u]
  /\ z_thread_halt(c, t, u, "SUSPENDING", "SUSPENDED", <<"halt", u>>)
  /\ halting' = [halting EXCEPT ![t] = IF u = t THEN None ELSE u]

k_thread_abort(c, t, u) ==
  /\ Running(c, t, "abort")
  /\ "DEAD" \notin k.state[u]
  /\ z_thread_halt(c, t, u, "ABORTING", "DEAD", <<"join", u>>)
  /\ halting' = [halting EXCEPT ![t] = IF u = t THEN None ELSE u]

k_thread_resume(c, t, u) ==
  /\ Running(c, t, "resume")
  /\ "SUSPENDED" \in k.state[u]
  /\ z_reschedule(ready_thread([k EXCEPT !.state[u] = @ \ {"SUSPENDED"}], c, u), c)
  /\ halting' = [v \in Threads |-> IF v = t \/ halting[v] = u THEN None ELSE halting[v]]

\* (Joining a dead thread, or one that joins the caller, returns at once.)
k_thread_join(c, t, u, timeout) ==
  /\ Running(c, t, "join") /\ firing # t
  /\ "DEAD" \notin k.state[u] /\ t # u /\ k.pended_on[u] # <<"join", t>>
  /\ z_swap([Pended(k, t, <<"join", u>>) EXCEPT
               !.armed = IF timeout THEN @ \cup {t} ELSE @], c)
  /\ NothingHalted(t)

NotTold(c, u, prio) == {}

\* A running thread stays where it is, and its CPU has to choose again if the
\* priority is lower now.
LoweredIpi(c, u, prio) == IF k.prio[u] < prio THEN {d \in Cpus \ {c} : k.current[d] = u} ELSE {}

Reprioritized(c, u, prio) ==
  LET s == [k EXCEPT !.prio[u] = prio]
  IN  IF Queued(k, u)
        THEN [queue_thread(dequeue_thread(s, u), u) EXCEPT
                !.pending_ipi = IF k.prio[u] > prio THEN Cpus ELSE @]
        ELSE [s EXCEPT !.pending_ipi = @ \cup LoweredIpi(c, u, prio)]

k_thread_priority_set(c, t, u, prio) ==
  /\ Running(c, t, "priority") /\ k.prio[u] # prio
  /\ IF z_is_thread_ready(k, u) THEN z_reschedule(Reprioritized(c, u, prio), c)
       ELSE Unlock([k EXCEPT !.prio[u] = prio])
  /\ NothingHalted(t)

-----------------------------------------------------------------------------
(* Interrupts of CPU c *)

\* An IPI has nothing to do but to end.
z_sched_ipi(c) ==
  /\ c \in ipi \ in_isr
  /\ in_isr' = in_isr \cup {c}
  /\ ipi' = ipi \ {c}
  /\ UNCHANGED <<k, spin, firing, halting, program>>

SpinOnly(s, c) == s

\* An interrupt that waits for a thread of another CPU first halts the one it
\* interrupted, if that is to halt too: the other CPU may wait for it.
thread_halt_spin(s, c) == HaltCurrent(s, c)

\* An interrupt that aborts u.  While u runs elsewhere it spins.
IsrAbort(c, u) ==
  /\ "isr abort" \in program
  /\ c \notin in_isr /\ "DEAD" \notin k.state[u]
  /\ in_isr' = in_isr \cup {c}
  /\ \/ /\ thread_active_elsewhere(k, c, u)
        /\ k' = thread_halt_spin([k EXCEPT !.state[u] = @ \cup {"ABORTING"}], c)
        /\ ipi' = ipi \cup {d \in Cpus : k.current[d] = u}
        /\ spin' = [spin EXCEPT ![c] = u]
     \/ /\ ~thread_active_elsewhere(k, c, u)
        /\ Unlock(halt_thread(k, c, u, "DEAD"))
        /\ UNCHANGED spin
  /\ UNCHANGED <<firing, halting, program>>

\* sys_clock_announce takes the timeout of t off the list ...
Expire(t) ==
  /\ t \in k.armed /\ firing = None
  /\ k' = [k EXCEPT !.armed = @ \ {t}]
  /\ firing' = t
  /\ UNCHANGED <<ipi, in_isr, spin, halting, program>>

\* ... and calls z_thread_timeout.
z_thread_timeout(c) ==
  LET t == firing
      s == IF k.pended_on[t] # <<>> THEN Unpended(k, t) ELSE k
  IN  /\ firing # None /\ c \notin in_isr
      /\ in_isr' = in_isr \cup {c}
      /\ firing' = None
      /\ Unlock(IF k.state[t] \cap {"DEAD", "ABORTING"} # {} THEN k
                  ELSE ready_thread([s EXCEPT !.state[t] = @ \ {"SLEEPING"}], c, t))
      /\ UNCHANGED <<spin, halting, program>>

\* z_get_next_switch_handle, at the end of every interrupt.
IsrExit(c) ==
  /\ c \in in_isr
  /\ ~is_halting(k, spin[c])
  /\ in_isr' = in_isr \ {c}
  /\ spin' = [spin EXCEPT ![c] = None]
  /\ z_swap(k, c)
  /\ UNCHANGED <<firing, halting, program>>

-----------------------------------------------------------------------------
ThreadCall(c, t) ==
  \/ k_yield(c, t) \/ k_sleep(c, t)
  \/ \E u \in Threads :
       \/ k_wakeup(c, t, u)
       \/ k_thread_suspend(c, t, u) \/ k_thread_resume(c, t, u)
       \/ k_thread_abort(c, t, u)
       \/ \E timeout \in BOOLEAN : k_thread_join(c, t, u, timeout)
       \/ \E prio \in Prios : k_thread_priority_set(c, t, u, prio)

Next ==
  \/ \E c \in Cpus : z_thread_timeout(c)
  \/ /\ firing = None \/ LateCallback
     /\ \/ \E c \in Cpus, t \in Threads : ThreadCall(c, t) \/ IsrAbort(c, t)
        \/ \E c \in Cpus : z_sched_ipi(c) \/ IsrExit(c)
        \/ \E t \in Threads : Expire(t)

Spec == Init /\ [][Next]_vars

-----------------------------------------------------------------------------
(* What has to hold *)

Runs(t) == \E c \in Cpus : k.current[c] = t

\* No thread is lost and none is in two places: exactly those that are ready are
\* in the run queue or on one CPU, and "_current is never in the run queue until
\* context switch" (should_queue_thread).
NoThreadLost ==
  \A t \in Threads :
    /\ Cardinality({c \in Cpus : k.current[c] = t})
         + Cardinality({i \in DOMAIN k.runq : k.runq[i] = t}) <= 1
    /\ z_is_thread_ready(k, t) => Queued(k, t) \/ Runs(t)
    /\ Queued(k, t) \/ (\E c \in Cpus \ in_isr : k.current[c] = t) => z_is_thread_ready(k, t)

\* No CPU goes on with a thread while a better one is ready: there is always an
\* IPI, or an interrupt that ends, or the flag of an IPI not yet sent, to make it
\* choose again; only a cooperative thread may go on.
BestRuns ==
  ipi = {} /\ in_isr = {} /\ k.pending_ipi = {} /\ k.runq # <<>> =>
    \A c \in Cpus :
      k.current[c] # None /\ (k.prio[k.current[c]] <= k.prio[Head(k.runq)]
                                \/ k.prio[k.current[c]] < 0)

\* "After k_thread_abort() returns, the thread is guaranteed not to be running or
\* to become runnable anywhere on the system" (kernel.h), nor after
\* k_thread_suspend until it is resumed.
HaltEffective ==
  /\ \A t \in Threads : halting[t] # None /\ k.pended_on[t] = <<>> /\ "DEAD" \notin k.state[t]
       => /\ k.state[halting[t]] \cap {"DEAD", "SUSPENDED"} # {}
          /\ \A c \in Cpus \ in_isr : k.current[c] # halting[t]
  /\ \A c \in Cpus : spin[c] # None => is_halting(k, spin[c]) \/ "DEAD" \in k.state[spin[c]]

\* Whoever waits for a thread to halt, pended or spinning in an interrupt, is not
\* left waiting: the thread runs, and its CPU has an interrupt to take or to end
\* that is not itself waiting for a thread to halt.
HaltInSight ==
  \A u \in Threads :
    (\E t \in Threads : k.pended_on[t] # <<>> /\ halting[t] = u) \/ is_halting(k, u) =>
      /\ is_halting(k, u)
      /\ \E c \in ipi \cup in_isr : k.current[c] = u /\ ~is_halting(k, spin[c])
=============================================================================
