------------------------------ MODULE WaitQueue ------------------------------
(***************************************************************************)
(* How threads pend on kernel objects and are woken (kernel/sched.c,       *)
(* kernel/include/ksched.h, kernel/include/priority_q.h): the wait queue   *)
(* of each object, the priorities that order it, and the timeout of a wait,*)
(* which may expire while the object is waking the thread.                 *)
(*                                                                         *)
(* Which ready thread a CPU executes is left open: any of them may.        *)
(***************************************************************************)
EXTENDS Integers, Sequences, SequencesExt, Lists

CONSTANTS
  Threads,
  Objects,      \* what threads pend on
  None,         \* the null pointer
  Base,         \* Base[t]: the priority t was created with; 0 is above 1
  LateCallback  \* do other CPUs go on after sys_clock_announce unlinked a
                \* timeout and before it calls its function?  (CONFIG_SMP)

ASSUME WaitQueueAssumption ==
  /\ None \notin Threads \cup Objects
  /\ Base \in [Threads -> Int]
  /\ LateCallback \in BOOLEAN

VARIABLES
  prio,         \* base.prio of each thread
  wait_q,       \* the threads pended on each object
  pended_on,    \* base.pended_on
  armed,        \* threads whose timeout is on the kernel's timeout list
  firing,       \* thread whose timeout is off it, callback not yet run
  swap_retval,  \* what z_swap will return to the thread
  forever       \* threads whose present wait has no timeout

waitVars == <<wait_q, pended_on, armed, firing, swap_retval, forever>>

WaitTypeOK ==
  /\ prio \in [Threads -> Int]
  /\ wait_q \in [Objects -> Seq(Threads)]
  /\ pended_on \in [Threads -> Objects \cup {None}]
  /\ armed \in SUBSET Threads
  /\ firing \in Threads \cup {None}
  /\ swap_retval \in [Threads -> {"0", "-EAGAIN", "-ENOMSG", "-EINTR"}]
  /\ forever \in SUBSET Threads

WaitInit ==
  /\ prio = Base
  /\ wait_q = [o \in Objects |-> <<>>]
  /\ pended_on = [t \in Threads |-> None]
  /\ armed = {}
  /\ firing = None
  /\ swap_retval = [t \in Threads |-> "0"]
  /\ forever = {}

-----------------------------------------------------------------------------
\* Thread t pends on o.  Unless it is woken, z_swap returns -EAGAIN to it.
z_pend_curr(t, o, timeout, p) ==
  /\ wait_q' = [wait_q EXCEPT ![o] = z_priq_dumb_add(@, t, p)]
  /\ pended_on' = [pended_on EXCEPT ![t] = o]
  /\ swap_retval' = [swap_retval EXCEPT ![t] = "-EAGAIN"]
  /\ armed' = IF timeout = "ticks" THEN armed \cup {t} ELSE armed
  /\ forever' = IF timeout = "forever" THEN forever \cup {t} ELSE forever \ {t}
  /\ UNCHANGED firing

\* The object wakes ts, some of the threads pended on it: z_unpend_first_thread,
\* arch_thread_return_value_set(ret) and z_ready_thread for each.
TimerKept(ts, o) ==
  /\ wait_q' = [wait_q EXCEPT ![o] = Remaining(@, ts)]
  /\ pended_on' = [t \in Threads |-> IF t \in ts THEN None ELSE pended_on[t]]
  /\ swap_retval' = [t \in Threads |-> IF t \in ts THEN "0" ELSE swap_retval[t]]
  /\ UNCHANGED <<armed, firing, forever>>

Unpend(ts, o) ==
  /\ wait_q' = [wait_q EXCEPT ![o] = Remaining(@, ts)]
  /\ pended_on' = [t \in Threads |-> IF t \in ts THEN None ELSE pended_on[t]]
  /\ armed' = armed \ ts
  /\ UNCHANGED forever

\* If a thread's timeout is off the list already, its callback may make the thread
\* ready, and the thread may return from z_swap, before the return value is set.
SetReturn(ts, ret) ==
  \/ /\ swap_retval' = [t \in Threads |-> IF t \in ts THEN ret ELSE swap_retval[t]]
     /\ UNCHANGED firing
  \/ /\ firing \in ts
     /\ swap_retval' = [t \in Threads |-> IF t \in ts \ {firing} THEN ret ELSE swap_retval[t]]
     /\ firing' = None

WakeWith(ts, o, ret) == Unpend(ts, o) /\ SetReturn(ts, ret)

Wake(ts, o) == WakeWith(ts, o, "0")

\* sys_clock_announce takes an expired timeout off the list ...
Expire(t) ==
  /\ t \in armed /\ firing = None
  /\ armed' = armed \ {t}
  /\ firing' = t
  /\ UNCHANGED <<prio, wait_q, pended_on, swap_retval, forever>>

\* ... and calls its function.  A thread that pends on something is woken.
StillQueued ==
  /\ firing # None
  /\ firing' = None
  /\ pended_on' = [pended_on EXCEPT ![firing] = None]
  /\ UNCHANGED <<prio, wait_q, armed, swap_retval, forever>>

z_thread_timeout ==
  /\ firing # None
  /\ firing' = None
  /\ \/ /\ pended_on[firing] # None
        /\ wait_q' = [wait_q EXCEPT ![pended_on[firing]] = RemoveFirst(@, firing)]
        /\ pended_on' = [pended_on EXCEPT ![firing] = None]
     \/ /\ pended_on[firing] = None
        /\ UNCHANGED <<wait_q, pended_on>>
  /\ UNCHANGED <<prio, armed, swap_retval, forever>>
=============================================================================
