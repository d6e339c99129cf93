------------------------------- MODULE KTimer -------------------------------
(***************************************************************************)
(* Kernel timers of the Zephyr kernel (kernel/timer.c): timeouts that call *)
(* an expiry function, once or with a period, whose expirations are        *)
(* counted, and which a thread can wait for.                               *)
(*                                                                         *)
(* Of the kernel's timeout queue only the promise is used (TimeoutSpec),   *)
(* and how sys_clock_announce lets time stand still while it calls         *)
(* functions.  The announcement calls z_timer_expiration_handler with its  *)
(* lock released: there is a gap between the moment a timer's timeout is   *)
(* off the list and the moment the handler has the lock of timer.c.        *)
(*                                                                         *)
(* Threads run between interrupts or, with several CPUs, at any time.      *)
(***************************************************************************)
EXTENDS Integers, Sequences

CONSTANTS
  Timers,
  None,       \* the null pointer
  Durations,  \* relative durations threads ask for, in ticks
  Dates,      \* absolute ones
  Periods,    \* 0 for K_NO_WAIT and K_FOREVER: not periodic
  Horizon,    \* bound: the ticks that are explored
  SMP,        \* are there several CPUs?  One takes the timer interrupts
  GapCalls    \* of "start" and "stop", what interrupts above the timer's, and
              \* other CPUs, call in the gap

ASSUME KTimerAssumption ==
  /\ None \notin Timers
  /\ Durations \cup Dates \cup Periods \subseteq Nat
  /\ Horizon \in Nat /\ SMP \in BOOLEAN
  /\ GapCalls \subseteq {"start", "stop"}

VARIABLES
  now,                 \* ticks that have passed
  announced,           \* ticks the driver has announced
  curr_tick,
  announce_remaining,
  schedule,            \* the timeout list: <<timer, deadline>>
  at,                  \* the timer interrupt: "none", in the "gap" before
                       \* the handler of current, or in its "expiry" function
  current,
  dt,                  \* ticks from the timeout before that of current
  period,
  status,              \* expirations not yet read
  sync,                \* the thread in k_timer_status_sync: "none", it has
                       \* "checked" the timer, is "pended" or woken and "ready"
  stopping,            \* timers a thread that stopped them has still to wake for
  due,                 \* history: when the timer has to expire next, by the
                       \* calls that were made and its period
  crowded              \* history: timers whose handler began behind others in
                       \* the last tick announced, when time had gone on

clockVars == <<announced, curr_tick, announce_remaining>>
isrVars == <<at, current, dt>>
timerVars == <<period, status, sync, stopping>>
dueVars == <<due, crowded>>
vars == <<now, clockVars, schedule, isrVars, timerVars, dueVars>>

Never == -1
Higher(a, b) == IF a > b THEN a ELSE b

Q == INSTANCE TimeoutSpec WITH Timeouts <- Timers, now <- announced

Init ==
  /\ now = 0 /\ announced = 0 /\ curr_tick = 0 /\ announce_remaining = 0
  /\ Q!Init
  /\ at = "none" /\ current = None /\ dt = 0
  /\ period = [t \in Timers |-> 0]
  /\ status = [t \in Timers |-> 0]
  /\ sync = [t \in Timers |-> "none"]
  /\ stopping = {}
  /\ due = [t \in Timers |-> Never] /\ crowded = {}

-----------------------------------------------------------------------------
(* Time, and the loop of sys_clock_announce *)

\* While functions are called, time stands still at the timeout of each.
NotFrozen == now - announced

elapsed == IF announce_remaining # 0 THEN 0 ELSE now - announced

k_uptime_ticks == curr_tick + elapsed

\* z_add_timeout: the tick at which a relative or an absolute timeout is due.
Relative(n) == curr_tick + n + 1 + elapsed
Absolute(n) == curr_tick + Higher(1, n - curr_tick)

\* A thread that checks a timer has the lock of timer.c, and on one CPU nothing
\* else runs then.
Locked == \E t \in Timers : sync[t] = "checked"

Tick ==
  /\ now < Horizon
  /\ now' = now + 1
  /\ UNCHANGED <<clockVars, schedule, isrVars, timerVars, dueVars>>

\* The next timeout that is due, or the end, with rem ticks to announce.
Overdue(list) == list # <<>> /\ Q!Deadline(Head(list)) <= announced'

Continue(rem, list) ==
  \/ /\ Overdue(list)
     /\ schedule' = Tail(list)
     /\ at' = "gap" /\ current' = Q!Timeout(Head(list))
     /\ dt' = Q!Deadline(Head(list)) - curr_tick
     /\ curr_tick' = Q!Deadline(Head(list))
     /\ announce_remaining' = rem
  \/ /\ ~Overdue(list)
     /\ schedule' = list
     /\ at' = "none" /\ current' = None /\ dt' = 0
     /\ curr_tick' = curr_tick + rem
     /\ announce_remaining' = 0

sys_clock_announce ==
  /\ at = "none" /\ now > announced /\ (Locked => SMP)
  /\ announced' = now
  /\ Continue(now - announced, schedule)
  /\ UNCHANGED <<now, timerVars, dueVars>>

-----------------------------------------------------------------------------
(* z_timer_expiration_handler *)

\* The timer was restarted in the gap.
NotSeen(t) == FALSE

Relinked(t) == Q!Scheduled(t)

\* A periodic timer is started again, one period from when it had to expire.
Rearmed(t) ==
  IF period[t] = 0 THEN schedule
    ELSE Q!Inserted(schedule, t, Absolute(k_uptime_ticks + 1 + Higher(period[t] - 1, 0)))

\* What a timer that expires has to do next: a regular stride from when it was due.
NextDue(t) == IF period[t] = 0 THEN Never ELSE due[t] + period[t]

\* The handlers before have used up the ticks announced, and more have passed: time
\* does not stand still for this one.
Crowded == dt = 0 /\ curr_tick = announced /\ now > announced

HandlerBegin ==
  /\ at = "gap" /\ ~Locked
  /\ \/ /\ Relinked(current)
        /\ UNCHANGED <<announced, status, dueVars>>
        /\ Continue(announce_remaining - dt, schedule)
     \/ /\ ~Relinked(current)
        /\ schedule' = Rearmed(current)
        /\ status' = [status EXCEPT ![current] = @ + 1]
        /\ at' = "expiry"
        /\ due' = [due EXCEPT ![current] = NextDue(current)]
        /\ crowded' = IF Crowded THEN crowded \cup {current} ELSE crowded
        /\ UNCHANGED <<clockVars, current, dt>>
  /\ UNCHANGED <<now, period, sync, stopping>>

\* The first thread that waits is woken.
Wake(t) == sync' = [sync EXCEPT ![t] = IF @ = "pended" THEN "ready" ELSE @]

HandlerEnd ==
  /\ at = "expiry" /\ ~Locked
  /\ Wake(current)
  /\ UNCHANGED <<now, announced, period, status, stopping, dueVars>>
  /\ Continue(announce_remaining - dt, schedule)

-----------------------------------------------------------------------------
(* Calls.  Between the timer interrupts any may be made, in an expiry function
   those that interrupts may make, and in the gap those of GapCalls.  Calls
   that have no effect are left out: with K_FOREVER k_timer_start returns at
   once, and k_timer_stop does if the timer has no timeout. *)

ThreadsRun == SMP \/ at = "none"

Callable(op) == at # "gap" \/ op \in GapCalls

k_timer_start(t, deadline, p) ==
  /\ Callable("start") /\ ~Locked
  /\ schedule' = Q!Inserted(Q!Without(schedule, t), t, deadline)
  /\ period' = [period EXCEPT ![t] = p]
  /\ status' = [status EXCEPT ![t] = 0]
  /\ due' = [due EXCEPT ![t] = deadline] /\ crowded' = crowded \ {t}
  /\ UNCHANGED <<now, clockVars, isrVars, sync, stopping>>

Start(t) ==
  \E p \in Periods :
    \/ \E n \in Durations : k_timer_start(t, Relative(Higher(n - 1, 0)), p)
    \/ \E n \in Dates : k_timer_start(t, Absolute(n), p)

\* k_timer_stop does not take the lock of timer.c.
k_timer_stop(t) ==
  /\ Callable("stop") /\ (Locked => SMP)
  /\ Q!Scheduled(t) /\ t \notin stopping
  /\ schedule' = Q!Without(schedule, t)
  /\ stopping' = stopping \cup {t}
  /\ due' = [due EXCEPT ![t] = Never] /\ crowded' = crowded \ {t}
  /\ UNCHANGED <<now, clockVars, isrVars, period, status, sync>>

StopSilent(t) ==
  /\ t \in stopping /\ (Locked => SMP)
  /\ stopping' = stopping \ {t}
  /\ UNCHANGED <<now, clockVars, schedule, isrVars, period, status, sync, dueVars>>

StopEnd(t) ==
  /\ t \in stopping /\ (Locked => SMP)
  /\ stopping' = stopping \ {t}
  /\ Wake(t)
  /\ UNCHANGED <<now, clockVars, schedule, isrVars, period, status, dueVars>>

k_timer_status_get(t) ==
  /\ ~Locked
  /\ status' = [status EXCEPT ![t] = 0]
  /\ UNCHANGED <<now, clockVars, schedule, isrVars, period, sync, stopping, dueVars>>

\* One thread at a time may synchronize with a timer (timers.rst).  It waits if
\* the timer runs and has not expired, and else returns.
SyncCheck(t) ==
  /\ ThreadsRun /\ ~Locked /\ sync[t] = "none"
  /\ status[t] = 0 /\ Q!Scheduled(t)
  /\ sync' = [sync EXCEPT ![t] = "checked"]
  /\ UNCHANGED <<now, clockVars, schedule, isrVars, period, status, stopping, dueVars>>

SyncPend(t) ==
  /\ sync[t] = "checked"
  /\ sync' = [sync EXCEPT ![t] = "pended"]
  /\ UNCHANGED <<now, clockVars, schedule, isrVars, period, status, stopping, dueVars>>

SyncDone(t) ==
  /\ ThreadsRun /\ ~Locked /\ sync[t] = "ready"
  /\ sync' = [sync EXCEPT ![t] = "none"]
  /\ status' = [status EXCEPT ![t] = 0]
  /\ UNCHANGED <<now, clockVars, schedule, isrVars, period, stopping, dueVars>>

-----------------------------------------------------------------------------
Next ==
  \/ Tick \/ sys_clock_announce \/ HandlerBegin \/ HandlerEnd
  \/ \E t \in Timers :
       \/ Start(t) \/ k_timer_stop(t) \/ StopEnd(t) \/ k_timer_status_get(t)
       \/ SyncCheck(t) \/ SyncPend(t) \/ SyncDone(t)

Spec == Init /\ [][Next]_vars

-----------------------------------------------------------------------------
(* What has to hold *)

\* t runs for a tick that keeps the promise made for it: the one in which it is due,
\* or a later one if it was crowded.
Keeps(t, tick) ==
  /\ due[t] # Never /\ due[t] <= tick
  /\ t \notin crowded => due[t] = tick

\* An expiry function is called in the tick that the latest start, and the periods
\* since, lead to: never before it, never for a timer that was restarted for later or
\* was stopped, never twice for one tick, and after it only for a timer that has been
\* crowded since it was started.
ExpiresWhenDue ==
  [][at = "gap" /\ at' = "expiry" => Keeps(current, curr_tick) /\ curr_tick <= now]_vars

\* "If we're delayed for any reason, we still end up calculating the next
\* expiration as a regular stride from where we 'should' have run"
\* (z_timer_expiration_handler): a timer runs as long as it has something to do, and
\* for the tick that its calls and its period lead to.
NoDrift ==
  \A t \in Timers :
    IF Q!Scheduled(t) THEN <<t, due[t]>> \in {schedule[i] : i \in DOMAIN schedule}
                      ELSE due[t] # Never => at = "gap" /\ current = t

\* What the code keeps of that: however late interrupts were, only a timer that was
\* crowded leaves its stride, and it never runs ahead of it.
StrideKept ==
  \A t \in Timers :
    IF Q!Scheduled(t)
      THEN \E i \in DOMAIN schedule :
             Q!Timeout(schedule[i]) = t /\ Keeps(t, Q!Deadline(schedule[i]))
      ELSE due[t] # Never => at = "gap" /\ current = t

\* "This routine blocks the calling thread until the timer's status is non-zero
\* ... or the timer is stopped" (k_timer_status_sync): somebody is going to wake
\* the thread that waits.
SyncNotStuck ==
  \A t \in Timers :
    sync[t] = "pended" =>
      Q!Scheduled(t) \/ t \in stopping \/ (at # "none" /\ current = t)
=============================================================================
