---------------------------- MODULE TimeoutQueue ----------------------------
(***************************************************************************)
(* The kernel's timeout queue (kernel/timeout.c) on top of its timer       *)
(* driver (module MachineTimer).                                           *)
(*                                                                         *)
(* Timeouts are kept in one list; each holds the ticks it is due after the *)
(* one before it.  Everything is done under timeout_lock, an action is one *)
(* critical section; sys_clock_announce releases the lock around each      *)
(* callback.  A CPU in an interrupt executes nothing else, so with one CPU *)
(* only the callback itself runs between the two halves; with more, the    *)
(* others do as they like.                                                 *)
(***************************************************************************)
EXTENDS MachineTimer, Sequences, SequencesExt, FiniteSets

CONSTANTS
  Timeouts,      \* struct _timeout objects
  Delays,        \* relative timeouts asked for, in ticks
  Dates,         \* absolute ones
  SLOPPY_IDLE,   \* CONFIG_SYSTEM_CLOCK_SLOPPY_IDLE
  Skew           \* bound: cycles between two reads of the counter in a call

ASSUME TimeoutQueueAssumption ==
  /\ IsFiniteSet(Cpus)
  /\ Delays \subseteq Nat /\ Dates \subseteq Nat
  /\ SLOPPY_IDLE \in BOOLEAN
  /\ Skew \in Nat

VARIABLES
  curr_tick,           \* ticks announced and handled
  timeout_list,        \* the list
  dticks,              \* _timeout.dticks
  announce_remaining,  \* ticks sys_clock_announce has still to handle
  at,                  \* what each CPU executes: a thread, timer_isr before
                       \* sys_clock_announce has the lock, or a callback
  arg,                 \* in timer_isr the ticks to announce, in a callback
                       \* those that its timeout was due after the last one
  earliest             \* history: the cycle before which a timeout may not fire

listVars == <<timeout_list, dticks, earliest>>
announceVars == <<curr_tick, announce_remaining, at, arg>>
vars == <<timerVars, listVars, announceVars>>

TypeOK ==
  /\ TimerTypeOK
  /\ curr_tick \in Nat
  /\ timeout_list \in Seq(Timeouts) /\ IsInjective(timeout_list)
  /\ dticks \in [Timeouts -> Nat]
  /\ announce_remaining \in 0 .. INT32_MAX
  /\ at \in [Cpus -> {"thread", "isr", "fn"}]
  /\ arg \in [Cpus -> Nat]
  /\ earliest \in [Timeouts -> Nat]

Init ==
  /\ sys_clock_driver_init
  /\ curr_tick = 0
  /\ timeout_list = <<>>
  /\ dticks = [t \in Timeouts |-> 0]
  /\ announce_remaining = 0
  /\ at = [p \in Cpus |-> "thread"]
  /\ arg = [p \in Cpus |-> 0]
  /\ earliest = [t \in Timeouts |-> 0]

-----------------------------------------------------------------------------
(* While timeouts are announced, time stands still at the one that fires. *)
elapsed(cycle) == IF announce_remaining = 0 THEN TicksSince(cycle) ELSE 0

\* ... and the driver is not asked, so that it does not note the result.
NoteElapsed(cycle) ==
  last_elapsed' = IF announce_remaining = 0 THEN TicksSince(cycle) ELSE last_elapsed

MAX_WAIT == IF SLOPPY_IDLE THEN K_TICKS_FOREVER ELSE INT32_MAX

\* Ticks until the first timeout of list, gone since the last announced tick.
next_timeout(list, delta, gone) ==
  IF list = <<>> \/ delta[Head(list)] - gone > INT32_MAX
    THEN MAX_WAIT ELSE Higher(0, delta[Head(list)] - gone)

\* Ticks of the first i timeouts of a list together, for each i.
Sums(list, delta) ==
  LET sum[i \in 0 .. Len(list)] ==
        IF i = 0 THEN 0 ELSE sum[i - 1] + delta[list[i]]
  IN  sum

Place(list, t) == SelectInSeq(list, LAMBDA u : u = t)

\* Ticks of timeout t after curr_tick.
timeout_rem(t) == Sums(timeout_list, dticks)[Place(timeout_list, t)]

z_timeout_expires(t) == curr_tick + timeout_rem(t)

\* dticks after t was taken off the list: the next one inherits its ticks.
NotInherited(t) == dticks

remove_timeout(t) ==
  LET i == Place(timeout_list, t)
  IN  IF i < Len(timeout_list)
        THEN [dticks EXCEPT ![timeout_list[i + 1]] = @ + dticks[t], ![t] = 0]
        ELSE [dticks EXCEPT ![t] = 0]

\* Ticks after curr_tick at which a timeout added now is due.  A relative one
\* gets one more, for the tick that has begun.
NoRounding(n, absolute) ==
  IF absolute THEN Higher(1, n - curr_tick) ELSE n + elapsed(mtime)

TicksFromNow(n, absolute) ==
  IF absolute THEN Higher(1, n - curr_tick) ELSE n + 1 + elapsed(mtime)

\* The timer is programmed for a timeout that became the first of the list,
\* unless sys_clock_announce is going to do it.
NeverProgrammed(place) == FALSE

ToProgram(place) == place = 1 /\ announce_remaining = 0

\* What is left of these ticks behind the first i timeouts of the list: on the
\* way down the list they become relative to the timeout before.
Left(n, absolute, i) == TicksFromNow(n, absolute) - Sums(timeout_list, dticks)[i]

\* The place of the first timeout that is due later.
FirstLater(n, absolute) ==
  CHOOSE i \in 1 .. Len(timeout_list) + 1 :
    /\ \/ i = Len(timeout_list) + 1
       \/ dticks[timeout_list[i]] > Left(n, absolute, i - 1)
    /\ \A j \in 1 .. i - 1 : dticks[timeout_list[j]] <= Left(n, absolute, j - 1)

z_add_timeout(p, t, n, absolute) ==
  LET place == FirstLater(n, absolute)
      left == Left(n, absolute, place - 1)
  IN  /\ at[p] # "isr"
      /\ t \notin ToSet(timeout_list)       \* __ASSERT
      /\ timeout_list' = InsertAt(timeout_list, place, t)
      /\ dticks' = [u \in Timeouts |->
           IF u = t THEN left
           ELSE IF place <= Len(timeout_list) /\ u = timeout_list[place]
             THEN dticks[u] - left
             ELSE dticks[u]]
      /\ earliest' = [earliest EXCEPT ![t] =
           IF absolute THEN (boot + n) * CYC_PER_TICK
           ELSE n * CYC_PER_TICK + IF announce_remaining = 0
                  THEN mtime ELSE (boot + curr_tick) * CYC_PER_TICK]
      /\ \/ /\ ToProgram(place)
            /\ \E later \in mtime .. mtime + Skew :
                 /\ Readable(later) \/ later = mtime
                 /\ mtime' = later
                 /\ NoteElapsed(later)
                 /\ sys_clock_set_timeout(p,
                      next_timeout(timeout_list', dticks', elapsed(later)), last_elapsed')
         \/ /\ ~ToProgram(place)
            /\ IF absolute THEN UNCHANGED last_elapsed ELSE NoteElapsed(mtime)
            /\ UNCHANGED <<mtime, mtimecmp>>
      /\ UNCHANGED <<last_count, last_ticks, announceVars>>

\* A timeout that is not on the list is left alone.
z_abort_timeout(p, t) ==
  /\ at[p] # "isr"
  /\ t \in ToSet(timeout_list)
  /\ timeout_list' = RemoveFirst(timeout_list, t)
  /\ dticks' = remove_timeout(t)
  /\ earliest' = [earliest EXCEPT ![t] = 0]
  /\ \/ /\ t = Head(timeout_list)
        /\ NoteElapsed(mtime)
        /\ sys_clock_set_timeout(p,
             next_timeout(timeout_list', dticks', elapsed(mtime)), last_elapsed')
     \/ /\ t # Head(timeout_list)
        /\ UNCHANGED <<last_elapsed, mtimecmp>>
  /\ UNCHANGED <<mtime, last_count, last_ticks, announceVars>>

\* Whoever asks for the time, or for what remains of a timeout, makes the
\* driver note the ticks that have gone by.
sys_clock_tick_get(p) ==
  /\ at[p] # "isr"
  /\ NoteElapsed(mtime)
  /\ UNCHANGED <<mtime, mtimecmp, last_count, last_ticks, listVars, announceVars>>

-----------------------------------------------------------------------------
timer_isr(p) ==
  /\ at[p] = "thread"
  /\ timer_isr_locked(p)
  /\ at' = [at EXCEPT ![p] = "isr"]
  /\ arg' = [arg EXCEPT ![p] = TicksSince(mtime)]
  /\ UNCHANGED <<listVars, curr_tick, announce_remaining>>

\* The loop of sys_clock_announce, up to the next callback or to its end, with
\* rem ticks to handle.
Overdue(rem) == timeout_list # <<>> /\ dticks[Head(timeout_list)] <= rem

HandleFirst(p, rem) ==
  LET t == Head(timeout_list)
  IN  /\ Overdue(rem)
      /\ curr_tick' = curr_tick + dticks[t]
      /\ timeout_list' = Tail(timeout_list)
      /\ dticks' = [dticks EXCEPT ![t] = 0]
      /\ earliest' = [earliest EXCEPT ![t] = 0]
      /\ announce_remaining' = rem
      /\ at' = [at EXCEPT ![p] = "fn"]
      /\ arg' = [arg EXCEPT ![p] = dticks[t]]
      /\ UNCHANGED timerVars

\* At the end the first timeout is rem ticks nearer, and time rem ticks on.
DeltaKept(rem) == dticks

RestDelta(rem) == IF timeout_list = <<>> THEN dticks
                    ELSE [dticks EXCEPT ![Head(timeout_list)] = @ - rem]

RestDropped(rem) == curr_tick

RestTick(rem) == curr_tick + rem

HandleRest(p, rem) ==
  /\ ~Overdue(rem)
  /\ dticks' = RestDelta(rem)
  /\ curr_tick' = RestTick(rem)
  /\ announce_remaining' = 0
  /\ last_elapsed' = TicksSince(mtime)
  /\ sys_clock_set_timeout(p,
       next_timeout(timeout_list, dticks', TicksSince(mtime)), last_elapsed')
  /\ at' = [at EXCEPT ![p] = "thread"]
  /\ arg' = [arg EXCEPT ![p] = 0]
  /\ UNCHANGED <<mtime, last_count, last_ticks, timeout_list, earliest>>

SMP == Cardinality(Cpus) > 1

\* Another CPU is announcing: leave the ticks to it.
Overwritten(p) == arg[p]

Joined(p) == announce_remaining + arg[p]

LeaveTicks(p) ==
  /\ SMP /\ announce_remaining # 0
  /\ announce_remaining' = Joined(p)
  /\ at' = [at EXCEPT ![p] = "thread"]
  /\ arg' = [arg EXCEPT ![p] = 0]
  /\ UNCHANGED <<timerVars, listVars, curr_tick>>

sys_clock_announce(p) ==
  /\ at[p] = "isr"
  /\ \/ LeaveTicks(p)
     \/ /\ ~(SMP /\ announce_remaining # 0)
        /\ HandleFirst(p, arg[p]) \/ HandleRest(p, arg[p])

\* The callback returns; sys_clock_announce takes the lock and goes on.
CallbackDone(p) ==
  /\ at[p] = "fn"
  /\ \/ HandleFirst(p, announce_remaining - arg[p])
     \/ HandleRest(p, announce_remaining - arg[p])

-----------------------------------------------------------------------------
Interrupt(p) == timer_isr(p) \/ sys_clock_announce(p) \/ CallbackDone(p)

Next ==
  \/ Tick /\ UNCHANGED <<listVars, announceVars>>
  \/ \E p \in Cpus :
       \/ Interrupt(p)
       \/ sys_clock_tick_get(p)
       \/ \E t \in Timeouts :
            \/ \E n \in Delays : z_add_timeout(p, t, n, FALSE)
            \/ \E n \in Dates  : z_add_timeout(p, t, n, TRUE)
            \/ z_abort_timeout(p, t)

Spec == Init /\ [][Next]_vars

\* Interrupts are served, callbacks return.
FairSpec == Spec /\ \A p \in Cpus : WF_vars(Interrupt(p))

-----------------------------------------------------------------------------
(* What has to hold with one CPU *)

Quiet == \A p \in Cpus : at[p] = "thread"

Schedule == [i \in DOMAIN timeout_list |->
               <<timeout_list[i], z_timeout_expires(timeout_list[i])>>]

Abstract == INSTANCE TimeoutSpec WITH
  now <- last_ticks - boot, schedule <- Schedule

\* What sys_clock_announce takes off the list is the first timeout, and its tick
\* was announced: to TimeoutSpec it is Fire.  An early or disorderly removal would
\* be an Abort, and not contradict TimeoutSpec by itself.
FiresInTurn ==
  [][\A p \in Cpus : sys_clock_announce(p) \/ CallbackDone(p)
       => Abstract!Fire \/ UNCHANGED Schedule]_vars

\* The list of differences keeps absolute deadlines: adding, aborting or
\* handling a timeout never moves another one, they are handled in the order
\* of their deadlines and then of their calls, and not before their tick.
ImplementsTimeoutSpec == Abstract!Spec /\ FiresInTurn

\* A callback is not executed before the time that was asked for has passed in
\* full, counted in cycles from the call (or, for calls made while timeouts are
\* announced, from the tick of the timeout that fires).
NotEarly ==
  [][\A t \in ToSet(timeout_list) \ ToSet(timeout_list') :
       (\E p \in Cpus : sys_clock_announce(p) \/ CallbackDone(p))
         => mtime >= earliest[t]]_vars

\* What a thread reads as the uptime is the time since boot, so that it never
\* goes back: curr_tick and the driver's last_ticks are in step again whenever
\* sys_clock_announce is over.
ClockTrue ==
  Quiet => curr_tick + elapsed(mtime) = mtime \div CYC_PER_TICK - boot

\* Within the latency that CYCLES_MAX leaves room for, neither the difference of
\* cycles nor the announced ticks overflow, however far the next timeout is.
NoOverflow == mtime - last_count <= CYCLES_MAX_3

\* A timeout that is due is handled, or aborted.
DueFires ==
  \A t \in Timeouts :
    t \in ToSet(timeout_list) /\ (boot + z_timeout_expires(t)) * CYC_PER_TICK <= mtime
      ~> t \notin ToSet(timeout_list)

-----------------------------------------------------------------------------
(* ... and with several *)

\* No announced tick is lost or counted twice, however the announcements of
\* several CPUs overlap.
NoTickLost ==
  Quiet => curr_tick = last_ticks - boot /\ announce_remaining = 0

\* The deadline of a timeout does not change while it is on the list.
DeadlinesFixed ==
  [][\A t \in ToSet(timeout_list) \cap ToSet(timeout_list') :
       z_timeout_expires(t)' = z_timeout_expires(t)]_vars

=============================================================================
