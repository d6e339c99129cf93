# Kernel services of Telink's Zephyr: models, checks and proofs

This directory models the part of the repository in which threads, interrupts and
CPUs meet: the kernel's deferred work (`kernel/work.c`), its clock
(`kernel/timeout.c` with `drivers/timer/riscv_machine_timer.c`, the driver the
Telink SoCs use), its scheduler (`kernel/sched.c`, `kernel/ipi.c`), and the objects
threads wait for: mutexes, condition variables, semaphores, message queues, queues,
stacks, memory slabs, events, polling and kernel timers. The rest of the tree
(drivers, subsystems, boards, samples) is built on these services.

Contents: [inventory](#1-inventory), [plan](#2-plan),
[modules and code](#3-modules-and-code), [runs](#4-runs),
[proofs](#5-proofs), [where code and comments disagree](#6-where-the-code-and-its-documentation-disagree),
[what is not modelled](#7-not-modelled).

## 1. Inventory

| Component | State | Operations | Hard part | What makes it correct |
|---|---|---|---|---|
| Work queues, `kernel/work.c` | flags and queue of each item, pending list, flags and thread of each queue, `pending_cancels`, one spinlock | submit, flush, cancel (sync or not), the same and (re)schedule for delayable items, start, drain, unplug, stop | submissions from handlers, other CPUs and ISRs while an item runs; flushers woven into the list; cancel against resubmit; drain, plug and stop in any order; a timeout callback that comes late | an item is queued once and executed by one thread at a time; flush and cancel return when, and only when, the executions they wait for are over; no wake-up is lost; a stopped queue leaves nothing behind |
| Timeout queue, `kernel/timeout.c` | delta list, `curr_tick`, `announce_remaining` | add, abort, announce, read the clock | every deadline depends on its predecessors; callbacks add and abort timeouts in the middle of an announcement; overlapping announcements on SMP | deadlines do not move, nothing fires early or never, no tick is lost |
| Machine timer, `riscv_machine_timer.c` | compare register, `last_count`, `last_ticks`, `last_elapsed` | interrupt, `sys_clock_set_timeout`, `sys_clock_elapsed` | truncated differences, rounding to ticks, time passing between two reads | no overflow, interrupt in time |
| Wait queues, `sched.c`, `ksched.h`, `priority_q.h` | wait queue of each object, `pended_on`, priority, timeout and return value of each thread | pend, unpend, wake, time out | the timeout of a wait against the object that wakes the thread | one place to wait, the truth about why the wait ended |
| Mutexes, `kernel/mutex.c` | owner, count, saved priority | lock, unlock, timed-out lock | priority inheritance with nesting, recursion, timeouts and a ceiling | owner and answer agree, no waiter of a free mutex, priorities are inherited and given back |
| Condition variables, `kernel/condvar.c` | a wait queue, one spinlock | wait, signal, broadcast | two locks, released in sequence | no lost signal, mutex locked on return |
| Semaphores, message queues, queues, stacks, slabs, `sem.c`, `msg_q.c`, `queue.c`, `stack.c`, `mem_slab.c` | counter, buffer or list, and a wait queue; one lock each (one for all semaphores) | give/take/reset, put/get/purge/peek, insert/append list/get/cancel, push/pop, alloc/free | hand-over past the buffer to a waiter, timeouts, one wait queue for readers and writers | nothing lost, duplicated or reordered; nobody waits for what is there |
| Events, `kernel/events.c` | a set of events, a wait queue | post, set, clear, wait for any or all | several waiters matched in a walk and woken after it | every waiter that matches is woken and learns why |
| Polling, `kernel/poll.c` | event lists of the objects, `is_polling` and `mode` of each poller, owner and result of triggered items | poll, raise, reset, submit and cancel triggered work | events are registered and cleared one by one, the lock released in between, while objects change under other locks | no event missed, none told to a poller that has gone; a triggered item runs once |
| Kernel timers, `kernel/timer.c` | timeout, period, status, a wait queue | start, stop, expire, read status, wait | restart and stop against the expiry that is under way; late interrupts | expires when due, keeps its stride, nobody waits for a stopped timer |
| Scheduler, threads, IPIs, `sched.c`, `ipi.c` | run queue, thread states, current thread and `swap_ok` of each CPU, pending IPIs | yield, sleep, wake up, suspend, resume, abort, join, set priority, interrupts | halting a thread that runs on another CPU; who has to be told to choose again | a thread is in one place, the best run, who halts a thread returns when it is halted |
| Pipes, mailboxes, futexes | byte stream, matching, user word | | | see [7](#7-not-modelled) |
| SMP, memory, userspace, boot, architecture, drivers, subsystems | | | | see [7](#7-not-modelled) |

How they meet: delayable items and waiting threads own a `struct _timeout` on the
timeout list, whose callback (`work_timeout`, `z_thread_timeout`) runs in the timer
interrupt. `sys_clock_announce` drops its lock between unlinking a timeout and
calling it; half of the disagreements of [section 6](#6-where-the-code-and-its-documentation-disagree)
stem from that gap or from the one after it. Objects that can be polled change under
their own lock and, with that held, take the lock of poll.c to tell a poller; a
triggered item ends as a submission to a work queue. The blocking calls of work.c wait on
semaphores, on `drainq`, or join a thread. A condition variable calls the mutex
code with its own lock held. `PROJECT.json` lists every component, and under
`hazards` each place where an ordering, a boundary or a stale value could go wrong.

## 2. Plan

The order is that of dependence and of importance. Done: items 1 to 9.

1. `WorkQueue`, with the abstract `WorkSpec`; safety, liveness, refinement.
2. `MachineTimer` and `TimeoutQueue`, with the abstract `TimeoutSpec`.
3. Proofs about `WorkQueue`: types, lists and flags, re-entrancy, queue states,
   timers, refinement of `WorkSpec`.
4. `WaitQueue`, `Mutex`, `CondVar`.
5. `PollEvents`, `Sem`, `MsgQ` (with the abstract `FifoSpec`), `Queue`, `Stack`,
   `MemSlab`, `Event` on `WaitQueue`, and `Poll`, which composes them.
6. `KTimer` on `TimeoutSpec`.
7. `Sched`: run queue, sleep, suspension, abortion, joining, priorities, IPIs.
8. Proofs about the calls of `WorkQueue` that wait, about `Mutex` and `CondVar`,
   about `TimeoutQueue`, refinement of `TimeoutSpec`, and about `KTimer`.
9. Proofs about `Sched` (no thread lost, the best run, halts are effective) and about
   `Poll` with its objects, refinement of `FifoSpec`.
10. Pipes and mailboxes; `lib/os` packet buffers; the on-off service of
   `lib/utils/onoff.c`; the transmission protocol of the Telink 802.15.4 driver.

## 3. Modules and code

`PROJECT.json` maps every definition to its lines. Conventions: names are those of
the source; an action is one critical section, from taking the spinlock to
releasing it, so that everything another CPU, thread or interrupt may do falls
between two actions; calls that return an error without changing anything are left
out, unless they are an alternative of an action. A definition named in no map is a
property, an abbreviation, or a plausible mistake next to the definition it
corrupts (`MissedNotify`, `AtTheEnd`...), which shows that a property notices it.

**WorkQueue.** `flags`, `queue`, `pending`, `qflags` are the fields of `k_work` and
`k_work_q`; `qpc` and `cur` say where a queue's thread is in `work_queue_main`;
`pc`, `target`, `sem` where a client is in a blocking call. The flusher work item
lives in the client's `k_work_sync`, so it is represented by the client in the
pending list. `cancels` is `pending_cancels`. `armed` is the timeout list as seen
from work.c, `firing` the one item between unlinking and `work_timeout`; the
constant `Preemptible` says whether anything runs in that gap (SMP, or interrupts
above the timer). `owed` records, for a flush, which executions were under way when
it was called. Items in `Chaining` have handlers that call the API themselves, from
the queue's own thread.

**WorkSpec.** One set of queued items, one set of executions: submit, start, finish,
withdraw.

**MachineTimer, TimeoutQueue.** `mtime` advances cycle by cycle, as long as the
interrupt latency allows (`Readable`); `timer_isr` and `sys_clock_announce` are two actions,
as they take two locks; each callback is a state (`at[p] = "fn"`) in which anything
else may happen, calls from the callback included. `z_add_timeout` reads the clock
twice; the second reading may be up to `Skew` later. `CYCLES_MAX` and the widths of
`cycle_diff_t` and `int32_t` are computed as in the driver, from small constants.
`earliest` records what the caller asked for. `Sums` adds up the list of differences,
as the loops of `z_add_timeout` and `timeout_rem` do: `Left` is what the loop has left
of a delay behind the first timeouts, `FirstLater` where it stops.

**TimeoutSpec.** Absolute deadlines, handled in order, never before their tick.

**Lists.** The two operations on lists that several parts share: the insertion by
priority of the wait queues, and what is left of a list when some are taken out.

**WaitQueue, Mutex, CondVar.** Each EXTENDS the one before. `Wake` is the whole of
`z_unpend_first_thread` (`Unpend`), `arch_thread_return_value_set` (`SetReturn`) and
`z_ready_thread`; with `LateCallback` it includes the case in which the timeout of the
thread is off the list already and its callback makes the thread ready before its
return value is set. `k_condvar_wait` is four actions: unlock, pend, lock again, return; the first
two are joined by `lock`. Any ready thread may run: priorities order the wait
queues and decide who inherits what, but no property relies on the scheduler
preferring one thread. `held`, `nested` (has a thread locked one mutex while
it had another?) and `missed` are history variables.

**PollEvents, Sem, MsgQ, Queue, Stack, MemSlab, Event, Poll.** `PollEvents` EXTENDS
`WaitQueue`; the object modules EXTEND it, one file of the kernel each, and `Poll`
EXTENDS them all and adds k_poll, poll signals and triggered work items. `call[t]`
is where a thread is in a call that waits: it pends on an object, or was woken and
has still to return (`Returning`). `handling[o]` is the stretch of a call in which
the object has changed and its poller is not yet told: its lock is held (`Unlocked`),
yet k_poll reads the object without that lock (`is_condition_met`). `register_next`
and `clear_event_registration` are one turn each of the loops that release the lock
of poll.c between turns. `swap_data` is what a woken thread is given, `data` the
buffer a caller of a message queue passed. Items, blocks and words are values that
are in one place at a time, which is what `NothingLost` is about; `Words` are those of a
stack, `Blocks[l]` those of one slab, in the order of addresses. `lost` are threads that
`k_queue_append_list` took off a wait queue and did not make ready: it unpends one
thread more than the list has items, if more wait (`Excess`). `ItemLists` are the lists
that are appended, and `ShortLists` says whether that happens while more threads wait. `credit` (gives
less takes and resets) and `told` (who was told of an object since it is available)
are history variables. The poller of a triggered item has no thread: `add_event`
reads a priority from the memory in front of it, so that its event may land anywhere.

**FifoSpec.** Bounded channels: a put appends, a get takes the first; those who have
to wait are served later, or fail without effect.

**KTimer.** The timeout list is `TimeoutSpec`'s schedule of deadlines, which
`TimeoutQueue` is shown to implement; `at` is where the timer interrupt is: in the
gap before `z_timer_expiration_handler` has its lock, or in the expiry function.
`GapCalls` says what interrupts above the timer's call in the gap. `due` is the tick that
the latest start of a timer, and its periods since, lead to, however late interrupts
were; `crowded` are the timers whose handler has since begun behind others in the last
tick announced, when time had gone on (`Crowded`). Both are history variables.

**Sched.** What the scheduler's lock protects is one record `k`, and what happens
under the lock is a function of it, as in the source, where `halt_thread`,
`ready_thread` and `next_up` are called by many. `current[c]` is the thread of a CPU
(`None`: its idle thread), `ipi` the IPIs on their way, `in_isr` the CPUs in an
interrupt, which ends with `z_get_next_switch_handle` (`IsrExit`), `spin` the thread
an interrupt waits for in `thread_halt_spin`. A context switch belongs to the action
that decides on it. k_thread_priority_set sets the priority and reschedules under
two holdings of the lock, which are one action here. `halting` records whom a
thread wants to halt or has halted.

## 4. Runs

| Run | Instance | States | Shows |
|---|---|---|---|
| `work_safety` | a plain and a delayable item, two queues, a client that flushes and cancels, one that flushes, drains and stops, handlers of the plain item submit | 278,112 | `QueuedOnce`, `NoReentrancy`, `NoLostNotify`, `FlushWaits`, `PluggedIsIdle`, `DeadIsEmpty`, `TimerSync`, `CancelEffective`, and that `WorkSpec` is implemented |
| `work_live` | the same items and clients, one queue | 13,095 | `CallsReturn`: flush, cancel, drain and stop return; queued work is served (`WorkSpec` with its fairness) |
| `timeout_up` | one CPU, two timeouts, delays 0, 1 and 6, dates 1 and 4 | 165,034 | true uptime, no overflow, nothing early, everything due fires, and that `TimeoutSpec` is implemented, with everything handled in its turn |
| `timeout_smp` | two CPUs, three timeouts | 230,364 | no tick lost or doubled, no deadline moved by overlapping announcements |
| `condvar` | three threads, two mutexes locked recursively and nested, one condition variable, timeouts | 2,458,720 | `WaitersHaveOwner`: no waiter of a free mutex; `PrioRestored`; answers of `k_mutex_lock`, no lost signal, mutex locked on return; up to the first nested lock, inheritance neither missing nor left over, and the best waiter is next |
| `ipc` | two threads and a triggered item, one object of each kind, in twelve systems of up to three of these | 572,989 | `NoMissedEvent`, `NoStaleEvent`, `PollAnswer`: polling; `TriggeredOnce`: triggered work; `NothingLost`, `NoIdleWaiter`: what is given arrives once, and nobody waits for what is there (`ShortLists` false); `ImplementsFifo` |
| `ktimer` | two timers, durations 0 and 2, date 3, periods 0, 1 and 2, one CPU, restarts in the gap | 1,319,362 | `ExpiresWhenDue`, `StrideKept`, `SyncNotStuck` |
| `sched` | two CPUs, a cooperative and two preemptible threads, five sets of calls | 397,967 | `NoThreadLost`, `BestRuns`, `HaltEffective`, `HaltInSight` |
| `work_cancel`, `mutex_late`, `ktimer_drift`, `sched_abort` | the smallest that shows it | | the disagreements of [section 6](#6-where-the-code-and-its-documentation-disagree) |

**Bounds.** Two queues are what re-entrancy needs, and two clients what a flush
behind a flush, or a drain against a stop, needs; one queue suffices for liveness,
since queues share no resource but items. With `INT32_MAX = 5`, `CYCLE_DIFF_W = 4`
and two cycles per tick the driver's range is exceeded by the delay 6, and
`Latency = 2` is exactly the room that `CYCLES_MAX` leaves: the largest latency under
which no overflow is possible. `Horizon = 14` lets such a delay be clamped,
re-programmed and fire. With two CPUs a tick is one cycle and the horizon 3: time
enough for a second CPU to announce during a callback and for a third timeout to
depend on both. The threads of the mutex runs have the priorities 0, 2 and 3 with a
ceiling of 1, so that one is above the ceiling and the others are raised to it or
below; `MaxCount = 2` is the first recursive lock.

`Systems` and `Programs` split the two large models into parts that are explored one
after the other. The systems of `ipc` have every kind of object with two threads
that contend for it, and every pollable kind with a poller, alone, with a second
object, with a second poller or with a triggered item. A message queue and a slab
have two places, so that they can be partly full and wrap around; a semaphore counts
to 2. Lists of one and of two items are appended, while at most as many threads wait:
with `ShortLists` true TLC finds `NoIdleWaiter` violated after five calls, and the other
properties of `ipc` hold (573,223 states). The theorems about them do not need
`~ShortLists`. The programs of `sched` have every call, with those it can interfere with most.
That a thread suspends itself while it is aborted is the run `sched_abort`, and
resuming threads while interrupts abort others is left out, since
`thread_halt_spin` then suspends the thread the interrupt came in on, which another
CPU may resume before the interrupt has ended. `Horizon = 4` is two periods of 2, and
late enough for two timers to be due in one announcement.

`LateCallback` is false in `condvar`, `ipc` and `sched`: no other CPU goes on between
the unlinking of a timeout and its callback; that no mutex is free while threads wait,
that priorities come back and that no signal is lost is proved for late callbacks as
well. With them, `mutex_late` shows what happens to
every object of this kind, and a thread that runs may be put into the run queue.
`ktimer` has one CPU: see section 6.

Symmetry is used for queues, timeouts, timers and CPUs in runs without liveness;
nothing tells them apart.

**Deadlock** is checked in `ipc`, where interrupts can always call something. It is
not in the others: time is bounded, all threads may be suspended or dead, a system in which nobody calls anything may rest, and
threads may lock two mutexes in opposite order and wait for each other without a
timeout, which the mutex does not prevent.

**Fairness.** `WorkQueue`: the queues' threads run and their handlers return, a thread
whose semaphore was given or whose joined thread exited runs on. On a uniprocessor
the timer interrupt suspends threads between two steps, so these are enabled again
and again rather than continuously: strong fairness, which a scheduler that
does not starve the thread provides. The callback of an expired timeout runs (weak
fairness: an interrupt handler is not suspended). Nothing is assumed of callers, of
timeouts expiring or of `k_thread_join` timing out. `TimeoutQueue`: pending
interrupts are served and callbacks return (weak fairness). `CancelReturns` is
checked with one cancelling thread and `StopReturns` for a queue that stays plugged:
section 6 and the hazards at work.c:644 and work.c:846 say why. `DrainReturns` leaves
out queues whose thread has exited: nothing wakes `drainq` any more. `Poll`, `KTimer`
and `Sched` state no fairness; that something goes on is there an invariant: whoever
waits is registered, scheduled, or has an interrupt to come (`NoMissedEvent`,
`SyncNotStuck`, `HaltInSight`, `BestRuns`).

`Inherits` and `BestIsNext` are checked up to the first lock of a mutex by a thread that
has another (`nested`), and proved for one mutex. With nested locks, raising the
priority of a thread that itself waits does not move it in its wait queue
(`z_thread_prio_set` only re-queues ready threads), and both fail; the mutex
documentation calls nested locking with inheritance sub-optimal.

## 5. Proofs

The theorems hold for every value of the constants that satisfies the ASSUMEs of the
modules (items, clients, queues, threads and objects are different things, priorities
and delays are numbers, there are finitely many CPUs); what else a theorem needs is in
its ASSUME and named here.

| Module | Theorems | Under |
|---|---|---|
| `WorkQueueProofs` | `InductiveInvariant`, `TypeCorrect`, `ItemsQueuedOnce`, `HandlersNotReentered`, `ThreadNotified`, `PluggedQueueIdle`, `StoppedQueueEmpty` | |
| | `FlushesWait`, `CancelsEffective`, `WorkImplementsSpec` (its safety part) | |
| | `TimersInStep`, and the assertion of `z_add_timeout` (`TimeoutNotLinked`) | `~Preemptible` |
| `MutexProofs` | `MutexInvariant`, `NobodyWaitsForFree`, `PriorityComesBack` | |
| | `LockTellsTruth` | `~LateCallback` |
| | `OwnerInherits`, `BestThreadIsNext` | `~LateCallback`, one mutex |
| `CondVarProofs` | `NoSignalLost` | |
| | `CondLockTellsTruth`, `WaitReturnsLocked` | `~LateCallback` |
| | `CondOwnerInherits`, `CondBestIsNext` | `~LateCallback`, one mutex |
| `TimeoutProofs` | `TimeoutTypes`, `DeadlinesStay`, `TicksConserved` | any number of CPUs |
| | `CyclesInRange`, `ClockIsTrue` | `RoomForLatency` |
| | `NeverEarly` | `~SMP`, `RoomForLatency` |
| | `HandledInTurn`, `ImplementsAbstract` | `~SMP` |
| `KTimerProofs` | `OnlyCrowdedDrift` (`StrideKept`), `TimersExpireWhenDue` | `"stop" \notin GapCalls` |
| | `SyncIsWoken` | `~SMP` |
| `SchedProofs` | `SchedTypeCorrect`, `SchedNoThreadLost`, `SchedBestRuns`, any number of CPUs | `~LateCallback`, `NoResumeOfInterrupted` |
| | `SchedHaltEffective` | these and `NoSuspendOfAborted` |
| `PollProofs` | `PollNoMissedEvent`, `PollNoStaleEvent`, `PollAnswers`, `PollTriggeredOnce`, `PollNothingLost`, `MsgqImplementsFifo` | `~LateCallback` |
| | `PollNoIdleWaiter` | `~LateCallback`, `~ShortLists` |

These hypotheses are where the code stops being right, not where the proofs do.
Without `~Preemptible` the assertion fails, and without `~LateCallback` the answer of
`k_mutex_lock` (section 6; the run `mutex_late`). With nested locks what `Inherits`
and `BestIsNext` say fails (section 4). With `ShortLists` a thread is lost, and
`NoIdleWaiter` fails (section 6). `RoomForLatency` says that the driver's range is at
least a tick and that `CYCLES_MAX` is below the range of `cycle_diff_t` and of the
`int32_t` by as much as an interrupt may be late; the run `timeout_up` has the largest
latency that satisfies it. With several CPUs timeouts may be early, in cycles and
in ticks (section 6): `NotEarly` and the part `FiresInTurn` of `ImplementsTimeoutSpec`
fail on the instance of `timeout_smp`. A timer
stopped in the gap does expire, and with several CPUs a thread may wait for a timer
that is stopped (section 6). In `Sched` and `Poll` a late callback makes ready a thread
that something else has woken already: it ends a wait that is not the one the timeout
was for, or puts a thread that runs into the run queue. `NoResumeOfInterrupted` and
`NoSuspendOfAborted` say of each program that two calls do not occur together:
resuming threads while interrupts abort others (section 4), and threads that suspend
themselves while interrupts abort threads, which is the run `sched_abort`. The
programs of the run `sched` satisfy both.

**ListFacts** has what the list operators (insertion, removal, head and tail,
insertion by priority) do to a sequence, its elements, its order and its
distinctness. Where a fact needs induction over a list it is stated for a set of
numbers: `Induction` takes the set of the numbers for which the fact holds and
derives from a least counterexample that it is all of them.

**Work queues.** The inductive invariant is `IInv == TypeOK /\ Places /\ QueueState`.
`QueuedOnce` is not inductive: a submission is redirected to `queue[w]` because the
item is running, so that flag, queue pointer and executing thread must agree
(`RunningPlace`, `HasQueue`); a flusher is an element of the same lists, so that where
flushers are must be known (`FlusherPlace`: in one place, and only while their client
waits), and that in turn needs that a client is released once (`CancellersWait`,
`OnlyFlushersFlush`: no item is mistaken for a flusher). `QueueState` needs
`ThreadState`, which ties the position of a queue's thread to what it executes, to
show that a queue found drained is idle. There is one lemma per action; the operations
that share a `_locked` function share a lemma about that function
(`SubmitKeepsPlaces`, `FlushKeepsPlaces`, `CancelKeepsPlaces`), stated for the flags
the caller passes, since the delayable variants clear `K_WORK_DELAYED` first.

`FlushesWait` rests on `OwedInv`: what a flush still has to wait for is ahead of its
flusher, before it on the same list or in the handler of the same queue's thread.
`queue_flusher_locked` puts the flusher there (`FlusherBehind`), and every later
submission goes behind or to where the item runs. `CancelsEffective` rests on
`CancelInv`: an item that is being cancelled is not queued again. `TimersInStep` rests
on `TimerInv`, that the timeout being handled has left the list.

**Mutexes and condition variables.** `IInv == TypeOK /\ WaitInv /\ WaitersHaveOwner /\ HeldInv`:
wait queues and `pended_on` say the same, and the mutexes a thread holds are
remembered in the order of locking, of which the first saved the thread's own priority
(`PrioSaved`): what is restored last is what was there first. `Answers` adds that,
with no callback late, a thread that pends has `-EAGAIN` as its return value
until its mutex is handed to it, and a timeout only if it asked for one. `Inheriting`
adds that the queue of the one mutex is in the order of the priorities, which is
inductive because the owner, the only thread whose priority changes, does not wait in
it. The invariants are shown to survive steps of `Mutex` and of `CondVar`
alike; `CondInv` says that whoever has released the mutex holds the lock of condvar.c
until it is on the wait queue, `Relocks` that who locks the mutex again has it or
waits for it without a timeout.

**Timeouts.** The deadline of a timeout is a sum over the list in front of it. The
lemmas about `Sums` say what insertion with the adjustment of the successor, removal
with its compensation, and taking the head do to all sums; with `ListInv` (nothing is
twice on the list) they give `DeadlinesFixed`. For `NoTickLost` the invariant
`TicksInv` counts what every CPU has in transit: ticks counted by `timer_isr` and not
yet handed to `sys_clock_announce`, less those that a callback's timeout has used and
`announce_remaining` still holds; the sum over any finite set of CPUs (`Total`)
is that of a listing of them. `CycleInv` says that every compare register is in
reach of the counter, and that cycles and ticks of the driver agree. With one CPU
nothing on the list is before what precedes it (`OrderInv`), and `DueInv` compares
each deadline in cycles with what was asked for. The refinement shows that the list
with its sums (`Schedule`) is the schedule of `TimeoutSpec`: insertion by walking the
differences finds the place of the first later deadline, and announcing takes the
first that is due. To `TimeoutSpec` alone any removal could be an abort; `FiresInTurn`
says that those of `sys_clock_announce` are not.

**Kernel timers.** `StrideKept` needs that the list has no timer twice and is in order
(`Queue`), that nothing on it is due before `curr_tick`, that `curr_tick` is behind the
driver by what is left to announce less what led to the present timeout (`ClockInv`),
and that a timer about to expire is due in this tick, or was and is crowded (`DueInv`).
`PeriodStart` is the heart: what the handler computes from the uptime is the tick it
handles plus the period, or, if `announce_remaining` is used up, the present plus the
period. The two differ only in a handler that is `Crowded`, and the second is later: so
only a crowded timer leaves its stride (`Kept`), and none is early. `SyncIsWoken` has an
invariant of its own, `WaitInv`, without those about time: while a thread has the lock
of timer.c nothing happens to its timer, and what is taken off the list is handled or
about to be woken for.

**Scheduler.** What happens under the lock is a function of the record `k`, so that most
lemmas are about one record and what becomes of it (`Queues`, `Halted`, `Chosen`), and
each call is a composition of them. `KernelInv` has `Sound`: the run queue is in order
and has nobody twice (`Placed`), what is queued is ready and runs nowhere, pending
threads and wait queues say the same (`Waiting`), and a ready thread is queued or runs
(`Found`). `BestRuns` speaks of moments in which everything is settled; inductive is
`Told`: a CPU has the best thread it could have, or an IPI is on its way to it, or it is
in an interrupt, which ends by choosing again. `Rests` says that a current thread neither
pends nor sleeps nor is dead, and is suspended only by the interrupt it is in. For
`HaltEffective` the invariant `HaltInv` follows a halt from the request to the return:
who halts a thread waits in its queue until that thread is halted (`Waits`), without a
timeout (`Untimed`), a thread marked as halting runs somewhere (`Flagged`), and an
interrupt spins for a thread that is to abort or dead (`Spins`). `Onward` is the relation
all steps but the halts themselves satisfy, and it keeps `HaltInv` (`OnwardKeeps`).

**Polling and the objects.** The inductive invariant is `Inv`. `WaitInv` says of every
thread that pends that it is in the call that made it, has no answer yet, and is timed
only if it asked for it. `PollInv` describes a poller by what it sees (the states of its
events and the lists they are on), and what each stage of its call requires of that:
while events are registered one by one, those behind are not ready, and as long as
nobody told the poller the others are on their lists (`Registering`); while they are
cleared, only the first few can be (`Holds`); what it is going to answer is true
(`Answered`). Triggered items have the same, with the work item (sleeping, on its way to
its handler, or neither) in the place of the thread (`PollingWork`). `ObjInv` has one part
per kind of object, with what is handed to woken threads in `HandInv`, as that is where
a block, word or item is while it is on no list. `Tells` is what makes `NoMissedEvent`
inductive: an object that is available and polled has told a poller since it is
available, or its lock is held by a call about to tell. Every step is shown to be of one
of a few forms: it concerns one object and leaves the threads and lists of the others
alone (`ObjectsStep`), moves one poller, or tells one (`Telling`); so that there is one
lemma per action about its own object and one per form about the rest. A lost thread has
the wait state of one whose wait timed out and never returns, so that `Inv` needs
nothing of it; for `NoIdleWaiter`, `NobodyLost` shows that there is none without
`ShortLists`.

`MsgqImplementsFifo` adds `FifoInv`: the slot to be written is the one behind the messages
(`RingInv`), and who waits for space waits for a full queue, who waits for a message for
an empty one (`FullOrEmpty`). The first is needed because `buffer_end` is compared with
both pointers apart from each other, the second because `k_msgq_put` and `k_msgq_get`
take the first of the one wait queue for a reader or a writer without asking which it is:
that it is of the right kind follows from the number of messages. The channel of
`FifoSpec` is what `k_msgq_peek_at` would return for each index; a message
handed over past the buffer is a `Put` that serves a reader, a buffer refilled by a waiting
writer a `Get` that serves it too.

**Only model-checked**:

- `CallsReturn` and the fairness of `WorkSpec`: liveness is beyond the prover.
- `HaltInSight`. As stated it is about two CPUs: the CPU of a thread that is to halt has an
  interrupt to take or to end that does not wait itself. With three, that interrupt may
  spin for the thread of a third CPU, and what is true is a statement about chains of CPUs.

## 6. Where the code and its documentation disagree

Four are runs that are expected to fail; `PROJECT.json` quotes the lines.

- `work_cancel`: `finalize_cancel_locked` leaves its loop after the first canceller,
  although the comment says an item can be on the list several times. A second
  thread in `k_work_cancel_sync` is not released by the completion it waits for.
- `mutex_late`: with several CPUs, a wait that expires while the mutex is handed over
  may end with -EAGAIN for the thread that owns the mutex, or end that thread's next
  wait.
- `ktimer_drift`: "If we're delayed for any reason, we still end up calculating the next
  expiration as a regular stride from where we "should" have run" (timer.c:66) fails
  for the second and later timers due in the last tick announced: `announce_remaining`
  is zero in their handlers, and if a tick has passed since the announcement, the period
  starts from the present and the timer is late by that, for good.
- `sched_abort`: a thread that is being aborted by another CPU and suspends itself
  before the IPI arrives ends suspended: `clear_halting` clears both flags.
  `k_thread_abort` returns, although the thread may be resumed.

Others were met while modelling and are kept out of the runs by the constants named:

- work.c:670, "nor got asked to stop. Just go to sleep": if a stop is requested
  while another thread's drain is being finished, the drain branch is taken and the
  queue's thread sleeps with the stop request pending.
- work.c:879 (`Preemptible`): if a delayable item is rescheduled after its timeout was
  unlinked and before `work_timeout` runs, the late callback takes the new schedule
  for its own; the next schedule trips the assertion of `z_add_timeout`.
  timer.c:46 has the check that is missing here.
- timeout.c:82: `announce_remaining` is said to be non-zero while `sys_clock_announce`
  executes; it is zero in the callbacks of the second and later timeouts due at the
  last announced tick (`ktimer_drift` shows what follows for kernel timers).
- timeout.c:235 (`SMP`): for the same reason a CPU that announces in such a callback
  enters the loop too, which the comment above the test excludes ("Don't race"): two
  callbacks run in parallel, and the first CPU then takes the other's ticks for its
  own and handles timeouts before their tick was announced.
- riscv_machine_timer.c:128 (`SMP`): a timeout that another CPU adds after `timer_isr`
  released the driver's lock and before `sys_clock_announce` took `timeout_lock` counts
  from the new `last_count` and the old `curr_tick`. It is early by the ticks being
  announced, although timers.rst guarantees minimum delays.
- timer.c:198 (`GapCalls`): a timer that is stopped in the gap expires all the same,
  and a periodic one goes on.
- timer.c:209 (`SMP` of `KTimer`): `k_timer_stop` looks for a thread to wake without the
  lock of timer.c; on another CPU a thread may have found the timer running and not
  have pended yet: it waits for a timer that is stopped.
- queue.c:280 (`ShortLists`): `k_queue_append_list` unpends the next thread before it
  tests whether an item is left for it. If more threads wait than the list has items,
  one of them leaves the wait queue, its timeout is aborted, and nothing makes it ready:
  it waits for ever, and items added later go into the queue, although fifos.rst:42 says
  that an item "is given directly to a waiting thread, if one exists; otherwise the item
  is added to the FIFO's queue". With `ShortLists` true in `MCPoll.cfg` TLC shows it as a
  violation of `NoIdleWaiter`.
- queue.c:376 and 389: `k_queue_remove` and `k_queue_unique_append` walk the list without
  the queue's lock, although kernel.h calls both isr_ok; the model takes the walk as
  one step, which holds only if the callers keep other users away.
- sched.c:1261: halting another thread leaves `swap_ok` set, so that the next interrupt
  may switch away from a cooperative thread.

## 7. Not modelled

- In work.c: queue names, yielding, tracing, the read-only `k_work_busy_get`,
  starting a stopped queue again, reuse of a `k_work_sync` while the queue's thread
  still reads it.
- In timeout.c and the driver: `sys_timepoint_*` (pure conversions), setting the
  tick count (for tests), torn reads of the 64-bit counter, which the driver retries.
- In sched.c and thread.c: creation of threads, time slices, `k_sched_lock`, meta-IRQ
  threads, deadlines, CPU masks, the run queue's other implementations, IPIs sent to
  some CPUs only (`CONFIG_IPI_OPTIMIZE`), the context switch itself.
- In queue.c: contents of items, and what happens to the list when another user
  changes it during the walk of `k_queue_remove` or `k_queue_unique_append`.
- In msg_q.c, stack.c, mem_slab.c: allocated buffers, statistics.
- In poll.c: an array that names an object twice, pipes, several work queues.
- In mutex.c and condvar.c: calls that return an error, waiting with a mutex one does
  not own, object cores.
- Pipes and mailboxes: planned. Futexes: the word belongs to user code.
- SMP start-up, memory management, userspace, boot, architecture: sequential
  code, or data structures whose correctness is the hardware's matter.
- Drivers, subsystems, boards, samples, tests: register access, or projects of their
  own on top of these services; the binary radio libraries are not in the repository.
