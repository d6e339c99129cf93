-------------------------------- MODULE Poll --------------------------------
(***************************************************************************)
(* The polling API of the Zephyr kernel (kernel/poll.c) and the objects it *)
(* polls (modules Sem, MsgQ and Queue, and poll signals): k_poll, which    *)
(* waits for one of several objects, and triggered work items, which are   *)
(* submitted to a work queue once one of several objects is available.     *)
(* Objects that cannot be polled (modules Stack, MemSlab and Event) belong *)
(* to the same system: threads wait for them and are served likewise.      *)
(*                                                                         *)
(* An action is what happens under one holding of the lock of poll.c.      *)
(***************************************************************************)
EXTENDS Sem, MsgQ, Queue, Stack, MemSlab, Event

CONSTANTS
  poll_wait_q,  \* the wait queue of k_poll
  Systems,      \* sets of objects, threads and work items: what there is, is
                \* one of these; threads call k_poll if it has poll_wait_q
  ShortLists    \* are lists appended to a queue on which more threads wait?

\* Objects that cannot be polled.
Plain == Stacks \cup Slabs \cup EventObjs

ASSUME PollAssumption ==
  /\ poll_wait_q \in Objects \ (Pollables \cup Plain)
  /\ Pollables \cap Plain = {}
  /\ Stacks \cap (Slabs \cup EventObjs) = {} /\ Slabs \cap EventObjs = {}
  /\ Words \cap Items = {}
  /\ \A l \in Slabs : ToSet(Blocks[l]) \cap (Words \cup Items) = {}
  /\ Systems \subseteq SUBSET (Objects \cup Pollables \cup Pollers)
  /\ \A S \in Systems : IsFiniteSet(S)
  /\ ShortLists \in BOOLEAN

VARIABLES
  signaled,   \* k_poll_signal.signaled
  twork,      \* the call of k_work_poll_submit or _cancel on each item
  handler,    \* events triggered_work_handler has still to clear, if it runs
  used,       \* what there is: one of Systems
  told        \* history: who was told that an object is available, since it is

plainVars == <<pushed, slabVars, eventObjVars>>
objectVars == <<semVars, msgqVars, queueVars, plainVars, signaled, handling, data>>
restVars == <<twork, handler, prio>>
vars == <<waitVars, eventVars, triggerVars, tworkVars, objectVars, restVars, call, used, told>>

NotRunning == -1

PollInit ==
  /\ PollEventsInit /\ SemInit /\ MsgQInit /\ QueueInit /\ StackInit /\ SlabInit /\ EventInit
  /\ signaled = [g \in Signals |-> FALSE]
  /\ twork = [w \in TWorks |-> [pc |-> "none", events |-> <<>>]]
  /\ handler = [w \in TWorks |-> NotRunning]
  /\ used \in Systems
  /\ told = [o \in Pollables |-> {}]

\* Arrays of events to poll: here an object occurs once.
Arrays ==
  IF poll_wait_q \notin used THEN {}
    ELSE UNION {SetToSeqs(A) : A \in (SUBSET (used \cap Pollables)) \ {{}}}

-----------------------------------------------------------------------------
\* The object is read without its lock.
is_condition_met(o) ==
  CASE o \in Sems    -> count[o] > 0
    [] o \in MsgQs   -> used_msgs[o] > 0
    [] o \in Queues  -> data_q[o] # <<>>
    [] o \in Signals -> signaled[o]

\* One turn of the loop of register_events, for an array in c: an object that
\* is available ends the polling, else the event is registered.  reg is
\* events_registered.
register_next(p, c) ==
  LET e == <<p, c.events[c.ii]>>
  IN  \/ /\ is_condition_met(e[2])
         /\ state' = set_event_ready(e, "AVAILABLE")
         /\ is_polling' = [is_polling EXCEPT ![p] = FALSE]
         /\ UNCHANGED poll_events
      \/ /\ ~is_condition_met(e[2])
         /\ IF is_polling[p] /\ ~c.just_check
              THEN \E list \in add_event(poll_events[e[2]], e) :
                     poll_events' = [poll_events EXCEPT ![e[2]] = list]
              ELSE UNCHANGED poll_events
         /\ UNCHANGED <<state, is_polling>>

Registered(p, c) ==
  [c EXCEPT !.ii = @ + 1,
            !.reg = IF poll_events'[c.events[c.ii]] # poll_events[c.events[c.ii]]
                      THEN @ + 1 ELSE @]

\* clear_event_registrations clears the first n events of an array, from the
\* last one down, and releases the lock after each.
SkipFirst(p, events, n) ==
  IF n <= 1 THEN poll_events
    ELSE [poll_events EXCEPT ![events[n]] = Remaining(@, {<<p, events[n]>>})]

clear_event_registration(p, events, n) ==
  IF n = 0 THEN poll_events
    ELSE [poll_events EXCEPT ![events[n]] = Remaining(@, {<<p, events[n]>>})]

Less(n) == IF n = 0 THEN 0 ELSE n - 1

-----------------------------------------------------------------------------
(* k_poll *)

Stage(t, pc) == call[t].op = "poll" /\ call[t].pc = pc

k_poll(t, events, timeout) ==
  /\ Running(t)
  /\ is_polling' = [is_polling EXCEPT ![t] = TRUE]
  /\ call' = [call EXCEPT ![t] =
       [op |-> "poll", pc |-> "register", events |-> events, ii |-> 1, reg |-> 0,
        just_check |-> timeout = "no_wait", timeout |-> timeout, rc |-> "0"]]
  /\ UNCHANGED <<poll_events, state, waitVars, triggerVars, tworkVars, objectVars, restVars>>

PollRegister(t) ==
  /\ Stage(t, "register") /\ call[t].ii <= Len(call[t].events)
  /\ register_next(t, call[t])
  /\ call' = [call EXCEPT ![t] = Registered(t, @)]
  /\ UNCHANGED <<waitVars, triggerVars, tworkVars, objectVars, restVars>>

\* If an event is ready the registrations are cleared, else the thread pends.
StillPolling(t) == TRUE

GoesToSleep(t) == is_polling[t]

PollDecide(t) ==
  LET c == call[t]
      clear(rc) == [c EXCEPT !.pc = "clear", !.reg = Less(@), !.rc = rc]
  IN  /\ Stage(t, "register") /\ c.ii > Len(c.events)
      /\ is_polling' = [is_polling EXCEPT ![t] = FALSE]
      /\ \/ /\ ~GoesToSleep(t)
            /\ poll_events' = clear_event_registration(t, c.events, c.reg)
            /\ call' = [call EXCEPT ![t] = clear("0")]
            /\ UNCHANGED waitVars
         \/ /\ GoesToSleep(t) /\ c.just_check
            /\ call' = [call EXCEPT ![t] = clear("-EAGAIN")]
            /\ UNCHANGED <<waitVars, poll_events>>
         \/ /\ GoesToSleep(t) /\ ~c.just_check
            /\ z_pend_curr(t, poll_wait_q, c.timeout, prio)
            /\ call' = [call EXCEPT ![t].pc = "pended"]
            /\ UNCHANGED poll_events
      /\ UNCHANGED <<state, triggerVars, tworkVars, objectVars, restVars>>

PollClear(t) ==
  LET c == call[t]
  IN  /\ \/ /\ Stage(t, "pended") /\ pended_on[t] = None
            /\ call' = [call EXCEPT ![t] =
                 [c EXCEPT !.pc = "clear", !.reg = Less(@), !.rc = swap_retval[t]]]
         \/ /\ Stage(t, "clear") /\ c.reg > 0
            /\ call' = [call EXCEPT ![t].reg = Less(@)]
      /\ poll_events' = clear_event_registration(t, c.events, c.reg)
      /\ UNCHANGED <<state, is_polling, waitVars, triggerVars, tworkVars, objectVars, restVars>>

PollReturns(t) == Stage(t, "clear") /\ call[t].reg = 0

\* The user sets the states of the events back to NOT_READY.
PollDone(t) ==
  /\ PollReturns(t)
  /\ call' = [call EXCEPT ![t] = Idle]
  /\ state' = [e \in Events |-> IF e[1] = t THEN {} ELSE state[e]]
  /\ UNCHANGED <<poll_events, is_polling, waitVars, triggerVars, tworkVars, objectVars, restVars>>

\* Of a signal all of the code is under the lock of poll.c, or under none.
k_poll_signal_raise(g) ==
  /\ signaled' = [signaled EXCEPT ![g] = TRUE]
  /\ z_handle_obj_poll_events(g, "AVAILABLE")
  /\ UNCHANGED <<semVars, msgqVars, queueVars, plainVars, handling, data, tworkVars, restVars, call>>

k_poll_signal_reset(g) ==
  /\ signaled[g]
  /\ signaled' = [signaled EXCEPT ![g] = FALSE]
  /\ UNCHANGED <<semVars, msgqVars, queueVars, plainVars, handling, data, eventVars, waitVars,
                 triggerVars, tworkVars, restVars, call>>

-----------------------------------------------------------------------------
(* Triggered work.  Items are submitted to one work queue. *)

Cancellable(w) == is_polling[w] /\ mode[w] # "NONE"

TakeOwnership(w, c) ==
  /\ is_polling' = [is_polling EXCEPT ![w] = TRUE]
  /\ state' = [e \in Events |-> IF e[1] = w THEN {} ELSE state[e]]
  /\ workq' = [workq EXCEPT ![w] = TRUE]
  /\ mode' = [mode EXCEPT ![w] = "NONE"]
  /\ poll_result' = [poll_result EXCEPT ![w] = "-EINPROGRESS"]
  /\ twork' = [twork EXCEPT ![w] = c]

\* triggered_work_cancel: the timeout is aborted and the events are cleared;
\* then the call goes on with c, if that is not None.
BeginCancel(w, c) ==
  LET n == Len(twork[w].events)
  IN  /\ workq[w] /\ Cancellable(w)
      /\ tw_armed' = tw_armed \ {w}
      /\ mode' = [mode EXCEPT ![w] = "NONE"]
      /\ poll_events' = clear_event_registration(w, twork[w].events, n)
      /\ twork' = [twork EXCEPT ![w] =
           [pc |-> "cancel", events |-> twork[w].events, reg |-> Less(n), then |-> c]]
      /\ UNCHANGED <<state, is_polling, workq, poll_result, queued, tw_firing>>

\* Other calls on items that belong to the queue return -EINVAL.
k_work_poll_submit(w, events, timeout) ==
  LET c == [pc |-> "register", events |-> events, ii |-> 1, reg |-> 0,
            just_check |-> FALSE, timeout |-> timeout]
  IN  /\ twork[w].pc = "none"
      /\ \/ /\ ~workq[w]
            /\ TakeOwnership(w, c)
            /\ UNCHANGED <<poll_events, tw_armed, queued, tw_firing>>
         \/ BeginCancel(w, c)
      /\ UNCHANGED <<waitVars, objectVars, handler, prio, call>>

k_work_poll_cancel(w) ==
  /\ twork[w].pc = "none"
  /\ BeginCancel(w, None)
  /\ UNCHANGED <<waitVars, objectVars, handler, prio, call>>

CancelStep(w) ==
  LET c == twork[w]
  IN  /\ c.pc = "cancel"
      /\ \/ /\ c.reg > 0
            /\ poll_events' = clear_event_registration(w, c.events, c.reg)
            /\ twork' = [twork EXCEPT ![w].reg = Less(@)]
            /\ UNCHANGED <<state, is_polling, triggerVars, tworkVars>>
         \/ /\ c.reg = 0 /\ c.then = None
            /\ workq' = [workq EXCEPT ![w] = FALSE]
            /\ twork' = [twork EXCEPT ![w] = [pc |-> "none", events |-> <<>>]]
            /\ UNCHANGED <<eventVars, triggerVars, mode, tw_firing>>
         \/ /\ c.reg = 0 /\ c.then # None
            /\ TakeOwnership(w, c.then)
            /\ UNCHANGED <<poll_events, tw_armed, queued, tw_firing>>
      /\ UNCHANGED <<waitVars, objectVars, handler, prio, call>>

SubmitRegister(w) ==
  LET c == twork[w]
  IN  /\ c.pc = "register" /\ c.ii <= Len(c.events)
      /\ register_next(w, c)
      /\ twork' = [twork EXCEPT ![w] = Registered(w, c)]
      /\ UNCHANGED <<waitVars, triggerVars, tworkVars, objectVars, handler, prio, call>>

\* No event is ready: from now on any will submit the item.  Else, or with
\* K_NO_WAIT, the registrations are cleared and the item is submitted.
Watches(w, c) == is_polling[w] /\ c.timeout # "no_wait"

SubmitDecide(w) ==
  LET c == twork[w]
  IN  /\ c.pc = "register" /\ c.ii > Len(c.events)
      /\ \/ /\ Watches(w, c)
            /\ tw_armed' = IF c.timeout = "ticks" THEN tw_armed \cup {w} ELSE tw_armed
            /\ mode' = [mode EXCEPT ![w] = "TRIGGERED"]
            /\ twork' = [twork EXCEPT ![w] = [pc |-> "none", events |-> c.events]]
            /\ UNCHANGED <<eventVars, poll_result>>
         \/ /\ ~Watches(w, c)
            /\ poll_result' = [poll_result EXCEPT ![w] =
                 IF is_polling[w] THEN "-EAGAIN" ELSE "0"]
            /\ is_polling' = [is_polling EXCEPT ![w] = FALSE]
            /\ poll_events' = clear_event_registration(w, c.events, c.reg)
            /\ twork' = [twork EXCEPT ![w] = [c EXCEPT !.pc = "clear", !.reg = Less(@)]]
            /\ UNCHANGED <<state, mode, tw_armed>>
      /\ UNCHANGED <<waitVars, workq, queued, tw_firing, objectVars, handler, prio, call>>

SubmitClear(w) ==
  LET c == twork[w]
  IN  /\ c.pc = "clear"
      /\ \/ /\ c.reg > 0
            /\ poll_events' = clear_event_registration(w, c.events, c.reg)
            /\ twork' = [twork EXCEPT ![w].reg = Less(@)]
            /\ UNCHANGED queued
         \/ /\ c.reg = 0
            /\ queued' = queued \cup {w}
            /\ twork' = [twork EXCEPT ![w] = [pc |-> "none", events |-> c.events]]
            /\ UNCHANGED poll_events
      /\ UNCHANGED <<waitVars, state, is_polling, poll_result, tw_armed, tworkVars, objectVars,
                     handler, prio, call>>

\* The timeout of an item.
ExpireWork(w) ==
  /\ w \in tw_armed
  /\ tw_armed' = tw_armed \ {w}
  /\ tw_firing' = tw_firing \cup {w}
  /\ UNCHANGED <<waitVars, eventVars, poll_result, queued, mode, workq, objectVars, restVars, call>>

NotMarked(w) == is_polling

Stopped(w) == [is_polling EXCEPT ![w] = FALSE]

triggered_work_expiration_handler(w) ==
  /\ w \in tw_firing
  /\ tw_firing' = tw_firing \ {w}
  /\ is_polling' = Stopped(w)
  /\ poll_result' = [poll_result EXCEPT ![w] = "-EAGAIN"]
  /\ queued' = IF workq[w] THEN queued \cup {w} ELSE queued
  /\ UNCHANGED <<waitVars, poll_events, state, tw_armed, mode, workq, objectVars, restVars, call>>

\* The queue's thread executes triggered_work_handler, which clears the events
\* and leaves the item to its owner, and then the item's own handler.
HandlerStart(w) ==
  LET n == IF mode[w] = "NONE" THEN 0 ELSE Len(twork[w].events)
  IN  /\ w \in queued /\ handler[w] = NotRunning
      /\ queued' = queued \ {w}
      /\ poll_events' = clear_event_registration(w, twork[w].events, n)
      /\ handler' = [handler EXCEPT ![w] = Less(n)]
      /\ UNCHANGED <<waitVars, state, is_polling, poll_result, tw_armed, tworkVars, objectVars,
                     twork, prio, call>>

HandlerStep(w) ==
  /\ handler[w] # NotRunning
  /\ \/ /\ handler[w] > 0
        /\ poll_events' = clear_event_registration(w, twork[w].events, handler[w])
        /\ handler' = [handler EXCEPT ![w] = Less(@)]
        /\ UNCHANGED workq
     \/ /\ handler[w] = 0
        /\ workq' = [workq EXCEPT ![w] = FALSE]
        /\ handler' = [handler EXCEPT ![w] = NotRunning]
        /\ UNCHANGED poll_events
  /\ UNCHANGED <<waitVars, state, is_polling, triggerVars, mode, tw_firing, objectVars,
                 twork, prio, call>>

-----------------------------------------------------------------------------
Timeout == {"ticks", "forever"}

\* A thread calls, goes on in a call, or returns from one that waited.
ThreadStep(t) ==
  \/ /\ \/ \E s \in Sems \cap used, timeout \in Timeout : k_sem_take(t, s, timeout)
        \/ TakeReturns(t)
     /\ UNCHANGED <<msgqVars, queueVars, plainVars, signaled, twork, handler>>
  \/ /\ \/ \E m \in MsgQs \cap used, timeout \in Timeout :
             \/ \E msg \in Msgs : PutWait(t, m, msg, timeout)
             \/ k_msgq_get(t, m, timeout)
        \/ MsgQReturns(t)
     /\ UNCHANGED <<semVars, queueVars, plainVars, signaled, twork, handler>>
  \/ /\ \E q \in Queues \cap used, timeout \in Timeout : k_queue_get(t, q, timeout)
     /\ UNCHANGED <<semVars, msgqVars, plainVars, signaled, twork, handler>>
  \/ /\ \E k \in Stacks \cap used, timeout \in Timeout : k_stack_pop(t, k, timeout)
     /\ UNCHANGED <<semVars, msgqVars, data_q, lost, slabVars, eventObjVars,
                    signaled, twork, handler>>
  \/ /\ \E l \in Slabs \cap used, timeout \in Timeout : k_mem_slab_alloc(t, l, timeout)
     /\ UNCHANGED <<semVars, msgqVars, data_q, lost, pushed, eventObjVars,
                    signaled, twork, handler>>
  \/ /\ \/ \E e \in EventObjs \cap used, desired \in SUBSET Bits, all, reset \in BOOLEAN,
             timeout \in Timeout : k_event_wait_internal(t, e, desired, all, reset, timeout)
        \/ EventReturns(t)
     /\ UNCHANGED <<semVars, msgqVars, queueVars, pushed, slabVars, signaled, twork, handler>>
  \/ /\ GivenReturns(t) /\ t \notin lost
     /\ UNCHANGED <<semVars, msgqVars, data_q, lost, plainVars, signaled, twork, handler>>
  \/ \E events \in Arrays, timeout \in Timeout \cup {"no_wait"} : k_poll(t, events, timeout)
  \/ PollRegister(t) \/ PollDecide(t) \/ PollClear(t) \/ PollDone(t)

\* Calls that do not wait, by threads or interrupts.
AnyCall ==
  \/ /\ \E s \in Sems \cap used : k_sem_give(s) \/ k_sem_reset(s)
     /\ UNCHANGED <<msgqVars, queueVars, plainVars, signaled, twork, handler>>
  \/ /\ \E m \in MsgQs \cap used :
          (\E msg \in Msgs : PutNow(m, msg)) \/ k_msgq_purge(m)
     /\ UNCHANGED <<semVars, queueVars, plainVars, signaled, twork, handler>>
  \/ /\ \E q \in Queues \cap used :
          \/ \E i \in Items, prev \in ToSet(data_q[q]) \cup {None} : queue_insert(q, i, prev)
          \/ \E i \in Items : k_queue_remove(q, i)
          \/ \E items \in ItemLists :
               /\ ShortLists \/ Len(wait_q[q]) <= Len(items)
               /\ k_queue_append_list(q, items)
          \/ k_queue_cancel_wait(q)
     /\ UNCHANGED <<semVars, msgqVars, plainVars, signaled, twork, handler>>
  \/ /\ \E k \in Stacks \cap used, i \in Words : k_stack_push(k, i)
     /\ UNCHANGED <<semVars, msgqVars, data_q, lost, slabVars, eventObjVars,
                    signaled, twork, handler>>
  \/ /\ \E l \in Slabs \cap used : \E b \in ToSet(Blocks[l]) : k_mem_slab_free(l, b)
     /\ UNCHANGED <<semVars, msgqVars, data_q, lost, pushed, eventObjVars,
                    signaled, twork, handler>>
  \/ /\ \E e \in EventObjs \cap used, mask \in SUBSET Bits : \E posted \in SUBSET mask :
          k_event_post_internal(e, posted, mask)
     /\ UNCHANGED <<semVars, msgqVars, queueVars, pushed, slabVars, signaled, twork, handler>>
  \/ \E g \in Signals \cap used : k_poll_signal_raise(g) \/ k_poll_signal_reset(g)
  \/ /\ \E o \in Pollables \cap used : handle_poll_events(o)
     /\ UNCHANGED <<semVars, msgqVars, queueVars, plainVars, signaled, twork, handler>>

WorkStep(w) ==
  \/ \E events \in Arrays, timeout \in Timeout \cup {"no_wait"} :
       k_work_poll_submit(w, events, timeout)
  \/ k_work_poll_cancel(w) \/ CancelStep(w)
  \/ SubmitRegister(w) \/ SubmitDecide(w) \/ SubmitClear(w)
  \/ HandlerStart(w) \/ HandlerStep(w)
  \/ ExpireWork(w)

ExpireWait(t) ==
  /\ Expire(t)
  /\ UNCHANGED <<eventVars, triggerVars, tworkVars, objectVars, twork, handler, call>>

TimeoutStep ==
  \/ /\ z_thread_timeout
     /\ lost' = lost \ {firing}  \* the callback makes its thread ready
     /\ UNCHANGED <<eventVars, triggerVars, tworkVars, semVars, msgqVars, data_q, swap_data,
                    plainVars, signaled, handling, data, twork, handler, call>>
  \/ \E w \in TWorks : triggered_work_expiration_handler(w)

NoteTold ==
  told' = [o \in Pollables |->
    IF ~is_condition_met(o)' THEN {}
    ELSE told[o] \cup {p \in Pollers : "AVAILABLE" \in state'[<<p, o>>] \ state[<<p, o>>]}]

Next ==
  /\ \/ TimeoutStep
     \/ /\ (firing = None /\ tw_firing = {}) \/ LateCallback
        /\ \/ AnyCall
           \/ \E t \in Threads \cap used : ThreadStep(t) \/ ExpireWait(t)
           \/ \E w \in TWorks \cap used : WorkStep(w)
  /\ NoteTold
  /\ UNCHANGED used

Spec == PollInit /\ [][Next]_vars

-----------------------------------------------------------------------------
(* What has to hold *)

\* A poller that has nothing left to do but to be told, and its objects.
Asleep(p) ==
  IF p \in Threads THEN Stage(p, "pended") /\ pended_on[p] = poll_wait_q
                   ELSE Triggers(p) /\ twork[p].pc = "none"

Polled(p) == ToSet(IF p \in Threads THEN call[p].events ELSE twork[p].events)

\* "The k_poll() function returns as soon as one of the conditions it is waiting
\* for is fulfilled" (polling.rst).  However the object changed while the events
\* were registered one by one: a poller that sleeps is registered everywhere,
\* and sleeps on an object that is available only if another one was told.
NoMissedEvent ==
  \A p \in Pollers : Asleep(p) =>
    \A o \in Polled(p) :
      /\ <<p, o>> \in ToSet(poll_events[o])
      /\ is_condition_met(o) /\ handling[o] = None => told[o] # {}

\* No event stays registered, once, longer than its poller polls: a thread is
\* never woken out of another wait, nor an item submitted again.
NoStaleEvent ==
  \A o \in Pollables :
    /\ IsInjective(poll_events[o])
    /\ \A e \in ToSet(poll_events[o]) :
         /\ e[2] = o
         /\ IF e[1] \in Threads THEN call[e[1]].op = "poll" ELSE workq[e[1]]

\* "@retval 0 One or more events are ready.  @retval -EAGAIN Waiting period timed
\* out.  ... -EINTR status means that at least one of output events is
\* K_POLL_STATE_CANCELLED" (k_poll).
PollAnswer ==
  \A t \in Threads : PollReturns(t) =>
    LET states == {state[<<t, o>>] : o \in Polled(t)}
    IN  CASE call[t].rc = "0"       -> states # {{}}
          [] call[t].rc = "-EINTR"  -> "CANCELLED" \in UNION states
          [] call[t].rc = "-EAGAIN" -> call[t].timeout # "forever"

\* "All threads trying to acquire an object the regular way, i.e. by pending on
\* the object, have precedence over the thread polling on the object" (k_poll);
\* "all threads whose wait conditions have been satisfied become ready
\* simultaneously" (events.rst): none waits for what is there, on the wait queue
\* or lost to it, and whoever is woken gets what it waited for.
Waiters(o) == ToSet(wait_q[o]) \cup {t \in lost : call[t].obj = o}

NoIdleWaiter ==
  /\ \A s \in Sems : Waiters(s) # {} => count[s] = 0
  /\ \A q \in Queues : Waiters(q) # {} => data_q[q] = <<>>
  /\ \A k \in Stacks : Waiters(k) # {} => pushed[k] = <<>>
  /\ \A l \in Slabs : Waiters(l) # {} => free_list[l] = <<>>
  /\ \A e \in EventObjs : \A t \in Waiters(e) :
       ~are_wait_conditions_met(call[t].desired, tracked[e], call[t].all)
  /\ \A t \in Threads : Returning(t, {"event"}) =>
       Received(t) # {} <=> swap_retval[t] = "0"

\* Whatever was given is in one place, however waits were served, timed out or
\* were cancelled: semaphores are neither lost nor taken twice, an item or a
\* block is on a list once or on its way to the thread whose call returns it, and
\* num_used counts the blocks that are not free ("slab corruption detected").
NothingLost ==
  /\ SemConserved
  /\ \A t \in Threads : swap_data[t] # None => Returning(t, Giving) /\ swap_retval[t] = "0"
  /\ \A t, u \in Threads : swap_data[t] = swap_data[u] => t = u \/ swap_data[t] = None
  /\ \A list \in {data_q[q] : q \in Queues} \cup {pushed[k] : k \in Stacks}
                   \cup {free_list[l] : l \in Slabs} :
       IsInjective(list) /\ ToSet(list) \cap HandedOver = {}
  /\ \A l \in Slabs : num_used[l] + Len(free_list[l]) = Len(Blocks[l])

\* A triggered item that was accepted is being registered, cancelled or watched,
\* or is on its way to its handler, which runs once and learns why: an event,
\* or the end of its time.
TriggeredOnce ==
  \A w \in TWorks :
    LET coming == w \in queued \/ handler[w] # NotRunning
    IN  /\ workq[w] <=> twork[w].pc # "none" \/ Asleep(w) \/ coming \/ w \in tw_firing
        /\ coming => /\ twork[w].pc = "none" /\ ~is_polling[w]
                     /\ ~(w \in queued /\ handler[w] # NotRunning)
                     /\ poll_result[w] \in {"0", "-EAGAIN"}
                     /\ poll_result[w] = "0" => \E o \in Polled(w) : state[<<w, o>>] # {}
=============================================================================
