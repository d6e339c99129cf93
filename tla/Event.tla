-------------------------------- MODULE Event --------------------------------
(***************************************************************************)
(* Event objects of the Zephyr kernel (kernel/events.c): a set of events   *)
(* that were delivered, and threads that wait for any or for all of some.  *)
(***************************************************************************)
EXTENDS PollEvents

CONSTANTS
  EventObjs,
  Bits         \* the events of one object

ASSUME EventAssumption == EventObjs \subseteq Objects

VARIABLES
  tracked,        \* k_event.events
  thread_events   \* k_thread.events: what a thread waits for, then what it gets

eventObjVars == <<tracked, thread_events>>

EventInit ==
  /\ tracked = [e \in EventObjs |-> {}]
  /\ thread_events = [t \in Threads |-> {}]

-----------------------------------------------------------------------------
are_wait_conditions_met(desired, current, all) ==
  IF all THEN desired \subseteq current ELSE desired \cap current # {}

\* The threads whose condition is met, out of all that wait.
FirstMatch(e, current) ==
  LET i == SelectInSeq(wait_q[e], LAMBDA t :
             are_wait_conditions_met(thread_events[t], current, call[t].all))
  IN  IF i = 0 THEN {} ELSE {wait_q[e][i]}

event_walk_op(e, current) ==
  {t \in ToSet(wait_q[e]) :
     are_wait_conditions_met(thread_events[t], current, call[t].all)}

\* A timeout callback that comes after the walk and before the thread is woken
\* leaves it alone (no_wake_on_timeout).
WakeWalked(ts, e) ==
  /\ wait_q' = [wait_q EXCEPT ![e] = Remaining(@, ts)]
  /\ pended_on' = [t \in Threads |-> IF t \in ts THEN None ELSE pended_on[t]]
  /\ armed' = armed \ ts
  /\ swap_retval' = [t \in Threads |-> IF t \in ts THEN "0" ELSE swap_retval[t]]
  /\ firing' \in {firing} \cup (IF firing \in ts THEN {None} ELSE {})
  /\ UNCHANGED forever

\* k_event_post (mask: the events themselves), k_event_set (mask: all bits),
\* k_event_set_masked, and k_event_clear (no events).
k_event_post_internal(e, posted, mask) ==
  LET current == (tracked[e] \ mask) \cup (posted \cap mask)
      ts == event_walk_op(e, current)
  IN  /\ tracked' = [tracked EXCEPT ![e] = current]
      /\ thread_events' = [t \in Threads |-> IF t \in ts THEN current ELSE thread_events[t]]
      /\ WakeWalked(ts, e)
      /\ UNCHANGED <<prio, call, data, handling, eventVars, triggerVars, tworkVars>>

\* (Waiting for nothing, or with K_NO_WAIT, returns at once.)
k_event_wait_internal(t, e, desired, all, reset, timeout) ==
  LET current == IF reset THEN {} ELSE tracked[e]
      met == are_wait_conditions_met(desired, current, all)
  IN  /\ Running(t) /\ desired # {}
      /\ tracked' = [tracked EXCEPT ![e] = current]
      /\ \/ /\ met
            /\ UNCHANGED <<waitVars, call, thread_events>>
         \/ /\ ~met
            /\ z_pend_curr(t, e, timeout, prio)
            /\ call' = [call EXCEPT ![t] =
                 [op |-> "event", obj |-> e, desired |-> desired, all |-> all]]
            /\ thread_events' = [thread_events EXCEPT ![t] = desired]
      /\ UNCHANGED <<prio, data, handling, eventVars, triggerVars, tworkVars>>

\* What the call returns.
Received(t) == IF swap_retval[t] = "0" THEN thread_events[t] \cap call[t].desired ELSE {}

\* (What thread_events holds between two waits is never read.)
EventReturns(t) ==
  /\ Returning(t, {"event"})
  /\ thread_events' = [thread_events EXCEPT ![t] = {}]
  /\ call' = [call EXCEPT ![t] = Idle]
  /\ UNCHANGED <<prio, tracked, waitVars, data, handling, eventVars, triggerVars, tworkVars>>
=============================================================================
