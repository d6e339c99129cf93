------------------------------ MODULE PollEvents ------------------------------
(***************************************************************************)
(* The part of kernel/poll.c that kernel objects see: each object that can *)
(* be polled has a list of the poll events registered on it, and tells the *)
(* first of them when it becomes available.  A poller is a thread in       *)
(* k_poll, or a triggered work item (struct k_work_poll).                  *)
(*                                                                         *)
(* An object changes under its own lock, and with that still held takes    *)
(* the lock of the polling code in order to tell a poller.  In between,    *)
(* other CPUs see the object changed and the poller not yet told: handling *)
(* is what an object has still to tell.                                    *)
(***************************************************************************)
EXTENDS WaitQueue, FiniteSets

CONSTANTS
  Sems, MsgQs, Queues, Signals,  \* objects that can be polled
  TWorks                         \* struct k_work_poll objects

Pollables == Sems \cup MsgQs \cup Queues \cup Signals
Pollers == Threads \cup TWorks

\* struct k_poll_event: a poller has one per object.  Its poller field is not
\* NULL exactly while it is on the object's list.
Events == Pollers \X Pollables

ASSUME PollEventsAssumption ==
  /\ Sems \cup MsgQs \cup Queues \subseteq Objects
  /\ Threads \cap TWorks = {} /\ IsFiniteSet(Threads)
  /\ None \notin {"AVAILABLE", "CANCELLED"}
  /\ Sems \cap (MsgQs \cup Queues \cup Signals) = {}
  /\ MsgQs \cap (Queues \cup Signals) = {} /\ Queues \cap Signals = {}

VARIABLES
  poll_events,  \* the list of each object
  state,        \* k_poll_event.state: a set of flags
  is_polling,   \* z_poller.is_polling
  handling,     \* what an object whose lock is held is about to tell
  call,         \* what a thread is executing
  data,         \* the buffer a thread passed
  swap_data,    \* base.swap_data: what a thread that is woken is given
  mode,         \* z_poller.mode of each triggered work item, and its ...
  workq,        \* ... k_work_poll.workq: does it belong to a work queue?
  poll_result,  \* ... k_work_poll.poll_result
  tw_armed,     \* items whose timeout is on the kernel's list
  tw_firing,    \* items whose timeout is off it, callback not yet run
  queued        \* items submitted to the work queue

eventVars == <<poll_events, state, is_polling>>
triggerVars == <<poll_result, tw_armed, queued>>
tworkVars == <<mode, workq, tw_firing>>

Idle == [op |-> "idle"]

PollEventsInit ==
  /\ WaitInit
  /\ poll_events = [o \in Pollables |-> <<>>]
  /\ state = [e \in Events |-> {}]
  /\ is_polling = [p \in Pollers |-> FALSE]
  /\ handling = [o \in Pollables |-> None]
  /\ call = [t \in Threads |-> Idle]
  /\ data = [t \in Threads |-> None]
  /\ swap_data = [t \in Threads |-> None]
  /\ mode = [w \in TWorks |-> "NONE"]
  /\ workq = [w \in TWorks |-> FALSE]
  /\ poll_result = [w \in TWorks |-> "0"]
  /\ tw_armed = {} /\ tw_firing = {} /\ queued = {}

-----------------------------------------------------------------------------
\* All semaphores share one lock.
Unlocked(o) ==
  IF o \in Sems THEN \A s \in Sems : handling[s] = None ELSE handling[o] = None

Running(t) == call[t] = Idle

\* Events are ordered by the priorities of their threads, as wait queues are.
\* The poller of a work item has none: the memory in front of the item is read
\* in place of it, and the event may land anywhere.
add_event(list, e) ==
  IF \A f \in ToSet(list) \cup {e} : f[1] \in Threads
    THEN LET lower == SelectInSeq(list, LAMBDA f : prio[e[1]] < prio[f[1]])
         IN  {IF lower = 0 THEN Append(list, e) ELSE InsertAt(list, lower, e)}
    ELSE {InsertAt(list, i, e) : i \in 1 .. Len(list) + 1}

\* The thread is woken if it pends, be it in k_poll or elsewhere.
signal_poller(t, st) ==
  /\ \/ /\ pended_on[t] # None
        /\ WakeWith({t}, pended_on[t], IF st = "CANCELLED" THEN "-EINTR" ELSE "0")
     \/ /\ pended_on[t] = None
        /\ UNCHANGED waitVars
  /\ UNCHANGED triggerVars

\* Only the first event that a waiting item gets submits it.
Triggers(w) == mode[w] = "TRIGGERED" /\ is_polling[w] /\ workq[w]

signal_triggered_work(w) ==
  /\ \/ /\ Triggers(w)
        /\ tw_armed' = tw_armed \ {w}
        /\ poll_result' = [poll_result EXCEPT ![w] = "0"]
        /\ queued' = queued \cup {w}
     \/ /\ ~Triggers(w)
        /\ UNCHANGED triggerVars
  /\ UNCHANGED waitVars

NeverReady(e, st) == state

set_event_ready(e, st) == [state EXCEPT ![e] = @ \cup {st}]

signal_poll_event(e, st) ==
  /\ \/ e[1] \in Threads /\ signal_poller(e[1], st)
     \/ e[1] \in TWorks /\ signal_triggered_work(e[1])
  /\ is_polling' = [is_polling EXCEPT ![e[1]] = FALSE]
  /\ state' = set_event_ready(e, st)

\* The first event is taken off the list and told.
z_handle_obj_poll_events(o, st) ==
  \/ /\ poll_events[o] # <<>>
     /\ poll_events' = [poll_events EXCEPT ![o] = Tail(@)]
     /\ signal_poll_event(Head(poll_events[o]), st)
  \/ /\ poll_events[o] = <<>>
     /\ UNCHANGED <<eventVars, waitVars, triggerVars>>

\* The end of a call that has changed o.
handle_poll_events(o) ==
  /\ handling[o] # None
  /\ z_handle_obj_poll_events(o, handling[o])
  /\ handling' = [handling EXCEPT ![o] = None]
  /\ UNCHANGED <<prio, call, data, tworkVars>>

\* A call waits on o: it ends with the thread's return from z_swap.
Pend(t, o, timeout, op) ==
  /\ z_pend_curr(t, o, timeout, prio)
  /\ call' = [call EXCEPT ![t] = [op |-> op, obj |-> o]]

Returning(t, ops) == call[t].op \in ops /\ pended_on[t] = None

\* Calls that return swap_data, if z_swap returned 0.
Giving == {"qget", "pop", "alloc"}

HandedOver == {swap_data[t] : t \in Threads}

GivenReturns(t) ==
  /\ Returning(t, Giving)
  /\ swap_data' = [swap_data EXCEPT ![t] = None]
  /\ call' = [call EXCEPT ![t] = Idle]
  /\ UNCHANGED <<prio, waitVars, data, handling, eventVars, triggerVars, tworkVars>>
=============================================================================
