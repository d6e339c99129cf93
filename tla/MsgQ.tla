-------------------------------- MODULE MsgQ --------------------------------
(***************************************************************************)
(* Message queues of the Zephyr kernel (kernel/msg_q.c): a ring buffer of  *)
(* messages, and one wait queue for the threads that wait for a message    *)
(* and those that wait for space.  Calls with K_NO_WAIT that fail have no  *)
(* effect and are left out.                                                *)
(***************************************************************************)
EXTENDS PollEvents

CONSTANTS Msgs, max_msgs

ASSUME MsgQAssumption == max_msgs \in Nat \ {0} /\ None \notin Msgs

Slots == 0 .. max_msgs - 1

VARIABLES buffer, read_ptr, write_ptr, used_msgs   \* pointers as slots

msgqVars == <<buffer, read_ptr, write_ptr, used_msgs>>

MsgQInit ==
  /\ buffer = [m \in MsgQs |-> [i \in Slots |-> None]]
  /\ read_ptr = [m \in MsgQs |-> 0]
  /\ write_ptr = [m \in MsgQs |-> 0]
  /\ used_msgs = [m \in MsgQs |-> 0]

-----------------------------------------------------------------------------
\* The pointer behind slot i: at buffer_end it goes back to buffer_start.
NextSlot(i) == IF i + 1 = max_msgs THEN 0 ELSE i + 1

WriteMsg(m, msg) ==
  /\ buffer' = [buffer EXCEPT ![m][write_ptr[m]] = msg]
  /\ write_ptr' = [write_ptr EXCEPT ![m] = NextSlot(@)]

\* k_msgq_put, by a thread or an interrupt, while there is space: the message
\* goes to the first waiting thread, or else into the buffer.
PutNow(m, msg) ==
  /\ Unlocked(m) /\ used_msgs[m] < max_msgs
  /\ \/ /\ wait_q[m] # <<>>
        /\ data' = [data EXCEPT ![Head(wait_q[m])] = msg]
        /\ WakeWith({Head(wait_q[m])}, m, "0")
        /\ UNCHANGED <<msgqVars, handling>>
     \/ /\ wait_q[m] = <<>>
        /\ WriteMsg(m, msg)
        /\ used_msgs' = [used_msgs EXCEPT ![m] = @ + 1]
        /\ handling' = [handling EXCEPT ![m] = "AVAILABLE"]
        /\ UNCHANGED <<read_ptr, waitVars, data>>
  /\ UNCHANGED <<prio, call, eventVars, triggerVars, tworkVars>>

\* ... and while there is none.
PutWait(t, m, msg, timeout) ==
  /\ Running(t) /\ Unlocked(m) /\ used_msgs[m] = max_msgs
  /\ data' = [data EXCEPT ![t] = msg]
  /\ Pend(t, m, timeout, "put")
  /\ UNCHANGED <<prio, msgqVars, handling, eventVars, triggerVars, tworkVars>>

\* The space made by a get is filled at once with the message of the first
\* thread that waits for it.
Refill(m) ==
  \/ /\ wait_q[m] # <<>>
     /\ WriteMsg(m, data[Head(wait_q[m])])
     /\ UNCHANGED used_msgs
     /\ WakeWith({Head(wait_q[m])}, m, "0")
  \/ /\ wait_q[m] = <<>>
     /\ used_msgs' = [used_msgs EXCEPT ![m] = @ - 1]
     /\ UNCHANGED <<buffer, write_ptr, waitVars>>

k_msgq_get(t, m, timeout) ==
  /\ Running(t) /\ Unlocked(m)
  /\ \/ /\ used_msgs[m] > 0
        /\ data' = [data EXCEPT ![t] = buffer[m][read_ptr[m]]]
        /\ read_ptr' = [read_ptr EXCEPT ![m] = NextSlot(@)]
        /\ Refill(m)
        /\ UNCHANGED call
     \/ /\ used_msgs[m] = 0
        /\ Pend(t, m, timeout, "get")
        /\ UNCHANGED <<msgqVars, data>>
  /\ UNCHANGED <<prio, handling, eventVars, triggerVars, tworkVars>>

\* "wake up any threads that are waiting to write", with -ENOMSG.
WaitersLeft(m) == {}

PurgedWaiters(m) == ToSet(wait_q[m])

k_msgq_purge(m) ==
  /\ Unlocked(m)
  /\ WakeWith(PurgedWaiters(m), m, "-ENOMSG")
  /\ used_msgs' = [used_msgs EXCEPT ![m] = 0]
  /\ read_ptr' = [read_ptr EXCEPT ![m] = write_ptr[m]]
  /\ UNCHANGED <<prio, buffer, write_ptr, call, data, handling, eventVars, triggerVars, tworkVars>>

MsgQReturns(t) ==
  /\ Returning(t, {"put", "get"})
  /\ call' = [call EXCEPT ![t] = Idle]
  /\ UNCHANGED <<prio, waitVars, msgqVars, data, handling, eventVars, triggerVars, tworkVars>>

\* What k_msgq_peek_at(idx) reads, if used_msgs > idx.
k_msgq_peek_at(m, idx) ==
  LET to_end == max_msgs - read_ptr[m]
  IN  buffer[m][IF to_end <= idx THEN idx - to_end ELSE read_ptr[m] + idx]

-----------------------------------------------------------------------------
\* The messages in the queue, first one first.
Contents(m) == [i \in 1 .. used_msgs[m] |-> k_msgq_peek_at(m, i - 1)]

\* Where a thread is in a call that had to wait.
Progress(t) ==
  IF call[t].op \notin {"put", "get"} THEN <<"none">>
  ELSE IF pended_on[t] = call[t].obj THEN <<call[t].op, call[t].obj>>
  ELSE IF swap_retval[t] = "0" THEN <<"done">> ELSE <<"failed">>

Fifo == INSTANCE FifoSpec WITH
  Chans <- MsgQs, Size <- max_msgs, buf <- data,
  chan <- [m \in MsgQs |-> Contents(m)], progress <- [t \in Threads |-> Progress(t)]

\* Through the ring buffer, the direct hand-over to a waiting thread, the
\* refilling by a waiting one, timeouts and purges, a queue delivers every
\* message whose put returns 0 once and in order, and none whose put fails.
ImplementsFifo == Fifo!Spec
=============================================================================
