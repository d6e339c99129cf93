------------------------------ MODULE FifoSpec ------------------------------
(***************************************************************************)
(* What message queues promise: bounded first-in first-out channels.       *)
(* A thread that cannot go on waits, and then is served or fails.          *)
(***************************************************************************)
EXTENDS Integers, Sequences

CONSTANTS Threads, Chans, Msgs, Size
VARIABLES
  chan,      \* messages sent and not received
  buf,       \* what a thread wants to send, or has received; at first anything
  progress   \* of each thread: <<"none">>, <<"put", c>> or <<"get", c>> while it
             \* waits on channel c, <<"done">> or <<"failed">>

vars == <<chan, buf, progress>>

Init ==
  /\ chan = [c \in Chans |-> <<>>]
  /\ progress = [t \in Threads |-> <<"none">>]

Serve(t) == progress' = [progress EXCEPT ![t] = <<"done">>]

Waiting(op, c) == {t \in Threads : progress[t] = <<op, c>>}

Put(c, msg) ==
  \/ /\ Len(chan[c]) < Size /\ Waiting("get", c) = {}
     /\ chan' = [chan EXCEPT ![c] = Append(@, msg)]
     /\ UNCHANGED <<buf, progress>>
  \/ \E u \in Waiting("get", c) :
       /\ chan[c] = <<>>
       /\ buf' = [buf EXCEPT ![u] = msg]
       /\ Serve(u)
       /\ UNCHANGED chan

Get(c, t) ==
  /\ chan[c] # <<>>
  /\ buf' = [buf EXCEPT ![t] = Head(chan[c])]
  /\ \/ /\ Waiting("put", c) = {}
        /\ chan' = [chan EXCEPT ![c] = Tail(@)]
        /\ UNCHANGED progress
     \/ \E u \in Waiting("put", c) :
          /\ chan' = [chan EXCEPT ![c] = Append(Tail(@), buf[u])]
          /\ Serve(u)

\* A thread waits to send while the channel is full, to receive while it is
\* empty, and whoever waits may fail, without effect.
Wait(c, t) ==
  /\ progress[t] = <<"none">>
  /\ \/ /\ Len(chan[c]) = Size
        /\ \E msg \in Msgs : buf' = [buf EXCEPT ![t] = msg]
        /\ progress' = [progress EXCEPT ![t] = <<"put", c>>]
     \/ /\ chan[c] = <<>>
        /\ progress' = [progress EXCEPT ![t] = <<"get", c>>]
        /\ UNCHANGED buf
  /\ UNCHANGED chan

Fail(c, t) ==
  /\ t \in Waiting("put", c) \cup Waiting("get", c)
  /\ progress' = [progress EXCEPT ![t] = <<"failed">>]
  /\ UNCHANGED <<chan, buf>>

Return(t) ==
  /\ progress[t] \in {<<"done">>, <<"failed">>}
  /\ progress' = [progress EXCEPT ![t] = <<"none">>]
  /\ UNCHANGED <<chan, buf>>

\* Nobody is left waiting.
Purge(c) ==
  /\ chan' = [chan EXCEPT ![c] = <<>>]
  /\ progress' = [t \in Threads |->
       IF t \in Waiting("put", c) \cup Waiting("get", c) THEN <<"failed">> ELSE progress[t]]
  /\ UNCHANGED buf

Next ==
  \/ \E c \in Chans :
       \/ \E msg \in Msgs : Put(c, msg)
       \/ \E t \in Threads : Get(c, t) \/ Wait(c, t) \/ Fail(c, t)
       \/ Purge(c)
  \/ \E t \in Threads : Return(t)

Spec == Init /\ [][Next]_vars
=============================================================================
