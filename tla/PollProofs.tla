------------------------------ MODULE PollProofs ------------------------------
(***************************************************************************)
(* Proofs about Poll, for any threads, objects and work items, in every    *)
(* system of them, if no timeout callback is late, and that message queues *)
(* implement FifoSpec.                                                     *)
(***************************************************************************)
EXTENDS Poll, ListFacts, FiniteSetTheorems

-----------------------------------------------------------------------------
(* Types *)

PollCalls ==
  [op : {"poll"}, pc : {"register", "pended", "clear"}, events : Seq(Pollables),
   ii : Nat, reg : Nat, just_check : BOOLEAN, timeout : Timeout \cup {"no_wait"},
   rc : {"0", "-EAGAIN", "-ENOMSG", "-EINTR"}]

\* The calls that wait for an object, by their name.
WaitCalls ==
  [op : {"take"}, obj : Sems] \cup [op : {"put", "get"}, obj : MsgQs]
    \cup [op : {"qget"}, obj : Queues] \cup [op : {"pop"}, obj : Stacks]
    \cup [op : {"alloc"}, obj : Slabs]

EventCalls ==
  [op : {"event"}, obj : EventObjs, desired : (SUBSET Bits) \ {{}}, all : BOOLEAN]

Calls == {Idle} \cup WaitCalls \cup EventCalls \cup PollCalls

Submits ==
  [pc : {"register", "clear"}, events : Seq(Pollables), ii : Nat, reg : Nat,
   just_check : {FALSE}, timeout : Timeout \cup {"no_wait"}]

WorkCalls ==
  [pc : {"none"}, events : Seq(Pollables)] \cup Submits
    \cup [pc : {"cancel"}, events : Seq(Pollables), reg : Nat, then : Submits \cup {None}]

PollerTypes ==
  /\ state \in [Events -> SUBSET {"AVAILABLE", "CANCELLED"}]
  /\ is_polling \in [Pollers -> BOOLEAN]
  /\ handling \in [Pollables -> {None, "AVAILABLE", "CANCELLED"}]
  /\ call \in [Threads -> Calls]
  /\ mode \in [TWorks -> {"NONE", "TRIGGERED"}]
  /\ workq \in [TWorks -> BOOLEAN]
  /\ poll_result \in [TWorks -> {"0", "-EAGAIN", "-EINPROGRESS"}]
  /\ tw_armed \in SUBSET TWorks /\ tw_firing \in SUBSET TWorks /\ queued \in SUBSET TWorks
  /\ twork \in [TWorks -> WorkCalls]
  /\ handler \in [TWorks -> Nat \cup {NotRunning}]
  /\ used \in Systems

-----------------------------------------------------------------------------
(* The inductive invariants *)

\* The lists hold events of their object, each once.
ListsOK ==
  /\ poll_events \in [Pollables -> Seq(Events)]
  /\ \A o \in Pollables :
       Distinct(poll_events[o]) /\ \A e \in ToSet(poll_events[o]) : e[2] = o

\* The event of p is registered on o.
On(p, o) == <<p, o>> \in ToSet(poll_events[o])

\* What a poller sees: the states of its events, and the objects they are
\* registered on.
States(p) == [o \in Pollables |-> state[<<p, o>>]]

Listed(p) == {o \in Pollables : On(p, o)}

Ready(events, st) == \E o \in ToSet(events) : st[o] # {}

\* The objects a poller may be registered on: the first n of its array.  The
\* events registered there are not ready.
Holds(events, n, st, on) ==
  /\ n <= Len(events)
  /\ on \subseteq {events[i] : i \in 1 .. n}
  /\ \A o \in on : st[o] = {}

\* While events are registered one by one: those behind are not ready, and as
\* long as the poller was not told, the others are on their lists.
Registering(c, st, polling, on) ==
  /\ c.ii \in 1 .. Len(c.events) + 1 /\ c.reg < c.ii /\ (c.just_check => c.reg = 0)
  /\ \A i \in c.ii .. Len(c.events) : st[c.events[i]] = {}
  /\ ~polling => Ready(c.events, st)
  /\ polling /\ ~c.just_check =>
       c.reg = c.ii - 1 /\ \A i \in 1 .. c.reg : c.events[i] \in on

\* What an answer of k_poll means.
Answered(c, st, rc) ==
  \/ rc = "0" /\ Ready(c.events, st)
  \/ rc = "-EINTR" /\ \E o \in ToSet(c.events) : "CANCELLED" \in st[o]
  \/ rc = "-EAGAIN" /\ c.timeout # "forever"

\* A thread: its call, what it sees, does it pend, and what will z_swap return?
PollingThread(c, st, polling, on, pending, ret) ==
  /\ c.op # "poll" => on = {} /\ \A o \in Pollables : st[o] = {}
  /\ c.op = "poll" =>
       /\ Distinct(c.events)
       /\ Holds(c.events, c.reg, st, on)
       /\ c.just_check <=> c.timeout = "no_wait"
       /\ c.pc = "register" => Registering(c, st, polling, on)
       /\ c.pc = "pended" => ~c.just_check /\ c.reg = Len(c.events)
       /\ c.pc = "pended" /\ pending => ToSet(c.events) \subseteq on
       /\ c.pc = "pended" /\ ~pending => Answered(c, st, ret)
       /\ c.pc = "clear" => Answered(c, st, c.rc)

ThreadPolls(t) ==
  PollingThread(call[t], States(t), is_polling[t], Listed(t), pended_on[t] # None,
                swap_retval[t])

\* A work item.
Item(w) ==
  [workq |-> workq[w], mode |-> mode[w], result |-> poll_result[w],
   queued |-> w \in queued, timed |-> w \in tw_armed \cup tw_firing, handler |-> handler[w]]

\* What the handler of an item will learn.
Learns(c, st, item) ==
  item.result = "-EAGAIN" \/ (item.result = "0" /\ Ready(c.events, st))

\* An item sleeps; is on its way to its handler, or in it; or is with neither.
Sleeps(c, polling, item) ==
  c.pc = "none" /\ item.mode = "TRIGGERED" /\ polling /\ item.workq

Comes(c, st, polling, item) ==
  /\ ~polling /\ Learns(c, st, item)
  /\ item.queued <=> item.handler = NotRunning

Uncalled(item) == ~item.queued /\ item.handler = NotRunning

\* How many of its events may be registered.
Extent(c, item) ==
  IF ~item.workq THEN 0
  ELSE IF c.pc # "none" THEN c.reg
  ELSE IF item.handler # NotRunning THEN item.handler
  ELSE IF item.mode = "NONE" THEN 0 ELSE Len(c.events)

PollingWork(c, st, polling, on, item) ==
  /\ Distinct(c.events)
  /\ Holds(c.events, Extent(c, item), st, on)
  /\ item.timed => Sleeps(c, polling, item)
  /\ Sleeps(c, polling, item) => Uncalled(item) /\ ToSet(c.events) \subseteq on
  /\ ~item.workq => c.pc = "none" /\ Uncalled(item)
  /\ c.pc = "none" /\ item.workq =>
       Sleeps(c, polling, item) \/ Comes(c, st, polling, item)
  /\ c.pc # "none" => item.mode = "NONE" /\ Uncalled(item)
  /\ c.pc = "register" => Registering(c, st, polling, on)
  /\ c.pc = "clear" => ~polling /\ Learns(c, st, item)
  /\ c.pc = "cancel" /\ c.then # None =>
       c.then.pc = "register" /\ c.then.ii = 1 /\ c.then.reg = 0 /\ Distinct(c.then.events)

WorkPolls(w) == PollingWork(twork[w], States(w), is_polling[w], Listed(w), Item(w))

\* Who waits on an available object is told, or will be when its lock is released.
Tells(o) ==
  poll_events[o] # <<>> /\ is_condition_met(o) =>
    handling[o] = "AVAILABLE" \/ told[o] # {}

\* A thread that pends (on) is in the call that made it, and has not been
\* answered (ret); it is timed only then, and if it asked for it.
Pending(c, on, ret, timed) ==
  /\ on # None =>
       /\ ret = "-EAGAIN"
       /\ IF c.op = "poll" THEN c.pc = "pended" /\ on = poll_wait_q
                           ELSE c.op # "idle" /\ on = c.obj
  /\ timed => on # None /\ (c.op = "poll" => c.timeout = "ticks")

Pends(t) == Pending(call[t], pended_on[t], swap_retval[t], t \in armed \/ t = firing)

\* Wait queues and pended_on say the same.
WaitLists ==
  /\ WaitTypeOK /\ firing \notin armed
  /\ \A o \in Objects : Distinct(wait_q[o])
  /\ \A o \in Objects, t \in Threads : t \in ToSet(wait_q[o]) <=> pended_on[t] = o

WaitInv == WaitLists /\ \A t \in Threads : Pends(t)

PollInv ==
  /\ PollerTypes /\ ListsOK
  /\ tw_armed \cap tw_firing = {}
  /\ \A t \in Threads : ThreadPolls(t)
  /\ \A w \in TWorks : WorkPolls(w)

-----------------------------------------------------------------------------
(* Wait queues *)

\* What becomes of the threads when t pends on o.
Pended(t, o, timeout) ==
  /\ WaitLists' /\ firing' = None
  /\ \A u \in Threads :
       /\ pended_on'[u] = (IF u = t THEN o ELSE pended_on[u])
       /\ swap_retval'[u] = (IF u = t THEN "-EAGAIN" ELSE swap_retval[u])
       /\ u \in armed' <=> u \in armed \/ (u = t /\ timeout = "ticks")
  /\ \A a \in Objects : ToSet(wait_q'[a]) = ToSet(wait_q[a]) \cup (IF a = o THEN {t} ELSE {})
  /\ \A a \in Objects \ {o} : wait_q'[a] = wait_q[a]

LEMMA PendWaits ==
  ASSUME WaitLists, firing = None, NEW t \in Threads, NEW o \in Objects, NEW timeout,
         UNCHANGED prio, pended_on[t] = None, z_pend_curr(t, o, timeout, prio)
  PROVE  Pended(t, o, timeout)
<1> USE WaitQueueAssumption
<1> DEFINE q == wait_q[o]
           r == z_priq_dumb_add(q, t, prio)
<1>0. prio \in [Threads -> Int]
  BY DEF WaitLists, WaitTypeOK
<1>1. q \in Seq(Threads) /\ Distinct(q) /\ t \notin ToSet(q)
  BY DEF WaitLists, WaitTypeOK
<1>2. r \in Seq(Threads) /\ ToSet(r) = ToSet(q) \cup {t} /\ Distinct(r)
  <2> HIDE DEF q
  <2> QED BY <1>0, <1>1, PriqAddList
<1>3. wait_q' = [wait_q EXCEPT ![o] = r] /\ wait_q'[o] = r
  BY DEF z_pend_curr, WaitLists, WaitTypeOK
<1> HIDE DEF q, r
<1>4. WaitTypeOK'
  BY <1>2, <1>3 DEF z_pend_curr, WaitLists, WaitTypeOK
<1>5. \A a \in Objects : Distinct(wait_q'[a])
  BY <1>2, <1>3 DEF WaitLists, WaitTypeOK
<1>6. \A a \in Objects : wait_q'[a] = IF a = o THEN r ELSE wait_q[a]
  BY <1>3 DEF WaitLists, WaitTypeOK
<1>7. \A a \in Objects : ToSet(wait_q'[a]) = ToSet(wait_q[a]) \cup (IF a = o THEN {t} ELSE {})
  BY <1>2, <1>6 DEF q
<1>8. \A u \in Threads : pended_on'[u] = (IF u = t THEN o ELSE pended_on[u])
  BY DEF z_pend_curr, WaitLists, WaitTypeOK
<1>9. \A u \in Threads : swap_retval'[u] = (IF u = t THEN "-EAGAIN" ELSE swap_retval[u])
  BY DEF z_pend_curr, WaitLists, WaitTypeOK
<1>10. \A u \in Threads : u \in armed' <=> u \in armed \/ (u = t /\ timeout = "ticks")
  BY DEF z_pend_curr
<1>11. \A a \in Objects, u \in Threads : u \in ToSet(wait_q'[a]) <=> pended_on'[u] = a
  BY <1>7, <1>8 DEF WaitLists
<1>12. firing' = None
  BY DEF z_pend_curr
<1>13. firing' \notin armed'
  BY <1>4, <1>12 DEF WaitTypeOK
<1>14. WaitLists'
  BY <1>4, <1>5, <1>11, <1>13 DEF WaitLists
<1> QED BY <1>6, <1>7, <1>8, <1>9, <1>10, <1>12, <1>14 DEF Pended

\* What becomes of the threads when ts, some that pend on o, are taken off its
\* wait queue, and when they are woken.
Unpended(ts, o) ==
  /\ WaitLists' /\ firing' = None
  /\ \A u \in Threads :
       /\ pended_on'[u] = (IF u \in ts THEN None ELSE pended_on[u])
       /\ u \in armed' <=> u \in armed /\ u \notin ts
       /\ u \notin ts => swap_retval'[u] = swap_retval[u]
  /\ ToSet(wait_q'[o]) = ToSet(wait_q[o]) \ ts
  /\ \A a \in Objects \ {o} : wait_q'[a] = wait_q[a]

Returns(ts, ret) ==
  \A u \in Threads : swap_retval'[u] = (IF u \in ts THEN ret ELSE swap_retval[u])

Woken(ts, o, ret) == Unpended(ts, o) /\ Returns(ts, ret)

Rets == {"0", "-EAGAIN", "-ENOMSG", "-EINTR"}

LEMMA UnpendWaits ==
  ASSUME WaitLists, NEW o \in Objects, NEW ts \in SUBSET ToSet(wait_q[o]), NEW rs \in SUBSET ts,
         NEW ret \in Rets, UNCHANGED prio, firing = None,
         wait_q' = [wait_q EXCEPT ![o] = Remaining(@, ts)],
         pended_on' = [t \in Threads |-> IF t \in ts THEN None ELSE pended_on[t]],
         armed' = armed \ ts,
         swap_retval' = [t \in Threads |-> IF t \in rs THEN ret ELSE swap_retval[t]],
         firing' = None, UNCHANGED forever
  PROVE  Unpended(ts, o) /\ Returns(rs, ret)
<1> USE WaitQueueAssumption
<1> DEFINE q == wait_q[o]
           r == Remaining(q, ts)
<1>1. q \in Seq(Threads) /\ Distinct(q)
  BY DEF WaitLists, WaitTypeOK
<1>2. r \in Seq(Threads) /\ ToSet(r) = ToSet(q) \ ts /\ Distinct(r)
  <2> HIDE DEF q
  <2> QED BY <1>1, RemainingList
<1>3. wait_q' = [wait_q EXCEPT ![o] = r] /\ wait_q'[o] = r
  BY DEF WaitLists, WaitTypeOK
<1>4. ts \subseteq Threads
  BY <1>1, ListElements
<1> HIDE DEF q, r
<1>5. WaitTypeOK'
  BY <1>2, <1>3 DEF WaitLists, WaitTypeOK, Rets
<1>6. \A a \in Objects : wait_q'[a] = IF a = o THEN r ELSE wait_q[a]
  BY <1>3 DEF WaitLists, WaitTypeOK
<1>7. \A a \in Objects : Distinct(wait_q'[a])
  BY <1>2, <1>6 DEF WaitLists
<1>8. \A a \in Objects, u \in Threads : u \in ToSet(wait_q'[a]) <=> pended_on'[u] = a
  <2> TAKE a \in Objects, u \in Threads
  <2>1. pended_on'[u] = IF u \in ts THEN None ELSE pended_on[u]
    OBVIOUS
  <2>2. /\ u \in ToSet(wait_q[a]) <=> pended_on[u] = a
        /\ u \in ToSet(q) <=> pended_on[u] = o
    BY DEF WaitLists, q
  <2>3. ToSet(wait_q'[a]) = IF a = o THEN ToSet(q) \ ts ELSE ToSet(wait_q[a])
    <3>1. wait_q'[a] = IF a = o THEN r ELSE wait_q[a]
      BY <1>6
    <3>2. CASE a = o
      BY <3>1, <3>2, <1>2
    <3>3. CASE a # o
      BY <3>1, <3>3
    <3> QED BY <3>2, <3>3
  <2> QED BY <2>1, <2>2, <2>3 DEF q
<1>9. WaitLists'
  BY <1>5, <1>7, <1>8 DEF WaitLists
<1> QED BY <1>2, <1>3, <1>4, <1>6, <1>9 DEF Unpended, Returns, q

LEMMA WakeWaits ==
  ASSUME WaitLists, NEW o \in Objects, NEW ts \in SUBSET ToSet(wait_q[o]), NEW ret \in Rets,
         UNCHANGED prio, firing = None,
         wait_q' = [wait_q EXCEPT ![o] = Remaining(@, ts)],
         pended_on' = [t \in Threads |-> IF t \in ts THEN None ELSE pended_on[t]],
         armed' = armed \ ts,
         swap_retval' = [t \in Threads |-> IF t \in ts THEN ret ELSE swap_retval[t]],
         firing' = None, UNCHANGED forever
  PROVE  Woken(ts, o, ret)
<1>1. ts \in SUBSET ts
  OBVIOUS
<1> QED BY <1>1, UnpendWaits DEF Woken

LEMMA WakeWithWaits ==
  ASSUME WaitLists, NEW o \in Objects, NEW ts \in SUBSET ToSet(wait_q[o]), NEW ret \in Rets,
         UNCHANGED prio, firing = None, WakeWith(ts, o, ret)
  PROVE  Woken(ts, o, ret)
<1>1. ts \subseteq Threads /\ None \notin Threads
  BY ListElements, WaitQueueAssumption DEF WaitLists, WaitTypeOK
<1>2. firing \notin ts
  BY <1>1
<1>3. /\ wait_q' = [wait_q EXCEPT ![o] = Remaining(@, ts)]
      /\ pended_on' = [t \in Threads |-> IF t \in ts THEN None ELSE pended_on[t]]
      /\ armed' = armed \ ts
      /\ swap_retval' = [t \in Threads |-> IF t \in ts THEN ret ELSE swap_retval[t]]
      /\ firing' = None
      /\ UNCHANGED forever
  BY <1>2 DEF WakeWith, Unpend, SetReturn
<1> QED BY <1>3, WakeWaits

\* The first of the threads that wait.
LEMMA HeadWaits ==
  ASSUME WaitLists, NEW o \in Objects, wait_q[o] # <<>>
  PROVE  /\ Head(wait_q[o]) \in Threads /\ {Head(wait_q[o])} \in SUBSET ToSet(wait_q[o])
         /\ pended_on[Head(wait_q[o])] = o
<1>1. wait_q[o] \in Seq(Threads)
  BY DEF WaitLists, WaitTypeOK
<1>2. Head(wait_q[o]) \in Threads /\ Head(wait_q[o]) \in ToSet(wait_q[o])
  BY <1>1, TailList
<1> QED BY <1>2 DEF WaitLists

\* The callback of a timeout takes its thread out of the queue it pends in.
LEMMA TimeoutWaits ==
  ASSUME WaitInv, z_thread_timeout
  PROVE  /\ WaitLists' /\ firing \in Threads /\ firing' = None
         /\ pended_on[firing] # None
         /\ \A u \in Threads : /\ pended_on'[u] = (IF u = firing THEN None ELSE pended_on[u])
                                /\ swap_retval'[u] = swap_retval[u]
         /\ armed' = armed
         /\ \A a \in Objects : ToSet(wait_q'[a]) = ToSet(wait_q[a]) \ {firing}
         /\ \A a \in Objects \ {pended_on[firing]} : wait_q'[a] = wait_q[a]
<1> USE WaitQueueAssumption
<1> DEFINE t == firing
<1>1. t \in Threads
  BY DEF z_thread_timeout, WaitInv, WaitLists, WaitTypeOK
<1>2. pended_on[t] # None /\ pended_on[t] \in Objects
  BY <1>1 DEF WaitInv, WaitLists, WaitTypeOK, Pends, Pending
<1>3. pended_on' = [pended_on EXCEPT ![t] = None] /\ UNCHANGED <<swap_retval, armed>> /\ firing' = None
  BY <1>1, <1>2 DEF z_thread_timeout, WaitInv, WaitLists, WaitTypeOK
<1>4. \A u \in Threads : pended_on'[u] = IF u = t THEN None ELSE pended_on[u]
  BY <1>1, <1>3 DEF WaitInv, WaitLists, WaitTypeOK
<1> DEFINE b == pended_on[t]
           q == wait_q[b]
           r == RemoveFirst(q, t)
<1>5. q \in Seq(Threads) /\ Distinct(q)
  BY <1>2 DEF WaitInv, WaitLists, WaitTypeOK
<1>6. r \in Seq(Threads) /\ Distinct(r) /\ ToSet(r) = ToSet(q) \ {t}
  <2> HIDE DEF q
  <2> QED BY <1>5, RemoveList
<1>7. wait_q' = [wait_q EXCEPT ![b] = r]
  BY <1>2 DEF z_thread_timeout
<1> HIDE DEF r
<1>8. \A a \in Objects : wait_q'[a] = IF a = b THEN r ELSE wait_q[a]
  BY <1>2, <1>7 DEF WaitInv, WaitLists, WaitTypeOK
<1>9. \A a \in Objects : ToSet(wait_q'[a]) = ToSet(wait_q[a]) \ {t}
  <2> TAKE a \in Objects
  <2>1. t \in ToSet(wait_q[a]) <=> b = a
    BY <1>1 DEF WaitInv, WaitLists
  <2> QED BY <2>1, <1>6, <1>8
<1>10. WaitTypeOK'
  BY <1>2, <1>3, <1>6, <1>7, <1>1 DEF z_thread_timeout, WaitInv, WaitLists, WaitTypeOK
<1>11. \A a \in Objects : Distinct(wait_q'[a])
  BY <1>6, <1>8 DEF WaitInv, WaitLists
<1>12. \A a \in Objects, u \in Threads : u \in ToSet(wait_q'[a]) <=> pended_on'[u] = a
  BY <1>4, <1>9 DEF WaitInv, WaitLists
<1>13. firing' \notin armed'
  BY <1>3, <1>10 DEF WaitTypeOK
<1>14. WaitLists'
  BY <1>10, <1>11, <1>12, <1>13 DEF WaitLists
<1> QED BY <1>1, <1>2, <1>3, <1>4, <1>8, <1>9, <1>14

-----------------------------------------------------------------------------
(* Lists of events *)

\* add_event adds the event, wherever its loop stops.
LEMMA AddEventList ==
  ASSUME NEW list \in Seq(Events), NEW e \in Events, NEW l \in add_event(list, e)
  PROVE  /\ l \in Seq(Events) /\ ToSet(l) = ToSet(list) \cup {e} /\ l # list
         /\ Distinct(list) /\ e \notin ToSet(list) => Distinct(l)
<1> DEFINE lower == SelectInSeq(list, LAMBDA f : prio[e[1]] < prio[f[1]])
           I == {i \in 1..Len(list) : prio[e[1]] < prio[list[i][1]]}
<1>1. lower = 0 \/ lower \in 1..Len(list)
  <2>1. CASE I = {}
    BY <2>1 DEF SelectInSeq
  <2>2. CASE I # {}
    <3>1. lower = Min(I)
      BY <2>2 DEF SelectInSeq
    <3>2. I \in SUBSET Nat
      OBVIOUS
    <3>3. Min(I) \in I
      <4> HIDE DEF I
      <4> QED BY <2>2, <3>2, MinOfNats
    <3> HIDE DEF lower
    <3> QED BY <3>1, <3>3
  <2> QED BY <2>1, <2>2
<1>2. l = Append(list, e) \/ \E i \in 1..(Len(list) + 1) : l = InsertAt(list, i, e)
  <2>1. CASE \A f \in ToSet(list) \cup {e} : f[1] \in Threads
    <3>1. l = IF lower = 0 THEN Append(list, e) ELSE InsertAt(list, lower, e)
      BY <2>1 DEF add_event
    <3> HIDE DEF lower
    <3> QED BY <3>1, <1>1
  <2>2. CASE ~(\A f \in ToSet(list) \cup {e} : f[1] \in Threads)
    BY <2>2 DEF add_event
  <2> QED BY <2>1, <2>2
<1>3. CASE l = Append(list, e)
  <2>1. Len(Append(list, e)) = Len(list) + 1
    OBVIOUS
  <2> QED BY <1>3, <2>1, AppendList
<1>4. CASE \E i \in 1..(Len(list) + 1) : l = InsertAt(list, i, e)
  BY <1>4, InsertAnywhere
<1> QED BY <1>2, <1>3, <1>4

\* An event is an element of the list of its object only.
LEMMA EventPair ==
  ASSUME NEW e \in Events
  PROVE  /\ e[1] \in Pollers /\ e[2] \in Pollables /\ e = <<e[1], e[2]>>
         /\ \A x, a : e = <<x, a>> <=> e[1] = x /\ e[2] = a
BY DEF Events

\* One list is replaced by one with elements of its own object.
LEMMA ListChanged ==
  ASSUME ListsOK, NEW o \in Pollables, NEW l \in Seq(Events), Distinct(l),
         \A e \in ToSet(l) : e[2] = o,
         poll_events' = [poll_events EXCEPT ![o] = l]
  PROVE  /\ ListsOK'
         /\ \A a \in Pollables : poll_events'[a] = IF a = o THEN l ELSE poll_events[a]
<1>1. \A a \in Pollables : poll_events'[a] = IF a = o THEN l ELSE poll_events[a]
  BY DEF ListsOK
<1>2. poll_events' \in [Pollables -> Seq(Events)]
  BY DEF ListsOK
<1> QED BY <1>1, <1>2 DEF ListsOK

LEMMA RegisterLists ==
  ASSUME ListsOK, NEW p \in Pollers, NEW o \in Pollables, ~On(p, o),
         NEW l \in add_event(poll_events[o], <<p, o>>),
         poll_events' = [poll_events EXCEPT ![o] = l]
  PROVE  /\ ListsOK' /\ poll_events'[o] # poll_events[o]
         /\ \A x \in Pollers, a \in Pollables : On(x, a)' <=> On(x, a) \/ (x = p /\ a = o)
<1> DEFINE e == <<p, o>>
           list == poll_events[o]
<1>1. e \in Events /\ list \in Seq(Events) /\ Distinct(list) /\ e \notin ToSet(list)
  BY DEF Events, ListsOK, On
<1>2. /\ l \in Seq(Events) /\ ToSet(l) = ToSet(list) \cup {e} /\ l # list
      /\ Distinct(l)
  <2> HIDE DEF list, e
  <2>1. l \in add_event(list, e)
    BY DEF list, e
  <2> QED BY <1>1, <2>1, AddEventList
<1>3. \A f \in ToSet(l) : f[2] = o
  BY <1>2 DEF ListsOK
<1>4. /\ ListsOK'
      /\ \A a \in Pollables : poll_events'[a] = IF a = o THEN l ELSE poll_events[a]
  BY <1>2, <1>3, ListChanged
<1>5. ASSUME NEW x \in Pollers, NEW a \in Pollables
      PROVE  <<x, a>> \in ToSet(poll_events'[a]) <=> <<x, a>> \in ToSet(poll_events[a]) \/ (x = p /\ a = o)
  <2>1. CASE a = o
    <3>1. ToSet(poll_events'[a]) = ToSet(poll_events[a]) \cup {<<p, o>>}
      BY <2>1, <1>2, <1>4
    <3> QED BY <2>1, <3>1
  <2>2. CASE a # o
    BY <2>2, <1>4
  <2> QED BY <2>1, <2>2
<1> QED BY <1>2, <1>4, <1>5 DEF On

LEMMA ClearLists ==
  ASSUME ListsOK, NEW p \in Pollers, NEW events, NEW n,
         n = 0 \/ events[n] \in Pollables,
         poll_events' = clear_event_registration(p, events, n)
  PROVE  /\ ListsOK'
         /\ \A x \in Pollers, a \in Pollables :
              On(x, a)' <=> On(x, a) /\ ~(n # 0 /\ x = p /\ a = events[n])
         /\ \A a \in Pollables : poll_events'[a] # <<>> => poll_events[a] # <<>>
<1>1. CASE n = 0
  BY <1>1 DEF clear_event_registration, On, ListsOK
<1>2. CASE n # 0
  <2> PICK o \in Pollables : o = events[n]
    BY <1>2
  <2> DEFINE list == poll_events[o]
             l == Remaining(list, {<<p, o>>})
  <2>1. poll_events' = [poll_events EXCEPT ![o] = l]
    BY <1>2 DEF clear_event_registration
  <2>2. list \in Seq(Events) /\ Distinct(list)
    BY DEF ListsOK
  <2>3. l \in Seq(Events) /\ ToSet(l) = ToSet(list) \ {<<p, o>>} /\ Distinct(l)
    <3> HIDE DEF list
    <3> QED BY <2>2, RemainingList
  <2> HIDE DEF l
  <2>4. \A f \in ToSet(l) : f[2] = o
    BY <2>3 DEF ListsOK
  <2>5. /\ ListsOK'
        /\ \A a \in Pollables : poll_events'[a] = IF a = o THEN l ELSE poll_events[a]
    <3>1. PICK r : r = l
      OBVIOUS
    <3>2. /\ r \in Seq(Events) /\ Distinct(r) /\ \A e \in ToSet(r) : e[2] = o
          /\ poll_events' = [poll_events EXCEPT ![o] = r]
      BY ONLY <2>1, <2>3, <2>4, <3>1
    <3>3. /\ ListsOK'
          /\ \A a \in Pollables : poll_events'[a] = IF a = o THEN r ELSE poll_events[a]
      BY ONLY ListsOK, o \in Pollables, <3>2, ListChanged
    <3> QED BY ONLY <3>1, <3>3
  <2>6. ASSUME NEW x \in Pollers, NEW a \in Pollables
        PROVE  <<x, a>> \in ToSet(poll_events'[a])
                 <=> <<x, a>> \in ToSet(poll_events[a]) /\ ~(x = p /\ a = o)
    <3>1. CASE a = o
      <4>1. ToSet(poll_events'[a]) = ToSet(poll_events[a]) \ {<<p, o>>}
        BY <3>1, <2>3, <2>5
      <4> QED BY <3>1, <4>1
    <3>2. CASE a # o
      BY <3>2, <2>5
    <3> QED BY <3>1, <3>2
  <2>7. list = <<>> => l = <<>>
    BY <2>3, EmptyList
  <2>8. \A a \in Pollables : poll_events'[a] # <<>> => poll_events[a] # <<>>
    BY <2>5, <2>7
  <2>9. \A x \in Pollers, a \in Pollables :
          On(x, a)' <=> On(x, a) /\ ~(n # 0 /\ x = p /\ a = events[n])
    BY <1>2, <2>6 DEF On
  <2> QED BY <2>5, <2>8, <2>9
<1> QED BY <1>1, <1>2

LEMMA TellLists ==
  ASSUME ListsOK, NEW o \in Pollables, poll_events[o] # <<>>,
         poll_events' = [poll_events EXCEPT ![o] = Tail(@)]
  PROVE  /\ ListsOK'
         /\ Head(poll_events[o])[1] \in Pollers
         /\ Head(poll_events[o]) = <<Head(poll_events[o])[1], o>>
         /\ On(Head(poll_events[o])[1], o)
         /\ \A x \in Pollers, a \in Pollables :
              On(x, a)' <=> On(x, a) /\ ~(x = Head(poll_events[o])[1] /\ a = o)
<1> DEFINE list == poll_events[o]
           e == Head(list)
           l == Tail(list)
<1>1. list \in Seq(Events) /\ Distinct(list) /\ list # <<>>
  BY DEF ListsOK
<1>2. /\ l \in Seq(Events) /\ e \in Events /\ e \in ToSet(list)
      /\ ToSet(l) = ToSet(list) \ {e} /\ Distinct(l)
  <2> HIDE DEF list
  <2> QED BY <1>1, TailList
<1>3. e[2] = o /\ \A f \in ToSet(l) : f[2] = o
  BY <1>2 DEF ListsOK
<1>4. e[1] \in Pollers /\ e = <<e[1], o>>
  <2> HIDE DEF e
  <2> QED BY <1>2, <1>3, EventPair
<1> HIDE DEF l, e
<1>5. poll_events' = [poll_events EXCEPT ![o] = l]
  BY DEF l
<1>6. /\ ListsOK'
      /\ \A a \in Pollables : poll_events'[a] = IF a = o THEN l ELSE poll_events[a]
  <2>1. l \in Seq(Events) /\ Distinct(l) /\ \A f \in ToSet(l) : f[2] = o
    BY <1>2, <1>3
  <2> QED BY ONLY <2>1, <1>5, ListsOK, o \in Pollables, ListChanged
<1>7. ASSUME NEW x \in Pollers, NEW a \in Pollables
      PROVE  <<x, a>> \in ToSet(poll_events'[a])
               <=> <<x, a>> \in ToSet(poll_events[a]) /\ ~(x = e[1] /\ a = o)
  <2>1. CASE a = o
    <3>1. ToSet(poll_events'[a]) = ToSet(poll_events[a]) \ {e}
      BY <2>1, <1>2, <1>6
    <3>2. <<x, a>> = e <=> x = e[1] /\ a = o
      BY <1>4
    <3> QED BY <2>1, <3>1, <3>2
  <2>2. CASE a # o
    BY <2>2, <1>6
  <2> QED BY <2>1, <2>2
<1> QED BY <1>2, <1>4, <1>6, <1>7 DEF On, e

-----------------------------------------------------------------------------
(* What a poller sees *)

LEMMA PollCallIs ==
  ASSUME NEW c \in Calls, c.op = "poll"
  PROVE  c \in PollCalls
BY DEF Calls, Idle, WaitCalls, EventCalls

LEMMA WorkCallIs ==
  ASSUME NEW c \in WorkCalls
  PROVE  /\ c.events \in Seq(Pollables)
         /\ c.pc \in {"none", "register", "clear", "cancel"}
         /\ c.pc \in {"register", "clear"} => c \in Submits
         /\ c.pc # "none" => c.reg \in Nat
         /\ c.pc = "cancel" => c.then \in Submits \cup {None}
BY DEF WorkCalls, Submits

\* Events become ready, and stay so.
LEMMA ReadyGrows ==
  ASSUME NEW events \in Seq(Pollables), NEW st, NEW su,
         \A o \in Pollables : st[o] \subseteq su[o]
  PROVE  /\ Ready(events, st) => Ready(events, su)
         /\ \A o \in ToSet(events) : o \in Pollables
         /\ \A o \in ToSet(events) : su[o] # {} => Ready(events, su)
<1>1. ToSet(events) \subseteq Pollables
  BY ListElements
<1> QED BY <1>1 DEF Ready

LEMMA AnswerStays ==
  ASSUME NEW c, c.events \in Seq(Pollables), NEW st, NEW su, NEW rc,
         \A o \in Pollables : st[o] \subseteq su[o], Answered(c, st, rc)
  PROVE  Answered(c, su, rc)
<1>1. ToSet(c.events) \subseteq Pollables
  BY ListElements
<1>2. Ready(c.events, st) => Ready(c.events, su)
  BY ReadyGrows
<1> QED BY <1>1, <1>2 DEF Answered

\* An event is taken off its list.
LEMMA TakenOff ==
  ASSUME NEW events \in Seq(Pollables), NEW n \in Nat, NEW st, NEW su, NEW on, NEW o,
         Holds(events, n, st, on), \A a \in Pollables : a # o => su[a] = st[a]
  PROVE  Holds(events, n, su, on \ {o})
<1>1. \A i \in 1 .. n : n <= Len(events) => events[i] \in Pollables
  OBVIOUS
<1>2. on \subseteq Pollables
  BY <1>1 DEF Holds
<1> QED BY <1>2 DEF Holds

\* The last event is cleared.
LEMMA ClearHolds ==
  ASSUME NEW events \in Seq(Pollables), NEW n \in Nat, NEW st, NEW on, NEW on2,
         Holds(events, n, st, on),
         \A o \in on2 : o \in on /\ ~(n # 0 /\ o = events[n])
  PROVE  Holds(events, Less(n), st, on2)
<1>1. CASE n = 0
  BY <1>1 DEF Holds, Less
<1>2. CASE n # 0
  <2>1. Less(n) = n - 1 /\ n - 1 \in Nat
    BY <1>2 DEF Less
  <2>2. ASSUME NEW o \in on2
        PROVE  o \in {events[i] : i \in 1 .. n - 1}
    <3>1. PICK i \in 1 .. n : o = events[i]
      BY <2>2 DEF Holds
    <3>2. i # n
      BY <1>2, <2>2, <3>1
    <3> QED BY <3>1, <3>2
  <2> QED BY <2>1, <2>2 DEF Holds
<1> QED BY <1>1, <1>2

\* One turn of the loop of register_events: d is the call after it.
Turn(c, d, added) ==
  /\ d.events = c.events /\ d.ii = c.ii + 1 /\ d.just_check = c.just_check
  /\ d.reg = IF added THEN c.reg + 1 ELSE c.reg

LEMMA RegisterBehind ==
  ASSUME NEW c, NEW st, NEW polling, NEW on, c.events \in Seq(Pollables),
         c.reg \in Nat, c.ii \in Nat, c.ii <= Len(c.events), Distinct(c.events),
         Holds(c.events, c.reg, st, on), Registering(c, st, polling, on)
  PROVE  /\ c.events[c.ii] \in Pollables /\ c.events[c.ii] \in ToSet(c.events)
         /\ c.events[c.ii] \notin on /\ st[c.events[c.ii]] = {}
         /\ \A i \in c.ii + 1 .. Len(c.events) : c.events[i] # c.events[c.ii]
<1>1. c.ii \in 1 .. Len(c.events) /\ c.reg < c.ii
  BY DEF Registering
<1>2. \A i \in 1 .. Len(c.events) : c.events[i] = c.events[c.ii] => i = c.ii
  BY <1>1 DEF Distinct
<1>3. c.events[c.ii] \notin on
  <2> SUFFICES ASSUME c.events[c.ii] \in on PROVE FALSE
    OBVIOUS
  <2>1. PICK i \in 1 .. c.reg : c.events[c.ii] = c.events[i]
    BY DEF Holds
  <2> QED BY <1>1, <1>2, <2>1
<1>4. st[c.events[c.ii]] = {}
  <2>1. \A i \in c.ii .. Len(c.events) : st[c.events[i]] = {}
    BY DEF Registering
  <2>2. c.ii \in c.ii .. Len(c.events)
    BY <1>1
  <2> QED BY <2>1, <2>2
<1>5. c.events[c.ii] \in ToSet(c.events)
  BY <1>1, ListElements
<1> QED BY <1>1, <1>2, <1>3, <1>4, <1>5

LEMMA RegisterMet ==
  ASSUME NEW c, NEW d, NEW st, NEW su, NEW polling \in BOOLEAN, NEW on, c.events \in Seq(Pollables),
         c.reg \in Nat, c.ii \in Nat, c.just_check \in BOOLEAN, c.ii <= Len(c.events), Distinct(c.events),
         Holds(c.events, c.reg, st, on), Registering(c, st, polling, on), Turn(c, d, FALSE),
         \A a \in Pollables : a # c.events[c.ii] => su[a] = st[a], su[c.events[c.ii]] # {}
  PROVE  Registering(d, su, FALSE, on) /\ Holds(d.events, d.reg, su, on)
<1> PICK o : o = c.events[c.ii]
  OBVIOUS
<1>0. /\ c.events[c.ii] \in Pollables /\ c.events[c.ii] \in ToSet(c.events)
      /\ c.events[c.ii] \notin on /\ st[c.events[c.ii]] = {}
      /\ \A i \in c.ii + 1 .. Len(c.events) : c.events[i] # c.events[c.ii]
  BY ONLY c.events \in Seq(Pollables), c.reg \in Nat, c.ii \in Nat, c.ii <= Len(c.events),
          Distinct(c.events), Holds(c.events, c.reg, st, on), Registering(c, st, polling, on),
          RegisterBehind
<1>1. /\ o \in Pollables /\ o \in ToSet(c.events) /\ o \notin on
      /\ \A i \in c.ii + 1 .. Len(c.events) : c.events[i] # o
  BY ONLY <1>0, o = c.events[c.ii]
<1>2. \A i \in c.ii + 1 .. Len(c.events) : c.events[i] \in Pollables /\ st[c.events[i]] = {}
  <2>1. PICK ev, k, L : ev = c.events /\ k = c.ii /\ L = Len(c.events)
    OBVIOUS
  <2>2. k \in Nat /\ L \in Nat /\ \A i \in 1 .. L : ev[i] \in Pollables
    BY ONLY <2>1, c.events \in Seq(Pollables), c.ii \in Nat
  <2>3. \A i \in k .. L : st[ev[i]] = {}
    BY <2>1 DEF Registering
  <2>4. \A i \in k + 1 .. L : i \in 1 .. L /\ i \in k .. L
    BY ONLY <2>2
  <2> QED BY ONLY <2>1, <2>2, <2>3, <2>4
<1>3. Ready(c.events, su)
  BY <1>1 DEF Ready
<1>4. Registering(d, su, FALSE, on)
  <2>1. /\ d.events = c.events /\ d.ii = c.ii + 1 /\ d.reg = c.reg
        /\ d.just_check = c.just_check
    BY DEF Turn
  <2>2. d.ii \in 1 .. Len(d.events) + 1 /\ d.reg < d.ii /\ (d.just_check => d.reg = 0)
    BY <2>1 DEF Registering
  <2>3. ASSUME NEW i \in d.ii .. Len(d.events) PROVE su[d.events[i]] = {}
    <3>1. i \in c.ii + 1 .. Len(c.events)
      BY <2>1
    <3>2. c.events[i] \in Pollables /\ st[c.events[i]] = {} /\ c.events[i] # o
      BY <1>1, <1>2, <3>1
    <3>3. su[c.events[i]] = st[c.events[i]]
      BY <3>2
    <3> QED BY <2>1, <3>2, <3>3
  <2> QED BY <1>3, <2>1, <2>2, <2>3 DEF Registering
<1>5. on \ {o} = on
  BY <1>1
<1>6. Holds(c.events, c.reg, su, on)
  <2>1. PICK ev, n : ev = c.events /\ n = c.reg
    OBVIOUS
  <2>2. /\ ev \in Seq(Pollables) /\ n \in Nat /\ Holds(ev, n, st, on)
        /\ \A a \in Pollables : a # o => su[a] = st[a]
    BY <2>1
  <2>3. Holds(ev, n, su, on \ {o})
    BY ONLY <2>2, TakenOff
  <2> QED BY ONLY <1>5, <2>1, <2>3
<1> QED BY <1>4, <1>6 DEF Turn

LEMMA RegisterAdds ==
  ASSUME NEW c, NEW d, NEW st, NEW on, NEW on2, c.events \in Seq(Pollables),
         c.reg \in Nat, c.ii \in Nat, c.just_check \in BOOLEAN, c.ii <= Len(c.events), Distinct(c.events),
         Holds(c.events, c.reg, st, on), Registering(c, st, TRUE, on), Turn(c, d, TRUE),
         ~c.just_check, on2 = on \cup {c.events[c.ii]}
  PROVE  Registering(d, st, TRUE, on2) /\ Holds(d.events, d.reg, st, on2)
<1> DEFINE o == c.events[c.ii]
<1>1. c.ii \in 1 .. Len(c.events) /\ c.reg = c.ii - 1
  BY DEF Registering
<1>2. st[o] = {}
  BY RegisterBehind
<1>3. d.reg = c.ii /\ d.ii = c.ii + 1
  BY <1>1 DEF Turn
<1>4. \A i \in 1 .. c.ii : c.events[i] \in on2
  BY <1>1 DEF Registering
<1>5. \A i \in d.ii .. Len(c.events) : st[c.events[i]] = {}
  BY <1>1, <1>3 DEF Registering
<1>6. Registering(d, st, TRUE, on2)
  BY <1>1, <1>3, <1>4, <1>5 DEF Registering, Turn
<1>7. on2 \subseteq {c.events[i] : i \in 1 .. c.ii}
  BY <1>1 DEF Holds
<1>8. \A a \in on2 : st[a] = {}
  BY <1>2 DEF Holds
<1>9. Holds(c.events, c.ii, st, on2)
  BY <1>1, <1>7, <1>8 DEF Holds
<1>10. d.events = c.events
  BY DEF Turn
<1> QED BY <1>3, <1>6, <1>9, <1>10

LEMMA RegisterSkips ==
  ASSUME NEW c, NEW d, NEW st, NEW polling \in BOOLEAN, NEW on, c.events \in Seq(Pollables),
         c.reg \in Nat, c.ii \in Nat, c.just_check \in BOOLEAN, c.ii <= Len(c.events),
         Holds(c.events, c.reg, st, on), Registering(c, st, polling, on), Turn(c, d, FALSE),
         ~(polling /\ ~c.just_check)
  PROVE  Registering(d, st, polling, on) /\ Holds(d.events, d.reg, st, on)
<1>1. d.events = c.events /\ d.ii = c.ii + 1 /\ d.reg = c.reg /\ d.just_check = c.just_check
  BY DEF Turn
<1>2. d.ii \in 1 .. Len(d.events) + 1 /\ d.reg < d.ii /\ (d.just_check => d.reg = 0)
  BY <1>1 DEF Registering
<1>3. \A i \in d.ii .. Len(d.events) : st[d.events[i]] = {}
  <2>1. \A i \in c.ii .. Len(c.events) : st[c.events[i]] = {}
    BY DEF Registering
  <2> QED BY <1>1, <2>1
<1>4. ~polling => Ready(d.events, st)
  BY <1>1 DEF Registering
<1> QED BY <1>1, <1>2, <1>3, <1>4 DEF Registering

-----------------------------------------------------------------------------
(* The steps of a thread in k_poll *)

LEMMA ThreadStarts ==
  ASSUME NEW c \in PollCalls, NEW st, NEW ret, \A o \in Pollables : st[o] = {},
         c.pc = "register", c.ii = 1, c.reg = 0, Distinct(c.events),
         c.just_check <=> c.timeout = "no_wait"
  PROVE  PollingThread(c, st, TRUE, {}, FALSE, ret)
<1>0. c.events \in Seq(Pollables) /\ c.op = "poll" /\ c.just_check \in BOOLEAN
  BY DEF PollCalls
<1>1. \A i \in 1 .. Len(c.events) : st[c.events[i]] = {}
  BY <1>0
<1>2. Registering(c, st, TRUE, {})
  BY <1>0, <1>1 DEF Registering
<1>3. Holds(c.events, c.reg, st, {})
  BY <1>0 DEF Holds
<1> QED BY <1>0, <1>2, <1>3 DEF PollingThread

\* What a thread in the loop of register_events knows.
LEMMA ThreadRegisters ==
  ASSUME NEW c \in PollCalls, c.pc = "register", NEW st, NEW polling, NEW on, NEW pending,
         NEW ret, PollingThread(c, st, polling, on, pending, ret)
  PROVE  /\ Distinct(c.events) /\ Holds(c.events, c.reg, st, on)
         /\ Registering(c, st, polling, on) /\ (c.just_check <=> c.timeout = "no_wait")
BY DEF PollCalls, PollingThread

\* The thread after a turn of the loop.
LEMMA ThreadTurns ==
  ASSUME NEW c \in PollCalls, NEW d \in PollCalls, NEW added, Turn(c, d, added),
         d.pc = "register", d.timeout = c.timeout, NEW su, NEW polling, NEW on, NEW ret,
         Distinct(c.events), c.just_check <=> c.timeout = "no_wait", NEW pending,
         Registering(d, su, polling, on), Holds(d.events, d.reg, su, on)
  PROVE  PollingThread(d, su, polling, on, pending, ret)
<1>1. d.events = c.events /\ d.just_check = c.just_check
  BY DEF Turn
<1> QED BY <1>1 DEF PollingThread, PollCalls

\* The loop is over.
LEMMA ThreadSleeps ==
  ASSUME NEW c \in PollCalls, NEW d \in PollCalls, c.pc = "register", d.pc = "pended",
         d.events = c.events, d.reg = c.reg, d.just_check = c.just_check,
         d.timeout = c.timeout, ~c.just_check, c.ii > Len(c.events),
         NEW st, NEW on, NEW pending, NEW ret, NEW rt,
         PollingThread(c, st, TRUE, on, pending, ret)
  PROVE  PollingThread(d, st, FALSE, on, TRUE, rt)
<1>0. c.events \in Seq(Pollables) /\ c.ii \in Nat /\ c.reg \in Nat /\ d.op = "poll"
  BY DEF PollCalls
<1>1. /\ Distinct(c.events) /\ Holds(c.events, c.reg, st, on)
      /\ Registering(c, st, TRUE, on) /\ (c.just_check <=> c.timeout = "no_wait")
  BY ThreadRegisters
<1>2. c.reg = Len(c.events) /\ \A i \in 1 .. Len(c.events) : c.events[i] \in on
  BY <1>0, <1>1 DEF Registering
<1>3. ToSet(c.events) = {c.events[i] : i \in 1 .. Len(c.events)}
  BY <1>0, ListElements
<1>4. ToSet(c.events) \subseteq on
  BY <1>2, <1>3
<1> QED BY <1>0, <1>1, <1>2, <1>4 DEF PollingThread

\* Events are cleared, one by one, and the answer stays.
LEMMA ThreadClears ==
  ASSUME NEW c \in PollCalls, NEW d \in PollCalls, d.pc = "clear", d.events = c.events,
         d.just_check = c.just_check, d.timeout = c.timeout,
         NEW st, NEW on, NEW on2, NEW polling, NEW polling2, NEW pending, NEW pending2,
         NEW ret, NEW rt, PollingThread(c, st, polling, on, pending, ret),
         Answered(c, st, d.rc), Holds(d.events, d.reg, st, on2)
  PROVE  PollingThread(d, st, polling2, on2, pending2, rt)
<1>0. d.op = "poll" /\ c.op = "poll"
  BY DEF PollCalls
<1>1. Distinct(c.events) /\ (c.just_check <=> c.timeout = "no_wait")
  BY <1>0 DEF PollingThread
<1>2. Answered(d, st, d.rc)
  BY DEF Answered
<1> QED BY <1>0, <1>1, <1>2 DEF PollingThread

\* The event on o becomes ready.
MadeReady(st, su, o, x) ==
  \A a \in Pollables : su[a] = IF a = o THEN st[a] \cup {x} ELSE st[a]

ToldBy(pending, x, ret, rt) ==
  rt = IF pending THEN IF x = "CANCELLED" THEN "-EINTR" ELSE "0" ELSE ret

TellsThread(c, st, su, polling, on, pending, ret, rt, o, x) ==
  /\ c \in Calls /\ polling \in BOOLEAN /\ pending \in BOOLEAN
  /\ o \in on /\ o \in Pollables /\ x \in {"AVAILABLE", "CANCELLED"}
  /\ PollingThread(c, st, polling, on, pending, ret)
  /\ MadeReady(st, su, o, x)
  /\ ToldBy(pending, x, ret, rt)

ToldThread(c, su, on, o, rt) ==
  c.op = "poll" /\ PollingThread(c, su, FALSE, on \ {o}, FALSE, rt)

\* The first event of a list is told: that of a thread in k_poll.
LEMMA ThreadTold ==
  ASSUME NEW c, NEW st, NEW su, NEW polling, NEW on, NEW pending, NEW ret, NEW rt, NEW o, NEW x,
         TellsThread(c, st, su, polling, on, pending, ret, rt, o, x)
  PROVE  ToldThread(c, su, on, o, rt)
<1> SUFFICES c.op = "poll" /\ PollingThread(c, su, FALSE, on \ {o}, FALSE, rt)
  BY DEF ToldThread
<1> c \in Calls /\ polling \in BOOLEAN /\ pending \in BOOLEAN
    /\ o \in on /\ o \in Pollables /\ x \in {"AVAILABLE", "CANCELLED"}
    /\ PollingThread(c, st, polling, on, pending, ret)
    /\ MadeReady(st, su, o, x)
    /\ ToldBy(pending, x, ret, rt)
  BY DEF TellsThread
<1>0. \A a \in Pollables : su[a] = IF a = o THEN st[a] \cup {x} ELSE st[a]
  BY DEF MadeReady
<1>1. c.op = "poll"
  BY DEF PollingThread
<1>2. /\ c \in PollCalls /\ c.events \in Seq(Pollables) /\ c.reg \in Nat /\ c.ii \in Nat
      /\ c.just_check \in BOOLEAN
  BY <1>1, PollCallIs DEF PollCalls
<1>3. /\ Distinct(c.events) /\ Holds(c.events, c.reg, st, on)
      /\ (c.just_check <=> c.timeout = "no_wait")
  BY <1>1 DEF PollingThread
<1>4. Holds(c.events, c.reg, su, on \ {o})
  BY <1>0, <1>2, <1>3, TakenOff
<1>5. PICK k \in 1 .. c.reg : o = c.events[k]
  BY <1>3 DEF Holds
<1>6. k \in 1 .. Len(c.events)
  BY <1>2, <1>3, <1>5 DEF Holds
<1>7. o \in ToSet(c.events)
  BY <1>2, <1>5, <1>6, ListElements
<1>8. (\A a \in Pollables : st[a] \subseteq su[a]) /\ x \in su[o]
  BY <1>0
<1>9. Ready(c.events, su)
  BY <1>7, <1>8 DEF Ready
<1>10. ASSUME c.pc = "register" PROVE Registering(c, su, FALSE, on \ {o})
  <2>1. Registering(c, st, polling, on)
    BY <1>1, <1>10 DEF PollingThread
  <2>2. c.ii \in 1 .. Len(c.events) + 1 /\ c.reg < c.ii /\ (c.just_check => c.reg = 0)
    BY <2>1 DEF Registering
  <2>3. ASSUME NEW i \in c.ii .. Len(c.events) PROVE su[c.events[i]] = {}
    <3>1. i \in 1 .. Len(c.events) /\ i # k
      BY <1>5, <2>2, <1>2
    <3>2. c.events[i] # o /\ c.events[i] \in Pollables
      BY <3>1, <1>2, <1>3, <1>5, <1>6 DEF Distinct
    <3>3. st[c.events[i]] = {}
      BY <2>1 DEF Registering
    <3> QED BY <1>0, <3>2, <3>3
  <2> QED BY <1>9, <2>2, <2>3 DEF Registering
<1>11. ASSUME c.pc = "pended" PROVE Answered(c, su, rt)
  <2>1. CASE pending
    <3>1. CASE x = "CANCELLED"
      BY <2>1, <3>1, <1>7, <1>8 DEF Answered, ToldBy
    <3>2. CASE x # "CANCELLED"
      BY <2>1, <3>2, <1>9 DEF Answered, ToldBy
    <3> QED BY <3>1, <3>2
  <2>2. CASE ~pending
    <3>1. Answered(c, st, ret)
      BY <1>1, <1>11, <2>2 DEF PollingThread
    <3>2. rt = ret
      BY <2>2 DEF ToldBy
    <3> QED BY <3>1, <3>2, <1>2, <1>8, AnswerStays
  <2> QED BY <2>1, <2>2
<1>12. ASSUME c.pc = "clear" PROVE Answered(c, su, c.rc)
  <2>1. Answered(c, st, c.rc)
    BY <1>1, <1>12 DEF PollingThread
  <2> QED BY <2>1, <1>2, <1>8, AnswerStays
<1>13. c.pc = "pended" => ~c.just_check /\ c.reg = Len(c.events)
  BY <1>1 DEF PollingThread
<1> QED BY <1>1, <1>3, <1>4, <1>10, <1>11, <1>12, <1>13 DEF PollingThread

\* The timeout of a thread wakes it.
LEMMA ThreadExpires ==
  ASSUME NEW c, NEW st, NEW polling, NEW on, PollingThread(c, st, polling, on, TRUE, "-EAGAIN"),
         c.op = "poll" => c.timeout = "ticks"
  PROVE  PollingThread(c, st, polling, on, FALSE, "-EAGAIN")
<1>1. c.op = "poll" => Answered(c, st, "-EAGAIN")
  BY DEF Answered
<1> QED BY <1>1 DEF PollingThread

-----------------------------------------------------------------------------
(* The steps of a triggered work item *)

WorkItems ==
  [workq : BOOLEAN, mode : {"NONE", "TRIGGERED"}, result : {"0", "-EAGAIN", "-EINPROGRESS"},
   queued : BOOLEAN, timed : BOOLEAN, handler : Nat \cup {NotRunning}]

\* Nothing of an item that belongs to nobody is registered.
LEMMA WorkFree ==
  ASSUME NEW c \in WorkCalls, NEW st, NEW polling, NEW on, NEW i \in WorkItems,
         PollingWork(c, st, polling, on, i),
         ~i.workq \/ (c.pc = "cancel" /\ c.reg = 0)
  PROVE  on = {} /\ Uncalled(i) /\ ~i.timed
<1>1. Extent(c, i) = 0
  BY DEF Extent
<1>2. Holds(c.events, 0, st, on)
  BY <1>1 DEF PollingWork
<1>3. on = {}
  BY <1>2 DEF Holds
<1> QED BY <1>3 DEF PollingWork, Sleeps

LEMMA WorkTaken ==
  ASSUME NEW d \in Submits, d.pc = "register", d.ii = 1, d.reg = 0, Distinct(d.events),
         NEW st, \A o \in Pollables : st[o] = {}, NEW j \in WorkItems,
         j.workq, j.mode = "NONE", ~j.timed, Uncalled(j)
  PROVE  PollingWork(d, st, TRUE, {}, j)
<1>0. d.events \in Seq(Pollables) /\ ~d.just_check
  BY DEF Submits
<1>1. \A i \in 1 .. Len(d.events) : st[d.events[i]] = {}
  BY <1>0
<1>2. Registering(d, st, TRUE, {})
  BY <1>0, <1>1 DEF Registering
<1>3. Extent(d, j) = 0 /\ Holds(d.events, 0, st, {})
  BY <1>0 DEF Holds, Extent
<1> QED BY <1>2, <1>3 DEF PollingWork, Sleeps

\* A sleeping item is cancelled.
LEMMA WorkCancelled ==
  ASSUME NEW c \in WorkCalls, NEW d \in WorkCalls, NEW st, NEW on, NEW on2,
         NEW i \in WorkItems, NEW j \in WorkItems,
         PollingWork(c, st, TRUE, on, i), c.pc = "none", i.workq, i.mode # "NONE",
         d.pc = "cancel", d.events = c.events, d.reg = Less(Len(c.events)),
         d.then # None => /\ d.then.pc = "register" /\ d.then.ii = 1 /\ d.then.reg = 0
                          /\ Distinct(d.then.events),
         j.workq, j.mode = "NONE", ~j.timed, j.queued = i.queued, j.handler = i.handler,
         \A o \in on2 : o \in on /\ ~(Len(c.events) # 0 /\ o = c.events[Len(c.events)])
  PROVE  PollingWork(d, st, TRUE, on2, j)
<1>0. c.events \in Seq(Pollables) /\ Len(c.events) \in Nat
  BY WorkCallIs
<1>1. Sleeps(c, TRUE, i)
  BY DEF Sleeps, WorkItems
<1>2. Uncalled(i) /\ Distinct(c.events) /\ Holds(c.events, Extent(c, i), st, on)
  BY <1>1 DEF PollingWork
<1>3. Extent(c, i) = Len(c.events)
  BY <1>2 DEF Extent, Uncalled
<1>4. Holds(c.events, Less(Len(c.events)), st, on2)
  BY <1>0, <1>2, <1>3, ClearHolds
<1>5. Extent(d, j) = Less(Len(c.events))
  BY DEF Extent
<1>6. Uncalled(j)
  BY <1>2 DEF Uncalled
<1> QED BY <1>2, <1>4, <1>5, <1>6 DEF PollingWork, Sleeps

\* The events of an item are cleared one by one, by a cancelling or a submitting call.
LEMMA WorkClears ==
  ASSUME NEW c \in WorkCalls, NEW d \in WorkCalls, NEW st, NEW polling, NEW on, NEW on2,
         NEW i \in WorkItems, PollingWork(c, st, polling, on, i),
         c.pc \in {"cancel", "clear"}, d.pc = c.pc, d.events = c.events, d.reg = Less(c.reg),
         c.pc = "cancel" => d.then = c.then,
         \A o \in on2 : o \in on /\ ~(c.reg # 0 /\ o = c.events[c.reg])
  PROVE  PollingWork(d, st, polling, on2, i)
<1>0. c.events \in Seq(Pollables) /\ c.reg \in Nat
  BY WorkCallIs
<1>1. i.workq
  BY DEF PollingWork, WorkItems
<1>2. Extent(c, i) = c.reg /\ Extent(d, i) = Less(c.reg)
  BY <1>1 DEF Extent
<1>3. Holds(c.events, c.reg, st, on)
  BY <1>2 DEF PollingWork
<1>4. Holds(c.events, Less(c.reg), st, on2)
  BY <1>0, <1>3, ClearHolds
<1>5. Learns(c, st, i) => Learns(d, st, i)
  BY DEF Learns
<1>6. ~Sleeps(c, polling, i) /\ ~Sleeps(d, polling, i)
  BY DEF Sleeps
<1>7. /\ Distinct(c.events) /\ i.mode = "NONE" /\ Uncalled(i) /\ ~i.timed
      /\ c.pc = "clear" => ~polling /\ Learns(c, st, i)
      /\ c.pc = "cancel" /\ c.then # None =>
           c.then.pc = "register" /\ c.then.ii = 1 /\ c.then.reg = 0 /\ Distinct(c.then.events)
  BY <1>6 DEF PollingWork
<1> QED BY <1>1, <1>2, <1>4, <1>5, <1>6, <1>7 DEF PollingWork

\* An item that was cancelled is its owner's again.
LEMMA WorkReleased ==
  ASSUME NEW d \in WorkCalls, d.pc = "none", Distinct(d.events), NEW st, NEW polling,
         NEW j \in WorkItems, ~j.workq, ~j.timed, Uncalled(j)
  PROVE  PollingWork(d, st, polling, {}, j)
<1>0. d.events \in Seq(Pollables)
  BY WorkCallIs
<1>1. Extent(d, j) = 0 /\ Holds(d.events, 0, st, {})
  BY <1>0 DEF Extent, Holds
<1> QED BY <1>1 DEF PollingWork, Sleeps

\* What an item in the loop of register_events knows.
LEMMA WorkRegisters ==
  ASSUME NEW c \in WorkCalls, c.pc = "register", NEW st, NEW polling, NEW on,
         NEW i \in WorkItems, PollingWork(c, st, polling, on, i)
  PROVE  /\ Distinct(c.events) /\ Holds(c.events, c.reg, st, on)
         /\ Registering(c, st, polling, on)
         /\ i.workq /\ i.mode = "NONE" /\ Uncalled(i) /\ ~i.timed
<1>1. i.workq
  BY DEF PollingWork, WorkItems
<1>2. Extent(c, i) = c.reg
  BY <1>1 DEF Extent
<1> QED BY <1>1, <1>2 DEF PollingWork, Sleeps

LEMMA WorkTurns ==
  ASSUME NEW c \in WorkCalls, NEW d \in WorkCalls, NEW added, Turn(c, d, added),
         d.pc = "register", NEW su, NEW polling, NEW on, NEW i \in WorkItems,
         Distinct(c.events), i.workq, i.mode = "NONE", Uncalled(i), ~i.timed,
         Registering(d, su, polling, on), Holds(d.events, d.reg, su, on)
  PROVE  PollingWork(d, su, polling, on, i)
<1>1. d.events = c.events
  BY DEF Turn
<1>2. Extent(d, i) = d.reg
  BY DEF Extent
<1> QED BY <1>1, <1>2 DEF PollingWork, Sleeps

\* The loop is over, and nothing was ready.
LEMMA WorkWatches ==
  ASSUME NEW c \in WorkCalls, NEW d \in WorkCalls, c.pc = "register", c.ii > Len(c.events),
         d.pc = "none", d.events = c.events, NEW st, NEW on,
         NEW i \in WorkItems, NEW j \in WorkItems, PollingWork(c, st, TRUE, on, i),
         j.workq = i.workq, j.mode = "TRIGGERED", j.queued = i.queued, j.handler = i.handler
  PROVE  PollingWork(d, st, TRUE, on, j)
<1>0. /\ c.events \in Seq(Pollables) /\ c.ii \in Nat /\ c.reg \in Nat /\ c.just_check = FALSE
  BY WorkCallIs DEF Submits
<1>1. /\ Distinct(c.events) /\ Holds(c.events, c.reg, st, on) /\ Registering(c, st, TRUE, on)
      /\ i.workq /\ Uncalled(i)
  BY WorkRegisters
<1>2. c.reg = Len(c.events) /\ \A k \in 1 .. Len(c.events) : c.events[k] \in on
  BY <1>0, <1>1 DEF Registering
<1>3. ToSet(c.events) = {c.events[k] : k \in 1 .. Len(c.events)}
  BY <1>0, ListElements
<1>4. ToSet(d.events) \subseteq on
  BY <1>2, <1>3
<1>5. Uncalled(j) /\ Sleeps(d, TRUE, j)
  BY <1>1 DEF Uncalled, Sleeps
<1>6. Extent(d, j) = Len(d.events)
  BY <1>1, <1>5 DEF Extent, Uncalled
<1> QED BY <1>1, <1>2, <1>4, <1>5, <1>6 DEF PollingWork

\* The loop is over, and the item is submitted at once.
LEMMA WorkDecides ==
  ASSUME NEW c \in WorkCalls, NEW d \in WorkCalls, c.pc = "register", d.pc = "clear",
         d.events = c.events, d.reg = Less(c.reg), NEW st, NEW on, NEW on2,
         NEW polling \in BOOLEAN, NEW i \in WorkItems, NEW j \in WorkItems,
         PollingWork(c, st, polling, on, i), j.workq = i.workq, j.mode = i.mode,
         j.queued = i.queued, j.handler = i.handler, j.timed = i.timed,
         j.result = (IF polling THEN "-EAGAIN" ELSE "0"),
         \A o \in on2 : o \in on /\ ~(c.reg # 0 /\ o = c.events[c.reg])
  PROVE  PollingWork(d, st, FALSE, on2, j)
<1>0. c.events \in Seq(Pollables) /\ c.reg \in Nat
  BY WorkCallIs
<1>1. /\ Distinct(c.events) /\ Holds(c.events, c.reg, st, on)
      /\ Registering(c, st, polling, on)
      /\ i.workq /\ i.mode = "NONE" /\ Uncalled(i) /\ ~i.timed
  BY WorkRegisters
<1>2. Learns(d, st, j)
  BY <1>1 DEF Learns, Registering
<1>3. Extent(d, j) = Less(c.reg) /\ Uncalled(j) /\ ~j.timed /\ ~Sleeps(d, FALSE, j)
  BY <1>1 DEF Extent, Uncalled, Sleeps
<1>4. Holds(c.events, Less(c.reg), st, on2)
  BY <1>0, <1>1, ClearHolds
<1> QED BY <1>1, <1>2, <1>3, <1>4 DEF PollingWork

\* Its events are cleared, and the item is submitted.
LEMMA WorkSubmitted ==
  ASSUME NEW c \in WorkCalls, NEW d \in WorkCalls, c.pc = "clear", c.reg = 0,
         d.pc = "none", d.events = c.events, NEW st, NEW on, NEW polling,
         NEW i \in WorkItems, NEW j \in WorkItems, PollingWork(c, st, polling, on, i),
         j.workq = i.workq, j.mode = i.mode, j.handler = i.handler, j.timed = i.timed,
         j.result = i.result, j.queued
  PROVE  PollingWork(d, st, polling, on, j)
<1>1. i.workq
  BY DEF PollingWork, WorkItems
<1>2. Extent(c, i) = 0
  BY <1>1 DEF Extent
<1>3. /\ Distinct(c.events) /\ i.mode = "NONE" /\ Uncalled(i) /\ ~i.timed
      /\ ~polling /\ Learns(c, st, i) /\ Holds(c.events, 0, st, on)
  BY <1>2 DEF PollingWork, Sleeps
<1>4. Extent(d, j) = 0 /\ ~Sleeps(d, polling, j)
  BY <1>1, <1>3 DEF Extent, Sleeps, Uncalled
<1>5. Comes(d, st, polling, j)
  BY <1>3 DEF Comes, Learns, Uncalled
<1> QED BY <1>1, <1>3, <1>4, <1>5 DEF PollingWork

\* The handler starts, and clears what is registered.
LEMMA WorkHandled ==
  ASSUME NEW c \in WorkCalls, NEW st, NEW on, NEW on2, NEW polling, NEW n \in Nat,
         NEW i \in WorkItems, NEW j \in WorkItems, PollingWork(c, st, polling, on, i),
         \/ /\ i.queued /\ i.handler = NotRunning
            /\ n = IF i.mode = "NONE" THEN 0 ELSE Len(c.events)
         \/ i.handler # NotRunning /\ n = i.handler,
         j.workq = i.workq, j.mode = i.mode, j.timed = i.timed, j.result = i.result,
         ~j.queued, j.handler = Less(n),
         \A o \in on2 : o \in on /\ ~(n # 0 /\ o = c.events[n])
  PROVE  c.pc = "none" /\ PollingWork(c, st, polling, on2, j)
<1>0. c.events \in Seq(Pollables)
  BY WorkCallIs
<1>1. ~Uncalled(i)
  BY DEF Uncalled
<1>2. /\ Distinct(c.events) /\ c.pc = "none" /\ i.workq /\ ~Sleeps(c, polling, i)
      /\ Comes(c, st, polling, i) /\ ~i.timed
  BY <1>1 DEF PollingWork, WorkItems
<1>3. Extent(c, i) = n
  BY <1>2 DEF Extent
<1>4. Holds(c.events, n, st, on)
  BY <1>3 DEF PollingWork
<1>5. Holds(c.events, Less(n), st, on2)
  BY <1>0, <1>4, ClearHolds
<1>6. j.handler # NotRunning
  BY DEF Less, NotRunning
<1>7. Extent(c, j) = Less(n) /\ ~Sleeps(c, polling, j)
  BY <1>2, <1>6 DEF Extent, Sleeps
<1>8. Comes(c, st, polling, j)
  BY <1>2, <1>6 DEF Comes, Learns
<1> QED BY <1>2, <1>5, <1>7, <1>8 DEF PollingWork

\* The handler is done with the events.
LEMMA WorkDone ==
  ASSUME NEW c \in WorkCalls, NEW st, NEW on, NEW polling,
         NEW i \in WorkItems, NEW j \in WorkItems, PollingWork(c, st, polling, on, i),
         i.handler = 0, ~j.workq, j.timed = i.timed, j.queued = i.queued,
         j.handler = NotRunning
  PROVE  PollingWork(c, st, polling, on, j)
<1>1. ~Uncalled(i)
  BY DEF Uncalled, NotRunning
<1>2. /\ Distinct(c.events) /\ c.pc = "none" /\ i.workq /\ ~Sleeps(c, polling, i)
      /\ Comes(c, st, polling, i) /\ ~i.timed
  BY <1>1 DEF PollingWork, WorkItems
<1>3. Extent(c, i) = 0 /\ Extent(c, j) = 0
  BY <1>2 DEF Extent, NotRunning
<1>4. Holds(c.events, 0, st, on)
  BY <1>3 DEF PollingWork
<1>5. Uncalled(j)
  BY <1>2 DEF Uncalled, Comes, WorkItems, NotRunning
<1> QED BY <1>2, <1>3, <1>4, <1>5 DEF PollingWork, Sleeps

\* The first event of a list is told: that of a work item.
LEMMA WorkTold ==
  ASSUME NEW c \in WorkCalls, NEW st, NEW su, NEW on, NEW polling \in BOOLEAN,
         NEW i \in WorkItems, NEW j \in WorkItems, PollingWork(c, st, polling, on, i),
         NEW o \in on \cap Pollables, NEW x,
         MadeReady(st, su, o, x),
         j.workq = i.workq, j.mode = i.mode, j.handler = i.handler,
         Sleeps(c, polling, i) => j.queued /\ j.result = "0" /\ ~j.timed,
         ~Sleeps(c, polling, i) =>
           j.queued = i.queued /\ j.result = i.result /\ j.timed = i.timed
  PROVE  PollingWork(c, su, FALSE, on \ {o}, j)
<1>0. c.events \in Seq(Pollables)
  BY WorkCallIs
<1>a. \A a \in Pollables : su[a] = IF a = o THEN st[a] \cup {x} ELSE st[a]
  BY DEF MadeReady
<1>1. Extent(c, i) \in Nat /\ Extent(c, j) = Extent(c, i)
  BY <1>0, WorkCallIs DEF Extent, WorkItems, NotRunning
<1>2. Distinct(c.events) /\ Holds(c.events, Extent(c, i), st, on)
  BY DEF PollingWork
<1>3. Holds(c.events, Extent(c, j), su, on \ {o})
  BY <1>a, <1>0, <1>1, <1>2, TakenOff
<1>4. PICK k \in 1 .. Extent(c, i) : o = c.events[k]
  BY <1>2 DEF Holds
<1>5. k \in 1 .. Len(c.events)
  BY <1>0, <1>1, <1>2, <1>4 DEF Holds
<1>6. o \in ToSet(c.events)
  BY <1>0, <1>4, <1>5, ListElements
<1>7. (\A a \in Pollables : st[a] \subseteq su[a]) /\ x \in su[o]
  BY <1>a
<1>8. Ready(c.events, su)
  BY <1>6, <1>7 DEF Ready
<1>9. i.workq
  BY <1>2 DEF Holds, Extent, WorkItems
<1>10. ~Sleeps(c, FALSE, j)
  BY DEF Sleeps
<1>11. Learns(c, st, i) => Learns(c, su, i)
  BY <1>8 DEF Learns
<1>12. CASE Sleeps(c, polling, i)
  <2>1. Uncalled(i) /\ c.pc = "none"
    BY <1>12 DEF PollingWork, Sleeps
  <2>2. Comes(c, su, FALSE, j)
    BY <1>8, <1>12, <2>1 DEF Comes, Learns, Uncalled
  <2> QED BY <1>2, <1>3, <1>9, <1>10, <1>12, <2>1, <2>2 DEF PollingWork
<1>13. CASE ~Sleeps(c, polling, i)
  <2>1. j.queued = i.queued /\ j.result = i.result /\ j.timed = i.timed /\ ~i.timed
    BY <1>13 DEF PollingWork, WorkItems
  <2>2. c.pc = "none" => Comes(c, su, FALSE, j)
    BY <1>9, <1>11, <1>13, <2>1 DEF PollingWork, Comes, Learns
  <2>3. c.pc # "none" => j.mode = "NONE" /\ Uncalled(j)
    BY <2>1 DEF PollingWork, Uncalled
  <2>4. c.pc = "clear" => Learns(c, su, j)
    BY <1>8, <2>1 DEF PollingWork, Learns
  <2>5. ASSUME c.pc = "register" PROVE Registering(c, su, FALSE, on \ {o})
    <3>0. c.ii \in Nat /\ c.reg \in Nat /\ Extent(c, i) = c.reg
      BY <1>9, <2>5, WorkCallIs DEF Submits, Extent
    <3>1. Registering(c, st, polling, on)
      BY <2>5 DEF PollingWork
    <3>2. c.ii \in 1 .. Len(c.events) + 1 /\ c.reg < c.ii /\ (c.just_check => c.reg = 0)
      BY <3>1 DEF Registering
    <3>3. ASSUME NEW h \in c.ii .. Len(c.events) PROVE su[c.events[h]] = {}
      <4>1. h \in 1 .. Len(c.events) /\ h # k
        BY <1>4, <3>2, <3>0
      <4>2. c.events[h] # o /\ c.events[h] \in Pollables
        BY <4>1, <1>0, <1>2, <1>4, <1>5 DEF Distinct
      <4>3. st[c.events[h]] = {}
        BY <3>1 DEF Registering
      <4> QED BY <1>a, <4>2, <4>3
    <3> QED BY <1>8, <3>2, <3>3 DEF Registering
  <2>6. c.pc = "cancel" /\ c.then # None =>
          c.then.pc = "register" /\ c.then.ii = 1 /\ c.then.reg = 0 /\ Distinct(c.then.events)
    BY DEF PollingWork
  <2> QED BY <1>2, <1>3, <1>9, <1>10, <2>1, <2>2, <2>3, <2>4, <2>5, <2>6 DEF PollingWork
<1> QED BY <1>12, <1>13

\* The timeout of an item submits it.
LEMMA WorkExpires ==
  ASSUME NEW c \in WorkCalls, NEW st, NEW on, NEW polling, NEW i \in WorkItems,
         NEW j \in WorkItems, PollingWork(c, st, polling, on, i), i.timed,
         j.workq = i.workq, j.mode = i.mode, j.handler = i.handler, ~j.timed,
         j.result = "-EAGAIN", j.queued
  PROVE  i.workq /\ PollingWork(c, st, FALSE, on, j)
<1>1. /\ Sleeps(c, polling, i) /\ Uncalled(i) /\ Distinct(c.events)
      /\ Holds(c.events, Extent(c, i), st, on)
  BY DEF PollingWork
<1>2. Extent(c, j) = Extent(c, i) /\ ~Sleeps(c, FALSE, j)
  BY DEF Extent, Sleeps
<1>3. Comes(c, st, FALSE, j)
  BY <1>1 DEF Comes, Learns, Uncalled
<1>4. c.pc = "none" /\ i.workq
  BY <1>1 DEF Sleeps
<1> QED BY <1>1, <1>2, <1>3, <1>4 DEF PollingWork

-----------------------------------------------------------------------------
(* Steps and pollers *)

LEMMA KindsDiffer ==
  /\ Threads \cap TWorks = {} /\ Pollers = Threads \cup TWorks
  /\ Pollables = Sems \cup MsgQs \cup Queues \cup Signals
  /\ poll_wait_q \in Objects /\ None \notin Objects /\ None \notin Threads
  /\ poll_wait_q \notin Pollables \cup Stacks \cup Slabs \cup EventObjs
BY WaitQueueAssumption, PollEventsAssumption, PollAssumption DEF Pollers, Pollables, Plain

\* A step that a poller does not notice.
Unnoticed(p) ==
  /\ States(p)' = States(p) /\ Listed(p)' = Listed(p) /\ is_polling'[p] = is_polling[p]
  /\ p \in Threads => /\ call'[p] = call[p] /\ pended_on'[p] = pended_on[p]
                      /\ swap_retval'[p] = swap_retval[p]
  /\ p \in TWorks => twork'[p] = twork[p] /\ Item(p)' = Item(p)

LEMMA OnePoller ==
  ASSUME PollInv, NEW p, PollerTypes', ListsOK', (tw_armed \cap tw_firing = {})',
         \A x \in Pollers \ {p} : Unnoticed(x),
         p \in Threads => ThreadPolls(p)', p \in TWorks => WorkPolls(p)'
  PROVE  PollInv'
<1>1. ASSUME NEW t \in Threads PROVE ThreadPolls(t)'
  <2>1. CASE t = p
    BY <2>1
  <2>2. CASE t # p
    <3>1. Unnoticed(t)
      BY <2>2, KindsDiffer
    <3>2. PollingThread(call[t], States(t), is_polling[t], Listed(t), pended_on[t] # None,
                        swap_retval[t])
      BY DEF PollInv, ThreadPolls
    <3>3. PollingThread(call'[t], States(t)', is_polling'[t], Listed(t)', pended_on'[t] # None,
                        swap_retval'[t])
      BY <3>1, <3>2 DEF Unnoticed
    <3> QED BY <3>3 DEF ThreadPolls
  <2> QED BY <2>1, <2>2
<1>2. ASSUME NEW w \in TWorks PROVE WorkPolls(w)'
  <2>1. CASE w = p
    BY <2>1
  <2>2. CASE w # p
    <3>1. Unnoticed(w)
      BY <2>2, KindsDiffer
    <3>2. PollingWork(twork[w], States(w), is_polling[w], Listed(w), Item(w))
      BY DEF PollInv, WorkPolls
    <3>3. PollingWork(twork'[w], States(w)', is_polling'[w], Listed(w)', Item(w)')
      BY <3>1, <3>2 DEF Unnoticed
    <3> QED BY <3>3 DEF WorkPolls
  <2> QED BY <2>1, <2>2
<1> QED BY <1>1, <1>2 DEF PollInv

\* A step of the objects alone: threads may wait and be woken, but not in k_poll.
Aside(t) ==
  \/ /\ call'[t] = call[t] /\ pended_on'[t] = pended_on[t]
     /\ swap_retval'[t] = swap_retval[t]
  \/ call[t].op # "poll" /\ call'[t].op # "poll"

pollerVars == <<eventVars, triggerVars, tworkVars, twork, handler, used>>

LEMMA SameSeen ==
  ASSUME UNCHANGED pollerVars
  PROVE  \A p \in Pollers : /\ States(p)' = States(p) /\ Listed(p)' = Listed(p)
                            /\ is_polling'[p] = is_polling[p]
                            /\ p \in TWorks => twork'[p] = twork[p] /\ Item(p)' = Item(p)
BY DEF pollerVars, eventVars, triggerVars, tworkVars, States, Listed, On, Item

LEMMA ObjectStep ==
  ASSUME PollInv, UNCHANGED pollerVars, call' \in [Threads -> Calls],
         handling' \in [Pollables -> {None, "AVAILABLE", "CANCELLED"}],
         \A t \in Threads : Aside(t)
  PROVE  PollInv'
<1>1. PollerTypes'
  BY DEF PollInv, PollerTypes, pollerVars, eventVars, triggerVars, tworkVars
<1>2. ListsOK' /\ (tw_armed \cap tw_firing = {})'
  BY DEF PollInv, ListsOK, pollerVars, eventVars, triggerVars, tworkVars
<1>3. ASSUME NEW t \in Threads PROVE ThreadPolls(t)'
  <2>0. States(t)' = States(t) /\ Listed(t)' = Listed(t) /\ is_polling'[t] = is_polling[t]
    BY SameSeen, KindsDiffer
  <2>1. PollingThread(call[t], States(t), is_polling[t], Listed(t), pended_on[t] # None,
                      swap_retval[t])
    BY DEF PollInv, ThreadPolls
  <2>2. PollingThread(call'[t], States(t)', is_polling'[t], Listed(t)', pended_on'[t] # None,
                      swap_retval'[t])
    <3>1. CASE call[t].op # "poll" /\ call'[t].op # "poll"
      BY <2>0, <2>1, <3>1 DEF PollingThread
    <3>2. CASE /\ call'[t] = call[t] /\ pended_on'[t] = pended_on[t]
               /\ swap_retval'[t] = swap_retval[t]
      BY <2>0, <2>1, <3>2
    <3> QED BY <3>1, <3>2 DEF Aside
  <2> QED BY <2>2 DEF ThreadPolls
<1>4. ASSUME NEW w \in TWorks PROVE WorkPolls(w)'
  <2>1. /\ States(w)' = States(w) /\ Listed(w)' = Listed(w) /\ is_polling'[w] = is_polling[w]
        /\ twork'[w] = twork[w] /\ Item(w)' = Item(w)
    BY SameSeen, KindsDiffer
  <2>2. PollingWork(twork[w], States(w), is_polling[w], Listed(w), Item(w))
    BY DEF PollInv, WorkPolls
  <2>3. PollingWork(twork'[w], States(w)', is_polling'[w], Listed(w)', Item(w)')
    BY <2>1, <2>2
  <2> QED BY <2>3 DEF WorkPolls
<1> QED BY <1>1, <1>2, <1>3, <1>4 DEF PollInv

\* The list of one object lost the event of p.
LEMMA ListedWithout ==
  ASSUME NEW p \in Pollers, NEW o, NEW gone \in BOOLEAN,
         \A x \in Pollers, a \in Pollables : On(x, a)' <=> On(x, a) /\ ~(gone /\ x = p /\ a = o)
  PROVE  /\ Listed(p)' = (IF gone THEN Listed(p) \ {o} ELSE Listed(p))
         /\ \A x \in Pollers \ {p} : Listed(x)' = Listed(x)
BY DEF Listed

\* The event of p on o becomes ready.
LEMMA StatesAfter ==
  ASSUME PollerTypes, NEW p \in Pollers, NEW o \in Pollables,
         NEW x \in {"AVAILABLE", "CANCELLED"}, state' = set_event_ready(<<p, o>>, x)
  PROVE  /\ state' \in [Events -> SUBSET {"AVAILABLE", "CANCELLED"}]
         /\ MadeReady(States(p), States(p)', o, x)
         /\ \A y \in Pollers \ {p} : States(y)' = States(y)
<1>1. state' = [state EXCEPT ![<<p, o>>] = state[<<p, o>>] \cup {x}] /\ <<p, o>> \in Events
  BY DEF set_event_ready, Events
<1>2. state' \in [Events -> SUBSET {"AVAILABLE", "CANCELLED"}]
  BY <1>1 DEF PollerTypes
<1>3. \A y \in Pollers, a \in Pollables :
        state'[<<y, a>>] = IF y = p /\ a = o THEN state[<<y, a>>] \cup {x} ELSE state[<<y, a>>]
  <2> TAKE y \in Pollers, a \in Pollables
  <2>1. <<y, a>> \in Events /\ (<<y, a>> = <<p, o>> <=> y = p /\ a = o)
    BY DEF Events
  <2> QED BY <1>1, <2>1 DEF PollerTypes
<1>4. \A a \in Pollables : States(p)'[a] = state'[<<p, a>>] /\ States(p)[a] = state[<<p, a>>]
  BY DEF States
<1>5. MadeReady(States(p), States(p)', o, x)
  BY <1>3, <1>4 DEF MadeReady
<1> QED BY <1>2, <1>3, <1>5 DEF States

LEMMA ItemTypes ==
  ASSUME PollerTypes, NEW w \in TWorks
  PROVE  Item(w) \in WorkItems
BY DEF PollerTypes, Item, WorkItems

\* Nothing happens to the threads that wait.
LEMMA SameWaits ==
  ASSUME WaitInv, UNCHANGED <<prio, waitVars>>, UNCHANGED call
  PROVE  WaitInv'
<1>1. WaitLists'
  BY DEF WaitInv, WaitLists, WaitTypeOK, waitVars
<1>2. ASSUME NEW t \in Threads PROVE Pends(t)'
  <2>1. Pending(call[t], pended_on[t], swap_retval[t], t \in armed \/ t = firing)
    BY DEF WaitInv, Pends
  <2> QED BY <2>1 DEF Pends, waitVars
<1> QED BY <1>1, <1>2 DEF WaitInv

\* Threads are woken; the calls are the same.
LEMMA WakeKeeps ==
  ASSUME WaitInv, firing = None, NEW ts, NEW o, Unpended(ts, o), UNCHANGED call
  PROVE  WaitInv'
<1>1. WaitLists' /\ firing' = None
  BY DEF Unpended
<1>2. ASSUME NEW t \in Threads PROVE Pends(t)'
  <2>0. t # firing /\ t # firing'
    BY <1>1, KindsDiffer
  <2>1. Pending(call[t], pended_on[t], swap_retval[t], t \in armed \/ t = firing)
    BY DEF WaitInv, Pends
  <2>2. /\ pended_on'[t] = (IF t \in ts THEN None ELSE pended_on[t])
        /\ t \notin ts => swap_retval'[t] = swap_retval[t]
        /\ t \in armed' <=> t \in armed /\ t \notin ts
    BY DEF Unpended
  <2>3. Pending(call[t], pended_on'[t], swap_retval'[t], t \in armed' \/ t = firing')
    <3>1. CASE t \in ts
      BY <2>0, <2>2, <3>1 DEF Pending
    <3>2. CASE t \notin ts
      BY <2>0, <2>1, <2>2, <3>2 DEF Pending
    <3> QED BY <3>1, <3>2
  <2>4. call'[t] = call[t]
    OBVIOUS
  <2> QED BY <2>3, <2>4 DEF Pends
<1> QED BY <1>1, <1>2 DEF WaitInv

\* What a poller is told wakes a thread in k_poll, or none.
OnlyPollers ==
  /\ \A t \in Threads : \/ pended_on'[t] = pended_on[t] /\ swap_retval'[t] = swap_retval[t]
                        \/ call[t].op = "poll"
  /\ \A a \in Objects \ {poll_wait_q} : wait_q'[a] = wait_q[a]

LEMMA TellThread ==
  ASSUME WaitInv, PollInv, firing = None, NEW t \in Threads, NEW o \in Pollables,
         o \in Listed(t), NEW x \in {"AVAILABLE", "CANCELLED"}, UNCHANGED <<prio, call>>,
         signal_poller(t, x), NEW su,
         MadeReady(States(t), su, o, x)
  PROVE  /\ WaitInv' /\ OnlyPollers /\ UNCHANGED triggerVars
         /\ \A u \in Threads \ {t} : /\ pended_on'[u] = pended_on[u]
                                     /\ swap_retval'[u] = swap_retval[u]
         /\ PollingThread(call[t], su, FALSE, Listed(t) \ {o}, pended_on'[t] # None,
                          swap_retval'[t])
<1> DEFINE ret == IF x = "CANCELLED" THEN "-EINTR" ELSE "0"
<1>1. /\ call[t] \in Calls /\ is_polling[t] \in BOOLEAN
      /\ PollingThread(call[t], States(t), is_polling[t], Listed(t), pended_on[t] # None,
                       swap_retval[t])
  BY KindsDiffer DEF PollInv, PollerTypes, ThreadPolls
<1>2. call[t].op = "poll"
  BY <1>1 DEF PollingThread
<1>5. ASSUME NEW rt, ToldBy(pended_on[t] # None, x, swap_retval[t], rt)
      PROVE  PollingThread(call[t], su, FALSE, Listed(t) \ {o}, FALSE, rt)
  <2>1. PICK pending \in BOOLEAN : pending = (pended_on[t] # None)
    OBVIOUS
  <2>2. PICK c \in Calls : c = call[t]
    BY <1>1
  <2>3. PICK st : st = States(t)
    OBVIOUS
  <2>4. PICK on : on = Listed(t)
    OBVIOUS
  <2>5. PICK polling \in BOOLEAN : polling = is_polling[t]
    BY <1>1
  <2>6. PICK ret0 : ret0 = swap_retval[t]
    OBVIOUS
  <2>7. PollingThread(c, st, polling, on, pending, ret0) /\ ToldBy(pending, x, ret0, rt)
    BY <1>1, <1>5, <2>1, <2>2, <2>3, <2>4, <2>5, <2>6
  <2>8. o \in on \cap Pollables /\ MadeReady(st, su, o, x)
    BY <2>3, <2>4
  <2>9. TellsThread(c, st, su, polling, on, pending, ret0, rt, o, x)
    BY <2>7, <2>8 DEF TellsThread
  <2>10. ToldThread(c, su, on, o, rt)
    BY <2>9, ThreadTold
  <2>11. PollingThread(c, su, FALSE, on \ {o}, FALSE, rt)
    BY <2>10 DEF ToldThread
  <2> QED BY <2>2, <2>4, <2>11
<1>3. CASE pended_on[t] # None
  <2>1. pended_on[t] = poll_wait_q
    BY <1>2, <1>3 DEF WaitInv, Pends, Pending
  <2>2. WakeWith({t}, poll_wait_q, ret) /\ UNCHANGED triggerVars
    BY <1>3, <2>1 DEF signal_poller
  <2>3. {t} \in SUBSET ToSet(wait_q[poll_wait_q]) /\ WaitLists
    BY <2>1, KindsDiffer DEF WaitInv, WaitLists
  <2>4. ret \in Rets
    BY DEF Rets
  <2>5. Woken({t}, poll_wait_q, ret)
    <3> HIDE DEF ret
    <3> QED BY <2>2, <2>3, <2>4, WakeWithWaits, KindsDiffer
  <2>6. WaitInv'
    BY <2>5, WakeKeeps DEF Woken
  <2>7. /\ pended_on'[t] = None /\ swap_retval'[t] = ret
        /\ \A u \in Threads \ {t} : /\ pended_on'[u] = pended_on[u]
                                    /\ swap_retval'[u] = swap_retval[u]
    BY <2>5 DEF Woken, Unpended, Returns
  <2>8. OnlyPollers
    BY <1>2, <2>5, <2>7 DEF OnlyPollers, Woken, Unpended, Returns
  <2>9. PollingThread(call[t], su, FALSE, Listed(t) \ {o}, FALSE, ret)
    <3>1. ToldBy(pended_on[t] # None, x, swap_retval[t], ret)
      BY <1>3 DEF ToldBy
    <3> HIDE DEF ret
    <3> QED BY <1>5, <3>1
  <2> QED BY <2>2, <2>6, <2>7, <2>8, <2>9
<1>4. CASE pended_on[t] = None
  <2>1. UNCHANGED waitVars /\ UNCHANGED triggerVars
    BY <1>4 DEF signal_poller
  <2>2. WaitInv'
    BY <2>1, SameWaits
  <2>3. \A u \in Threads : pended_on'[u] = pended_on[u] /\ swap_retval'[u] = swap_retval[u]
    BY <2>1 DEF waitVars
  <2>4. OnlyPollers
    BY <2>1, <2>3 DEF OnlyPollers, waitVars
  <2>5. PollingThread(call[t], su, FALSE, Listed(t) \ {o}, FALSE, swap_retval[t])
    <3>1. ToldBy(pended_on[t] # None, x, swap_retval[t], swap_retval[t])
      BY <1>4 DEF ToldBy
    <3> QED BY <1>5, <3>1
  <2> QED BY <1>4, <2>1, <2>2, <2>3, <2>4, <2>5
<1> QED BY <1>3, <1>4

LEMMA TellWork ==
  ASSUME PollInv, tw_firing = {}, NEW w \in TWorks, NEW o \in Pollables,
         o \in Listed(w), NEW x, UNCHANGED <<tworkVars, twork, handler>>,
         signal_triggered_work(w), NEW su,
         MadeReady(States(w), su, o, x)
  PROVE  /\ UNCHANGED waitVars
         /\ poll_result' \in [TWorks -> {"0", "-EAGAIN", "-EINPROGRESS"}]
         /\ tw_armed' \subseteq tw_armed /\ queued' \subseteq TWorks
         /\ \A v \in TWorks \ {w} : Item(v)' = Item(v)
         /\ PollingWork(twork[w], su, FALSE, Listed(w) \ {o}, Item(w)')
<1> DEFINE i == Item(w)
           j == Item(w)'
<1>0. PollerTypes /\ w \in Pollers
  BY KindsDiffer DEF PollInv
<1>1. /\ twork[w] \in WorkCalls /\ is_polling[w] \in BOOLEAN
      /\ PollingWork(twork[w], States(w), is_polling[w], Listed(w), i)
  BY <1>0 DEF PollInv, PollerTypes, WorkPolls
<1>2. /\ poll_result' \in [TWorks -> {"0", "-EAGAIN", "-EINPROGRESS"}]
      /\ tw_armed' \subseteq tw_armed /\ queued' \in SUBSET TWorks /\ UNCHANGED waitVars
      /\ \A v \in TWorks : /\ Triggers(w) /\ v = w => /\ poll_result'[v] = "0" /\ v \in queued'
                                                     /\ v \notin tw_armed'
                           /\ ~(Triggers(w) /\ v = w) =>
                                /\ poll_result'[v] = poll_result[v]
                                /\ v \in queued' <=> v \in queued
                                /\ v \in tw_armed' <=> v \in tw_armed
  <2>1. CASE Triggers(w)
    <3>1. /\ tw_armed' = tw_armed \ {w} /\ queued' = queued \cup {w} /\ UNCHANGED waitVars
          /\ poll_result' = [poll_result EXCEPT ![w] = "0"]
      BY <2>1 DEF signal_triggered_work
    <3> QED BY <1>0, <2>1, <3>1 DEF PollerTypes
  <2>2. CASE ~Triggers(w)
    <3>1. UNCHANGED <<poll_result, tw_armed, queued>> /\ UNCHANGED waitVars
      BY <2>2 DEF signal_triggered_work, triggerVars
    <3> QED BY <1>0, <2>2, <3>1 DEF PollerTypes
  <2> QED BY <2>1, <2>2
<1>3. /\ workq' = workq /\ mode' = mode /\ handler' = handler /\ tw_firing' = tw_firing
      /\ twork' = twork
  BY DEF tworkVars
<1>4. \A v \in TWorks \ {w} : Item(v)' = Item(v)
  BY <1>2, <1>3 DEF Item
<1>5. i \in WorkItems
  BY <1>0, ItemTypes
<1>6. j \in WorkItems
  BY <1>0, <1>2, <1>3 DEF WorkItems, Item, PollerTypes
<1>7. /\ j.workq = i.workq /\ j.mode = i.mode /\ j.handler = i.handler
      /\ j.queued <=> w \in queued' 
      /\ j.result = poll_result'[w] /\ (j.timed <=> w \in tw_armed')
      /\ i.queued <=> w \in queued
      /\ i.result = poll_result[w] /\ (i.timed <=> w \in tw_armed)
      /\ i.workq = workq[w] /\ i.mode = mode[w]
  BY <1>3 DEF Item
<1>8. twork[w].pc = "none" => (Triggers(w) <=> Sleeps(twork[w], is_polling[w], i))
  BY <1>7 DEF Triggers, Sleeps
<1>9. twork[w].pc # "none" => ~Triggers(w)
  BY <1>1, <1>7 DEF Triggers, PollingWork
<1>10. Triggers(w) <=> Sleeps(twork[w], is_polling[w], i)
  BY <1>8, <1>9 DEF Sleeps
<1>11. Sleeps(twork[w], is_polling[w], i) => j.queued /\ j.result = "0" /\ ~j.timed
  BY <1>2, <1>7, <1>10
<1>12. ~Sleeps(twork[w], is_polling[w], i) =>
         (j.queued <=> i.queued) /\ j.result = i.result /\ (j.timed <=> i.timed)
  BY <1>2, <1>7, <1>10
<1>13. j.queued \in BOOLEAN /\ i.queued \in BOOLEAN /\ j.timed \in BOOLEAN /\ i.timed \in BOOLEAN
  BY <1>5, <1>6 DEF WorkItems
<1> HIDE DEF i, j
<1>14. PollingWork(twork[w], su, FALSE, Listed(w) \ {o}, j)
  <2>1. o \in Listed(w) \cap Pollables /\ MadeReady(States(w), su, o, x)
    OBVIOUS
  <2>2. ~Sleeps(twork[w], is_polling[w], i) =>
          j.queued = i.queued /\ j.result = i.result /\ j.timed = i.timed
    BY <1>12, <1>13
  <2>3. j.workq = i.workq /\ j.mode = i.mode /\ j.handler = i.handler
    BY <1>7
  <2> QED BY ONLY <1>1, <1>5, <1>6, <2>1, <1>11, <2>2, <2>3, WorkTold
<1> QED BY <1>2, <1>4, <1>14 DEF j

\* The first event on o is told that x.
Telling(o, x) ==
  /\ WaitInv' /\ PollInv' /\ OnlyPollers
  /\ poll_events'[o] # <<>> => \E p \in Pollers : x \in state'[<<p, o>>] \ state[<<p, o>>]
  /\ \A a \in Pollables \ {o} : poll_events'[a] = poll_events[a]

LEMMA TellsNobody ==
  ASSUME WaitInv, PollInv, firing = None, NEW o \in Pollables, NEW x, poll_events[o] = <<>>,
         z_handle_obj_poll_events(o, x), UNCHANGED <<prio, call, tworkVars, twork, handler, used>>,
         handling' \in [Pollables -> {None, "AVAILABLE", "CANCELLED"}]
  PROVE  Telling(o, x)
<1>1. UNCHANGED <<eventVars, waitVars, triggerVars>>
  BY DEF z_handle_obj_poll_events
<1>2. WaitInv'
  BY <1>1, SameWaits
<1>3. UNCHANGED pollerVars
  BY <1>1 DEF pollerVars
<1>4. call' \in [Threads -> Calls] /\ \A t \in Threads : Aside(t)
  BY <1>1 DEF PollInv, PollerTypes, Aside, waitVars
<1>5. PollInv'
  BY <1>3, <1>4, ObjectStep
<1>6. OnlyPollers /\ poll_events' = poll_events
  BY <1>1 DEF OnlyPollers, waitVars, eventVars
<1> QED BY <1>2, <1>5, <1>6 DEF Telling

LEMMA TellsFirst ==
  ASSUME WaitInv, PollInv, firing = None, tw_firing = {}, NEW o \in Pollables,
         NEW x \in {"AVAILABLE", "CANCELLED"}, poll_events[o] # <<>>,
         z_handle_obj_poll_events(o, x), UNCHANGED <<prio, call, tworkVars, twork, handler, used>>,
         handling' \in [Pollables -> {None, "AVAILABLE", "CANCELLED"}]
  PROVE  Telling(o, x)
<1>0. ListsOK /\ PollerTypes /\ tw_armed \cap tw_firing = {}
  BY DEF PollInv
<1>1. /\ poll_events' = [poll_events EXCEPT ![o] = Tail(@)]
      /\ signal_poll_event(Head(poll_events[o]), x)
  BY DEF z_handle_obj_poll_events
<1>11. PICK p : p = Head(poll_events[o])[1]
  OBVIOUS
<1>2. /\ ListsOK' /\ p \in Pollers /\ Head(poll_events[o]) = <<p, o>> /\ On(p, o)
      /\ \A y \in Pollers, a \in Pollables : On(y, a)' <=> On(y, a) /\ ~(y = p /\ a = o)
  BY <1>0, <1>1, <1>11, TellLists
<1>3. /\ \/ p \in Threads /\ signal_poller(p, x)
         \/ p \in TWorks /\ signal_triggered_work(p)
      /\ is_polling' = [is_polling EXCEPT ![p] = FALSE]
      /\ state' = set_event_ready(<<p, o>>, x)
  BY <1>1, <1>2, <1>11 DEF signal_poll_event
<1>4. /\ state' \in [Events -> SUBSET {"AVAILABLE", "CANCELLED"}]
      /\ MadeReady(States(p), States(p)', o, x)
      /\ \A y \in Pollers \ {p} : States(y)' = States(y)
  BY <1>0, <1>2, <1>3, StatesAfter
<1>5. /\ Listed(p)' = Listed(p) \ {o}
      /\ \A y \in Pollers \ {p} : Listed(y)' = Listed(y)
  BY <1>2 DEF Listed
<1>6. o \in Listed(p)
  BY <1>2 DEF Listed
<1>7. /\ is_polling' \in [Pollers -> BOOLEAN] /\ is_polling'[p] = FALSE
      /\ \A y \in Pollers \ {p} : is_polling'[y] = is_polling[y]
  BY <1>0, <1>2, <1>3 DEF PollerTypes
<1>8. /\ poll_events'[o] # <<>> => \E y \in Pollers : x \in state'[<<y, o>>] \ state[<<y, o>>]
      /\ \A a \in Pollables \ {o} : poll_events'[a] = poll_events[a]
  <2>1. state[<<p, o>>] = {}
    <3>1. CASE p \in Threads
      <4>1. ThreadPolls(p)
        BY <3>1 DEF PollInv
      <4>2. States(p)[o] = {}
        BY <1>6, <4>1 DEF ThreadPolls, PollingThread, Holds
      <4> QED BY <4>2 DEF States
    <3>2. CASE p \in TWorks
      <4>1. WorkPolls(p)
        BY <3>2 DEF PollInv
      <4>2. States(p)[o] = {}
        BY <1>6, <4>1 DEF WorkPolls, PollingWork, Holds
      <4> QED BY <4>2 DEF States
    <3> QED BY <1>2, <3>1, <3>2 DEF Pollers
  <2>2. x \in States(p)'[o]
    BY <1>4 DEF MadeReady
  <2>3. x \in state'[<<p, o>>]
    BY <2>2 DEF States
  <2>4. \A a \in Pollables \ {o} : poll_events'[a] = poll_events[a]
    BY <1>0, <1>1 DEF ListsOK
  <2> QED BY <1>2, <2>1, <2>3, <2>4
<1>9. CASE p \in Threads
  <2>1. p \notin TWorks /\ signal_poller(p, x)
    BY <1>3, <1>9, KindsDiffer
  <2>2. PICK su : su = States(p)'
    OBVIOUS
  <2>3. /\ WaitInv' /\ OnlyPollers /\ UNCHANGED triggerVars
        /\ \A u \in Threads \ {p} : /\ pended_on'[u] = pended_on[u]
                                    /\ swap_retval'[u] = swap_retval[u]
        /\ PollingThread(call[p], su, FALSE, Listed(p) \ {o}, pended_on'[p] # None,
                         swap_retval'[p])
    BY <1>4, <1>6, <1>9, <2>1, <2>2, TellThread
  <2>4. ThreadPolls(p)'
    BY <1>5, <1>7, <2>2, <2>3 DEF ThreadPolls
  <2>5. PollerTypes'
    BY <1>0, <1>4, <1>7, <2>3 DEF PollerTypes, tworkVars, triggerVars
  <2>6. \A y \in Pollers \ {p} : Unnoticed(y)
    BY <1>4, <1>5, <1>7, <2>3 DEF Unnoticed, Item, tworkVars, triggerVars
  <2>7. (tw_armed \cap tw_firing = {})'
    BY <1>0, <2>3 DEF tworkVars, triggerVars
  <2>8. PollInv'
    BY <1>2, <2>1, <2>4, <2>5, <2>6, <2>7, OnePoller
  <2> QED BY <1>8, <2>3, <2>8 DEF Telling
<1>10. CASE p \in TWorks
  <2>1. p \notin Threads /\ signal_triggered_work(p)
    BY <1>3, <1>10, KindsDiffer
  <2>2. PICK su : su = States(p)'
    OBVIOUS
  <2>3. /\ UNCHANGED waitVars
        /\ poll_result' \in [TWorks -> {"0", "-EAGAIN", "-EINPROGRESS"}]
        /\ tw_armed' \subseteq tw_armed /\ queued' \subseteq TWorks
        /\ \A v \in TWorks \ {p} : Item(v)' = Item(v)
        /\ PollingWork(twork[p], su, FALSE, Listed(p) \ {o}, Item(p)')
    BY <1>4, <1>6, <1>10, <2>1, <2>2, TellWork
  <2>4. WorkPolls(p)'
    BY <1>5, <1>7, <2>2, <2>3 DEF WorkPolls
  <2>5. PollerTypes'
    BY <1>0, <1>4, <1>7, <2>3 DEF PollerTypes, tworkVars
  <2>6. \A y \in Pollers \ {p} : Unnoticed(y)
    BY <1>4, <1>5, <1>7, <2>3 DEF Unnoticed, waitVars
  <2>7. (tw_armed \cap tw_firing = {})'
    BY <1>0, <2>3 DEF tworkVars
  <2>8. PollInv'
    BY <1>2, <2>1, <2>4, <2>5, <2>6, <2>7, OnePoller
  <2>9. WaitInv'
    BY <2>3, SameWaits
  <2>10. OnlyPollers
    BY <2>3 DEF OnlyPollers, waitVars
  <2> QED BY <1>8, <2>8, <2>9, <2>10 DEF Telling
<1> QED BY <1>2, <1>9, <1>10 DEF Pollers

LEMMA TellKeeps ==
  ASSUME WaitInv, PollInv, firing = None, tw_firing = {}, NEW o \in Pollables,
         NEW x \in {"AVAILABLE", "CANCELLED"},
         z_handle_obj_poll_events(o, x), UNCHANGED <<prio, call, tworkVars, twork, handler, used>>,
         handling' \in [Pollables -> {None, "AVAILABLE", "CANCELLED"}]
  PROVE  Telling(o, x)
BY TellsNobody, TellsFirst

-----------------------------------------------------------------------------
(* The actions of pollers *)

LEMMA ArraysAre ==
  ASSUME PollerTypes, NEW events \in Arrays
  PROVE  events \in Seq(Pollables) /\ Distinct(events)
<1>1. IsFiniteSet(used)
  BY PollAssumption DEF PollerTypes
<1>2. PICK A \in (SUBSET (used \cap Pollables)) \ {{}} : events \in SetToSeqs(A)
  BY DEF Arrays
<1>3. IsFiniteSet(A)
  BY <1>1, <1>2, FS_Subset
<1>4. PICK n \in Nat : n = Cardinality(A)
  BY <1>3, FS_CardinalityType
<1>5. events \in [1 .. n -> A] /\ \A i, j \in 1 .. n : i # j => events[i] # events[j]
  BY <1>2, <1>4 DEF SetToSeqs
<1>6. events \in Seq(Pollables) /\ Len(events) = n
  BY <1>2, <1>5
<1> QED BY <1>5, <1>6 DEF Distinct

\* A step of pollers leaves the threads that wait for objects alone, and no event
\* is registered on an object that is available.
PollersStep ==
  /\ WaitInv' /\ PollInv'
  /\ \A t \in Threads :
       \/ /\ call'[t] = call[t] /\ pended_on'[t] = pended_on[t]
          /\ swap_retval'[t] = swap_retval[t]
       \/ call[t].op \in {"idle", "poll"} /\ call'[t].op \in {"idle", "poll"}
  /\ \A a \in Objects \ {poll_wait_q} : wait_q'[a] = wait_q[a]
  /\ \A o \in Pollables :
       poll_events'[o] # <<>> => poll_events[o] # <<>> \/ ~is_condition_met(o)

\* What another thread sees of a thread's step.
OneThread(t) ==
  \A u \in Threads \ {t} : call'[u] = call[u] /\ pended_on'[u] = pended_on[u]
                            /\ swap_retval'[u] = swap_retval[u]

\* A step of one thread, or of one work item, is noticed by nobody else.
LEMMA ThreadOnly ==
  ASSUME PollInv, NEW t \in Threads, OneThread(t), ListsOK',
         UNCHANGED <<triggerVars, tworkVars, twork, handler, used>>,
         call' \in [Threads -> Calls], handling' = handling,
         is_polling' \in [Pollers -> BOOLEAN],
         state' \in [Events -> SUBSET {"AVAILABLE", "CANCELLED"}],
         \A y \in Pollers \ {t} : /\ States(y)' = States(y) /\ Listed(y)' = Listed(y)
                                  /\ is_polling'[y] = is_polling[y],
         ThreadPolls(t)'
  PROVE  PollInv'
<1>1. PollerTypes'
  BY DEF PollInv, PollerTypes, triggerVars, tworkVars
<1>2. (tw_armed \cap tw_firing = {})'
  BY DEF PollInv, triggerVars, tworkVars
<1>3. \A x \in Pollers \ {t} : Unnoticed(x)
  BY DEF Unnoticed, OneThread, Item, triggerVars, tworkVars
<1>4. t \notin TWorks
  BY KindsDiffer
<1> QED BY <1>1, <1>2, <1>3, <1>4, OnePoller

\* A thread whose wait is unchanged is where it was.
LEMMA ThreadMoves ==
  ASSUME WaitInv, NEW t \in Threads, UNCHANGED <<prio, waitVars>>, pended_on[t] = None,
         \A u \in Threads \ {t} : call'[u] = call[u]
  PROVE  WaitInv' /\ ~(t \in armed \/ t = firing)
<1>1. UNCHANGED <<prio, wait_q, pended_on, armed, firing, swap_retval, forever>>
  BY DEF waitVars
<1>2. WaitLists'
  BY <1>1 DEF WaitInv, WaitLists, WaitTypeOK
<1>3. Pends(t) /\ ~(t \in armed \/ t = firing)
  BY DEF WaitInv, Pends, Pending
<1>4. Pends(t)'
  BY <1>1, <1>3 DEF Pends, Pending
<1>5. \A u \in Threads \ {t} : Pends(u)'
  BY <1>1 DEF WaitInv, Pends
<1> QED BY <1>2, <1>3, <1>4, <1>5 DEF WaitInv

LEMMA PollStarts ==
  ASSUME WaitInv, PollInv, NEW t \in Threads, NEW events \in Arrays,
         NEW timeout \in Timeout \cup {"no_wait"}, k_poll(t, events, timeout), UNCHANGED used
  PROVE  PollersStep
<1> DEFINE c == [op |-> "poll", pc |-> "register", events |-> events, ii |-> 1, reg |-> 0,
                 just_check |-> timeout = "no_wait", timeout |-> timeout, rc |-> "0"]
<1>0. PollerTypes /\ ListsOK /\ t \in Pollers
  BY KindsDiffer DEF PollInv
<1>1. events \in Seq(Pollables) /\ Distinct(events)
  BY <1>0, ArraysAre
<1>2. c \in PollCalls
  BY <1>1 DEF PollCalls
<1>3. /\ call' = [call EXCEPT ![t] = c] /\ is_polling' = [is_polling EXCEPT ![t] = TRUE]
      /\ UNCHANGED <<poll_events, state, waitVars, triggerVars, tworkVars, objectVars, restVars>>
      /\ call[t] = Idle
  BY DEF k_poll, Running
<1>4. UNCHANGED <<prio, waitVars, handling, twork, handler>>
  BY <1>3 DEF objectVars, restVars
<1>5. /\ call' \in [Threads -> Calls] /\ call'[t] = c
      /\ \A u \in Threads \ {t} : call'[u] = call[u]
  BY <1>0, <1>2, <1>3 DEF PollerTypes, Calls
<1>6. pended_on[t] = None
  BY <1>3 DEF WaitInv, Pends, Pending, Idle
<1>7. WaitInv'
  BY <1>4, <1>5, <1>6, ThreadMoves
<1>8. OneThread(t)
  BY <1>4, <1>5 DEF OneThread, waitVars
<1>9. \A y \in Pollers : States(y)' = States(y) /\ Listed(y)' = Listed(y)
  BY <1>3 DEF States, Listed, On
<1>10. /\ is_polling' \in [Pollers -> BOOLEAN] /\ is_polling'[t] = TRUE
       /\ \A y \in Pollers \ {t} : is_polling'[y] = is_polling[y]
  BY <1>0, <1>3 DEF PollerTypes
<1>11. ListsOK'
  BY <1>0, <1>3 DEF ListsOK
<1>12. Listed(t) = {} /\ \A o \in Pollables : States(t)[o] = {}
  BY <1>3 DEF PollInv, ThreadPolls, PollingThread, Idle
<1>13. c.pc = "register" /\ c.ii = 1 /\ c.reg = 0 /\ Distinct(c.events)
       /\ (c.just_check <=> c.timeout = "no_wait")
  BY <1>1
<1> HIDE DEF c
<1>14. ThreadPolls(t)'
  <2>1. \A ret : PollingThread(c, States(t), TRUE, {}, FALSE, ret)
    BY <1>2, <1>12, <1>13, ThreadStarts
  <2>2. (pended_on'[t] # None) = FALSE
    BY <1>4, <1>6 DEF waitVars
  <2> QED BY <1>0, <1>5, <1>9, <1>10, <1>12, <2>1, <2>2 DEF ThreadPolls
<1>15. state' \in [Events -> SUBSET {"AVAILABLE", "CANCELLED"}]
  BY <1>0, <1>3 DEF PollerTypes
<1>16. PollInv'
  BY <1>3, <1>4, <1>5, <1>8, <1>9, <1>10, <1>11, <1>14, <1>15, ThreadOnly
<1>17. call[t].op = "idle" /\ call'[t].op = "poll"
  BY <1>3, <1>5, <1>2 DEF Idle, PollCalls
<1> QED BY <1>3, <1>4, <1>7, <1>8, <1>16, <1>17 DEF PollersStep, OneThread, waitVars

\* One turn of the loop of register_events, by p in the call c, and d after it.
Turned(p, d) ==
  /\ Registering(d, States(p)', is_polling'[p], Listed(p)')
  /\ Holds(d.events, d.reg, States(p)', Listed(p)')
  /\ ListsOK' /\ is_polling' \in [Pollers -> BOOLEAN]
  /\ state' \in [Events -> SUBSET {"AVAILABLE", "CANCELLED"}]
  /\ \A y \in Pollers \ {p} : /\ States(y)' = States(y) /\ Listed(y)' = Listed(y)
                              /\ is_polling'[y] = is_polling[y]
  /\ \A o \in Pollables :
       poll_events'[o] # <<>> => poll_events[o] # <<>> \/ ~is_condition_met(o)

LEMMA RegisterNext ==
  ASSUME PollInv, NEW p \in Pollers, NEW c, NEW d, c.events \in Seq(Pollables),
         c.reg \in Nat, c.ii \in Nat, c.just_check \in BOOLEAN, c.ii <= Len(c.events),
         Distinct(c.events), Holds(c.events, c.reg, States(p), Listed(p)),
         Registering(c, States(p), is_polling[p], Listed(p)), register_next(p, c),
         d.events = c.events, d.ii = c.ii + 1, d.just_check = c.just_check,
         d.reg = IF poll_events'[c.events[c.ii]] # poll_events[c.events[c.ii]]
                   THEN c.reg + 1 ELSE c.reg
  PROVE  Turned(p, d) /\ \E added \in BOOLEAN : Turn(c, d, added)
<1> DEFINE o == c.events[c.ii]
<1>0. PollerTypes /\ ListsOK
  BY DEF PollInv
<1>1. /\ o \in Pollables /\ o \notin Listed(p) /\ States(p)[o] = {}
  <2> HIDE DEF o
  <2> QED BY RegisterBehind DEF o
<1>2. is_polling[p] \in BOOLEAN
  BY <1>0 DEF PollerTypes
<1>3. PICK polling \in BOOLEAN : polling = is_polling[p]
  BY <1>2
<1>4. PICK st : st = States(p)
  OBVIOUS
<1>5. PICK on : on = Listed(p)
  OBVIOUS
<1>6. Holds(c.events, c.reg, st, on) /\ Registering(c, st, polling, on)
  BY <1>3, <1>4, <1>5
<1>7. CASE is_condition_met(o)
  <2>1. /\ state' = set_event_ready(<<p, o>>, "AVAILABLE")
        /\ is_polling' = [is_polling EXCEPT ![p] = FALSE]
        /\ UNCHANGED poll_events
    BY <1>7 DEF register_next
  <2>2. /\ state' \in [Events -> SUBSET {"AVAILABLE", "CANCELLED"}]
        /\ MadeReady(States(p), States(p)', o, "AVAILABLE")
        /\ \A y \in Pollers \ {p} : States(y)' = States(y)
    <3> HIDE DEF o
    <3> QED BY <1>0, <1>1, <2>1, StatesAfter
  <2>3. /\ is_polling' \in [Pollers -> BOOLEAN] /\ is_polling'[p] = FALSE
        /\ \A y \in Pollers \ {p} : is_polling'[y] = is_polling[y]
    BY <1>0, <2>1 DEF PollerTypes
  <2>4. \A y \in Pollers : Listed(y)' = Listed(y)
    BY <2>1 DEF Listed, On
  <2>5. ListsOK'
    BY <1>0, <2>1 DEF ListsOK
  <2>6. Turn(c, d, FALSE)
    BY <2>1 DEF Turn
  <2>7. PICK su : su = States(p)'
    OBVIOUS
  <2>8. /\ \A a \in Pollables : a # c.events[c.ii] => su[a] = st[a]
        /\ su[c.events[c.ii]] # {}
    BY <1>1, <1>4, <2>2, <2>7 DEF MadeReady
  <2>9. Registering(d, su, FALSE, on) /\ Holds(d.events, d.reg, su, on)
    <3> HIDE DEF o
    <3> QED BY <1>6, <2>6, <2>8, RegisterMet
  <2>10. Registering(d, States(p)', is_polling'[p], Listed(p)')
         /\ Holds(d.events, d.reg, States(p)', Listed(p)')
    <3> HIDE DEF o
    <3> QED BY <1>5, <2>3, <2>4, <2>7, <2>9
  <2> HIDE DEF o
  <2> QED BY <2>1, <2>2, <2>3, <2>4, <2>5, <2>6, <2>10 DEF Turned
<1>8. CASE ~is_condition_met(o)
  <2>1. /\ state' = state /\ is_polling' = is_polling
        /\ IF polling /\ ~c.just_check
             THEN \E list \in add_event(poll_events[o], <<p, o>>) :
                    poll_events' = [poll_events EXCEPT ![o] = list]
             ELSE UNCHANGED poll_events
    BY <1>3, <1>8 DEF register_next
  <2>2. \A y \in Pollers : States(y)' = States(y) /\ is_polling'[y] = is_polling[y]
    BY <2>1 DEF States
  <2>3. /\ is_polling' \in [Pollers -> BOOLEAN]
        /\ state' \in [Events -> SUBSET {"AVAILABLE", "CANCELLED"}]
    BY <1>0, <2>1 DEF PollerTypes
  <2>4. CASE polling /\ ~c.just_check
    <3>1. PICK list \in add_event(poll_events[o], <<p, o>>) :
                 poll_events' = [poll_events EXCEPT ![o] = list]
      BY <2>1, <2>4
    <3>2. ~On(p, o)
      BY <1>1 DEF Listed
    <3> HIDE DEF o
    <3>3. /\ ListsOK' /\ poll_events'[o] # poll_events[o]
          /\ \A x \in Pollers, a \in Pollables : On(x, a)' <=> On(x, a) \/ (x = p /\ a = o)
      BY <1>0, <1>1, <3>1, <3>2, RegisterLists
    <3>4. /\ Listed(p)' = on \cup {o}
          /\ \A y \in Pollers \ {p} : Listed(y)' = Listed(y)
      BY <1>1, <1>5, <3>3 DEF Listed
    <3>5. Turn(c, d, TRUE)
      BY <3>3 DEF Turn, o
    <3>6. PICK on2 : on2 = Listed(p)'
      OBVIOUS
    <3>7. Registering(d, st, TRUE, on2) /\ Holds(d.events, d.reg, st, on2)
      <4>1. on2 = on \cup {c.events[c.ii]}
        BY <3>4, <3>6 DEF o
      <4>2. Registering(c, st, TRUE, on) /\ ~c.just_check
        BY <1>6, <2>4
      <4> QED BY <1>6, <3>5, <4>1, <4>2, RegisterAdds
    <3>8. Registering(d, States(p)', is_polling'[p], Listed(p)')
          /\ Holds(d.events, d.reg, States(p)', Listed(p)')
      <4>1. is_polling'[p] = TRUE /\ States(p)' = st
        BY <1>3, <1>4, <2>2, <2>4
      <4> QED BY <3>6, <3>7, <4>1
    <3>9. \A a \in Pollables :
            poll_events'[a] # <<>> => poll_events[a] # <<>> \/ ~is_condition_met(a)
      BY <1>0, <1>8, <3>1 DEF ListsOK
    <3> QED BY <2>2, <2>3, <3>3, <3>4, <3>5, <3>8, <3>9 DEF Turned
  <2>5. CASE ~(polling /\ ~c.just_check)
    <3>1. poll_events' = poll_events
      BY <2>1, <2>5
    <3>2. ListsOK' /\ \A y \in Pollers : Listed(y)' = Listed(y)
      BY <1>0, <3>1 DEF ListsOK, Listed, On
    <3>3. Turn(c, d, FALSE)
      BY <3>1 DEF Turn
    <3> HIDE DEF o
    <3>4. Registering(d, st, polling, on) /\ Holds(d.events, d.reg, st, on)
      BY <1>6, <2>5, <3>3, RegisterSkips
    <3>5. Registering(d, States(p)', is_polling'[p], Listed(p)')
          /\ Holds(d.events, d.reg, States(p)', Listed(p)')
      BY <1>3, <1>4, <1>5, <2>2, <3>2, <3>4
    <3> QED BY <2>2, <2>3, <3>1, <3>2, <3>3, <3>5 DEF Turned
  <2> QED BY <2>4, <2>5
<1> QED BY <1>7, <1>8

\* A thread in k_poll.
LEMMA InPoll ==
  ASSUME WaitInv, PollInv, NEW t \in Threads, NEW pc, Stage(t, pc)
  PROVE  /\ t \in Pollers /\ t \notin TWorks /\ PollerTypes /\ ListsOK
         /\ call[t] \in PollCalls /\ call[t].pc = pc /\ call[t].op = "poll"
         /\ is_polling[t] \in BOOLEAN
         /\ ThreadPolls(t)
         /\ pc # "pended" => pended_on[t] = None
<1>1. t \in Pollers /\ t \notin TWorks /\ PollerTypes /\ ListsOK /\ call[t] \in Calls
  BY KindsDiffer DEF PollInv, PollerTypes
<1>2. call[t].op = "poll" /\ call[t].pc = pc
  BY DEF Stage
<1>3. call[t] \in PollCalls
  BY <1>1, <1>2, PollCallIs
<1>4. pc # "pended" => pended_on[t] = None
  BY <1>2 DEF WaitInv, Pends, Pending
<1> QED BY <1>1, <1>2, <1>3, <1>4 DEF PollInv, PollerTypes

LEMMA PollRegisters ==
  ASSUME WaitInv, PollInv, NEW t \in Threads, PollRegister(t), UNCHANGED used
  PROVE  PollersStep
<1>1. /\ t \in Pollers /\ PollerTypes /\ call[t] \in PollCalls /\ call[t].pc = "register"
      /\ call[t].op = "poll" /\ ThreadPolls(t) /\ pended_on[t] = None
  BY InPoll DEF PollRegister
<1>2. PICK c : c = call[t]
  OBVIOUS
<1>3. PICK d : d = Registered(t, c)
  OBVIOUS
<1>4. /\ c.ii <= Len(c.events) /\ register_next(t, c) /\ call' = [call EXCEPT ![t] = d]
      /\ UNCHANGED <<waitVars, triggerVars, tworkVars, objectVars, restVars>>
  <2>1. call[t].ii <= Len(call[t].events) /\ register_next(t, call[t])
        /\ call' = [call EXCEPT ![t] = Registered(t, @)]
        /\ UNCHANGED <<waitVars, triggerVars, tworkVars, objectVars, restVars>>
    BY DEF PollRegister
  <2>2. call' = [call EXCEPT ![t] = Registered(t, call[t])]
    BY <1>1, <2>1 DEF PollerTypes
  <2> QED BY <1>2, <1>3, <2>1, <2>2
<1>5. UNCHANGED <<prio, waitVars, handling, twork, handler>>
  BY <1>4 DEF objectVars, restVars
<1>6. /\ c.events \in Seq(Pollables) /\ c.reg \in Nat /\ c.ii \in Nat /\ c.just_check \in BOOLEAN
      /\ c \in PollCalls /\ c.op = "poll" /\ c.pc = "register"
  BY <1>1, <1>2 DEF PollCalls
<1>7. /\ d.events = c.events /\ d.ii = c.ii + 1 /\ d.just_check = c.just_check
      /\ d.reg = (IF poll_events'[c.events[c.ii]] # poll_events[c.events[c.ii]]
                    THEN c.reg + 1 ELSE c.reg)
      /\ d.pc = "register" /\ d.timeout = c.timeout /\ d.op = "poll"
      /\ d \in PollCalls
  <2>1. PICK r \in Nat : r = IF poll_events'[c.events[c.ii]] # poll_events[c.events[c.ii]]
                               THEN c.reg + 1 ELSE c.reg
    BY <1>6
  <2>2. d = [[c EXCEPT !.ii = c.ii + 1] EXCEPT !.reg = r]
    BY <1>3, <1>6, <2>1 DEF Registered, PollCalls
  <2>3. PICK i \in Nat : i = c.ii + 1
    BY <1>6
  <2>4. PICK m : m = [c EXCEPT !.ii = i]
    OBVIOUS
  <2>5. /\ m \in PollCalls /\ m.events = c.events /\ m.ii = i /\ m.just_check = c.just_check
        /\ m.pc = c.pc /\ m.timeout = c.timeout /\ m.op = c.op
    BY ONLY <1>6, <2>4, i \in Nat DEF PollCalls
  <2>6. d = [m EXCEPT !.reg = r]
    BY <2>2, <2>3, <2>4
  <2>7. /\ d \in PollCalls /\ d.events = m.events /\ d.ii = m.ii /\ d.just_check = m.just_check
        /\ d.pc = m.pc /\ d.timeout = m.timeout /\ d.op = m.op /\ d.reg = r
    BY ONLY <2>5, <2>6, r \in Nat DEF PollCalls
  <2> QED BY <1>6, <2>1, <2>3, <2>5, <2>7
<1>8. /\ Distinct(c.events) /\ Holds(c.events, c.reg, States(t), Listed(t))
      /\ Registering(c, States(t), is_polling[t], Listed(t))
      /\ (c.just_check <=> c.timeout = "no_wait")
  BY <1>1, <1>2, <1>6, ThreadRegisters DEF ThreadPolls
<1>9. Turned(t, d) /\ \E added \in BOOLEAN : Turn(c, d, added)
  BY <1>1, <1>4, <1>6, <1>7, <1>8, RegisterNext
<1>10. /\ Registering(d, States(t)', is_polling'[t], Listed(t)')
       /\ Holds(d.events, d.reg, States(t)', Listed(t)')
       /\ ListsOK' /\ is_polling' \in [Pollers -> BOOLEAN]
       /\ state' \in [Events -> SUBSET {"AVAILABLE", "CANCELLED"}]
       /\ \A y \in Pollers \ {t} : /\ States(y)' = States(y) /\ Listed(y)' = Listed(y)
                                   /\ is_polling'[y] = is_polling[y]
       /\ \A o \in Pollables :
            poll_events'[o] # <<>> => poll_events[o] # <<>> \/ ~is_condition_met(o)
  BY <1>9 DEF Turned
<1>11. /\ call' \in [Threads -> Calls] /\ call'[t] = d
       /\ \A u \in Threads \ {t} : call'[u] = call[u]
  BY <1>1, <1>4, <1>7 DEF PollerTypes, Calls
<1>12. ThreadPolls(t)'
  <2>1. PollingThread(d, States(t)', is_polling'[t], Listed(t)', pended_on'[t] # None,
                      swap_retval'[t])
    BY <1>6, <1>7, <1>8, <1>9, <1>10, ThreadTurns
  <2> QED BY <1>11, <2>1 DEF ThreadPolls
<1>13. OneThread(t)
  BY <1>5, <1>11 DEF OneThread, waitVars
<1>14. PollInv'
  BY <1>4, <1>5, <1>10, <1>11, <1>12, <1>13, ThreadOnly
<1>15. WaitInv'
  BY <1>1, <1>5, <1>11, ThreadMoves
<1>16. call[t].op = "poll" /\ call'[t].op = "poll"
  BY <1>1, <1>7, <1>11
<1> QED BY <1>5, <1>10, <1>13, <1>14, <1>15, <1>16 DEF PollersStep, OneThread, waitVars

\* A thread in k_poll clears event n of its array.
LEMMA ThreadClearing ==
  ASSUME WaitInv, PollInv, NEW t \in Threads, call[t].op = "poll", pended_on[t] = None,
         poll_events' = clear_event_registration(t, call[t].events, call[t].reg)
           \/ (poll_events' = poll_events /\ Listed(t) = {}),
         UNCHANGED <<prio, waitVars, triggerVars, tworkVars, handling, twork, handler, used, state>>,
         NEW d \in PollCalls, call' = [call EXCEPT ![t] = d],
         d.pc = "clear", d.events = call[t].events, d.just_check = call[t].just_check,
         d.timeout = call[t].timeout, d.reg = Less(call[t].reg),
         Answered(call[t], States(t), d.rc),
         is_polling' \in [Pollers -> BOOLEAN],
         \A y \in Pollers \ {t} : is_polling'[y] = is_polling[y]
  PROVE  PollersStep
<1>1. /\ t \in Pollers /\ t \notin TWorks /\ PollerTypes /\ ListsOK /\ call[t] \in PollCalls
      /\ ThreadPolls(t)
  BY InPoll, PollCallIs, KindsDiffer DEF PollInv, PollerTypes
<1>2. PICK c : c = call[t]
  OBVIOUS
<1>3. /\ c \in PollCalls /\ c.events \in Seq(Pollables) /\ c.reg \in Nat
  BY <1>1, <1>2 DEF PollCalls
<1>4. Distinct(c.events) /\ Holds(c.events, c.reg, States(t), Listed(t))
  BY <1>1, <1>2 DEF ThreadPolls, PollingThread
<1>5. c.reg = 0 \/ c.events[c.reg] \in Pollables
  BY <1>3, <1>4 DEF Holds
<1>6. /\ ListsOK'
      /\ \A x \in Pollers, a \in Pollables :
           On(x, a)' <=> On(x, a) /\ ~(c.reg # 0 /\ x = t /\ a = c.events[c.reg])
      /\ \A a \in Pollables : poll_events'[a] # <<>> => poll_events[a] # <<>>
  <2>1. CASE poll_events' = clear_event_registration(t, call[t].events, call[t].reg)
    BY <1>1, <1>2, <1>5, <2>1, ClearLists
  <2>2. CASE poll_events' = poll_events /\ Listed(t) = {}
    <3>1. \A a \in Pollables : ~On(t, a)
      BY <2>2 DEF Listed
    <3> QED BY <1>1, <2>2, <3>1 DEF ListsOK, On
  <2> QED BY <2>1, <2>2
<1>7. /\ \A o \in Listed(t)' : o \in Listed(t) /\ ~(c.reg # 0 /\ o = c.events[c.reg])
      /\ \A y \in Pollers \ {t} : Listed(y)' = Listed(y)
  BY <1>1, <1>6 DEF Listed
<1>8. \A y \in Pollers : States(y)' = States(y)
  BY DEF States
<1>9. Holds(c.events, Less(c.reg), States(t), Listed(t)')
  BY <1>3, <1>4, <1>7, ClearHolds
<1>10. /\ call' \in [Threads -> Calls] /\ call'[t] = d
       /\ \A u \in Threads \ {t} : call'[u] = call[u]
  BY <1>1 DEF PollerTypes, Calls
<1>11. ThreadPolls(t)'
  <2>1. PollingThread(c, States(t), is_polling[t], Listed(t), pended_on[t] # None,
                      swap_retval[t])
    BY <1>1, <1>2 DEF ThreadPolls
  <2>2. Answered(c, States(t), d.rc) /\ Holds(d.events, d.reg, States(t), Listed(t)')
        /\ d.events = c.events /\ d.just_check = c.just_check /\ d.timeout = c.timeout
    BY <1>2, <1>9
  <2>3. PollingThread(d, States(t), is_polling'[t], Listed(t)', pended_on'[t] # None,
                      swap_retval'[t])
    BY <1>3, <2>1, <2>2, ThreadClears
  <2> QED BY <1>1, <1>8, <1>10, <2>3 DEF ThreadPolls
<1>12. OneThread(t)
  BY <1>10 DEF OneThread, waitVars
<1>13. state' \in [Events -> SUBSET {"AVAILABLE", "CANCELLED"}]
  BY <1>1 DEF PollerTypes
<1>14. PollInv'
  BY <1>6, <1>7, <1>8, <1>10, <1>11, <1>12, <1>13, ThreadOnly
<1>15. WaitInv'
  BY <1>10, ThreadMoves
<1>16. call'[t].op = "poll"
  BY <1>10 DEF PollCalls
<1> QED BY <1>6, <1>12, <1>14, <1>15, <1>16 DEF PollersStep, OneThread, waitVars

\* A call of k_poll that goes on to clear its events.
Clearing(c, rc) == [c EXCEPT !.pc = "clear", !.reg = Less(@), !.rc = rc]

LEMMA ClearingCall ==
  ASSUME NEW c \in PollCalls, NEW rc \in {"0", "-EAGAIN", "-ENOMSG", "-EINTR"}, NEW d,
         d = Clearing(c, rc)
  PROVE  /\ d \in PollCalls /\ d.pc = "clear" /\ d.events = c.events
         /\ d.just_check = c.just_check /\ d.timeout = c.timeout /\ d.reg = Less(c.reg)
         /\ d.rc = rc
<1>1. PICK n : n = Less(c.reg)
  OBVIOUS
<1>2. n \in Nat
  BY <1>1 DEF Less, PollCalls
<1>3. d = [c EXCEPT !.pc = "clear", !.reg = n, !.rc = rc]
  BY <1>1 DEF PollCalls, Clearing
<1>4. PICK m : m = [c EXCEPT !.pc = "clear"]
  OBVIOUS
<1>5. /\ m \in PollCalls /\ m.pc = "clear" /\ m.events = c.events
      /\ m.just_check = c.just_check /\ m.timeout = c.timeout
  BY ONLY <1>4, c \in PollCalls DEF PollCalls
<1>6. PICK k : k = [m EXCEPT !.reg = n]
  OBVIOUS
<1>7. /\ k \in PollCalls /\ k.pc = "clear" /\ k.events = c.events
      /\ k.just_check = c.just_check /\ k.timeout = c.timeout /\ k.reg = n
  BY ONLY <1>2, <1>5, <1>6 DEF PollCalls
<1>8. d = [k EXCEPT !.rc = rc]
  BY <1>3, <1>4, <1>6
<1>9. /\ d \in PollCalls /\ d.pc = "clear" /\ d.events = c.events
      /\ d.just_check = c.just_check /\ d.timeout = c.timeout /\ d.reg = n /\ d.rc = rc
  BY ONLY <1>7, <1>8, rc \in {"0", "-EAGAIN", "-ENOMSG", "-EINTR"} DEF PollCalls
<1> QED BY <1>1, <1>9

LEMMA PollSleeps ==
  ASSUME WaitInv, PollInv, firing = None, NEW t \in Threads, Stage(t, "register"),
         call[t].ii > Len(call[t].events), is_polling[t], ~call[t].just_check,
         z_pend_curr(t, poll_wait_q, call[t].timeout, prio),
         is_polling' = [is_polling EXCEPT ![t] = FALSE],
         call' = [call EXCEPT ![t].pc = "pended"],
         UNCHANGED <<poll_events, state, prio, triggerVars, tworkVars, handling, twork, handler,
                     used>>
  PROVE  PollersStep
<1>1. /\ t \in Pollers /\ t \notin TWorks /\ PollerTypes /\ ListsOK
      /\ call[t] \in PollCalls /\ call[t].pc = "register" /\ call[t].op = "poll"
      /\ ThreadPolls(t) /\ pended_on[t] = None
  BY InPoll
<1>2. PICK c : c = call[t]
  OBVIOUS
<1>3. PICK d : d = [c EXCEPT !.pc = "pended"]
  OBVIOUS
<1>4. /\ d \in PollCalls /\ d.pc = "pended" /\ d.events = c.events /\ d.reg = c.reg
      /\ d.just_check = c.just_check /\ d.timeout = c.timeout /\ d.op = "poll"
  BY <1>1, <1>2, <1>3 DEF PollCalls
<1>5. /\ call' \in [Threads -> Calls] /\ call'[t] = d
      /\ \A u \in Threads \ {t} : call'[u] = call[u]
  BY <1>1, <1>2, <1>3, <1>4 DEF PollerTypes, Calls
<1>6. PICK timeout : timeout = call[t].timeout
  OBVIOUS
<1>7. Pended(t, poll_wait_q, timeout)
  BY <1>1, <1>6, PendWaits, KindsDiffer DEF WaitInv
<1>8. WaitInv'
  <2>1. \A u \in Threads \ {t} : Pends(u)'
    BY <1>5, <1>7 DEF WaitInv, Pends, Pended
  <2>2. ~(t \in armed)
    BY <1>1 DEF WaitInv, Pends, Pending
  <2>3. /\ pended_on'[t] = poll_wait_q /\ swap_retval'[t] = "-EAGAIN" /\ firing' = None
        /\ t \in armed' <=> timeout = "ticks"
    BY <1>7, <2>2 DEF Pended
  <2>4. call'[t].timeout = timeout /\ call'[t].op = "poll" /\ call'[t].pc = "pended"
    BY <1>2, <1>4, <1>5, <1>6
  <2>5. Pends(t)'
    BY <2>3, <2>4, KindsDiffer DEF Pends, Pending
  <2> QED BY <1>7, <2>1, <2>5 DEF WaitInv, Pended
<1>9. \A y \in Pollers : States(y)' = States(y) /\ Listed(y)' = Listed(y)
  BY DEF States, Listed, On
<1>10. /\ is_polling' \in [Pollers -> BOOLEAN] /\ is_polling'[t] = FALSE
       /\ \A y \in Pollers \ {t} : is_polling'[y] = is_polling[y]
  BY <1>1 DEF PollerTypes
<1>11. ThreadPolls(t)'
  <2>0. PICK st : st = States(t)
    OBVIOUS
  <2>1. PICK on : on = Listed(t)
    OBVIOUS
  <2>2. PICK rt : rt = swap_retval'[t]
    OBVIOUS
  <2>3. PICK ret : ret = swap_retval[t]
    OBVIOUS
  <2>4. PollingThread(c, st, TRUE, on, FALSE, ret)
    BY <1>1, <1>2, <2>0, <2>1, <2>3 DEF ThreadPolls
  <2>5. c \in PollCalls /\ c.pc = "register" /\ ~c.just_check /\ c.ii > Len(c.events)
    BY <1>1, <1>2
  <2>6. PollingThread(d, st, FALSE, on, TRUE, rt)
    BY <1>4, <2>4, <2>5, ThreadSleeps
  <2>7. (pended_on'[t] # None) = TRUE
    BY <1>7, KindsDiffer DEF Pended
  <2> QED BY <1>1, <1>5, <1>9, <1>10, <2>0, <2>1, <2>2, <2>6, <2>7 DEF ThreadPolls
<1>12. OneThread(t)
  BY <1>5, <1>7 DEF OneThread, Pended
<1>13. state' \in [Events -> SUBSET {"AVAILABLE", "CANCELLED"}] /\ ListsOK'
  BY <1>1 DEF PollerTypes, ListsOK
<1>14. PollInv'
  BY <1>5, <1>9, <1>10, <1>11, <1>12, <1>13, ThreadOnly
<1>15. \A a \in Objects \ {poll_wait_q} : wait_q'[a] = wait_q[a]
  BY <1>7 DEF Pended
<1>16. call[t].op = "poll" /\ call'[t].op = "poll"
  BY <1>1, <1>4, <1>5
<1> QED BY <1>8, <1>12, <1>14, <1>15, <1>16 DEF PollersStep, OneThread

LEMMA PollDecides ==
  ASSUME WaitInv, PollInv, firing = None, NEW t \in Threads, PollDecide(t), UNCHANGED used
  PROVE  PollersStep
<1>1. /\ Stage(t, "register") /\ call[t].ii > Len(call[t].events)
      /\ is_polling' = [is_polling EXCEPT ![t] = FALSE]
      /\ UNCHANGED <<state, triggerVars, tworkVars, objectVars, restVars>>
  BY DEF PollDecide
<1>2. \/ /\ ~is_polling[t]
         /\ poll_events' = clear_event_registration(t, call[t].events, call[t].reg)
         /\ call' = [call EXCEPT ![t] = Clearing(call[t], "0")]
         /\ UNCHANGED waitVars
      \/ /\ is_polling[t] /\ call[t].just_check
         /\ call' = [call EXCEPT ![t] = Clearing(call[t], "-EAGAIN")]
         /\ UNCHANGED <<waitVars, poll_events>>
      \/ /\ is_polling[t] /\ ~call[t].just_check
         /\ z_pend_curr(t, poll_wait_q, call[t].timeout, prio)
         /\ call' = [call EXCEPT ![t].pc = "pended"]
         /\ UNCHANGED poll_events
  BY DEF PollDecide, GoesToSleep, Clearing
<1>3. /\ t \in Pollers /\ t \notin TWorks /\ PollerTypes /\ ListsOK
      /\ call[t] \in PollCalls /\ call[t].pc = "register" /\ call[t].op = "poll"
      /\ is_polling[t] \in BOOLEAN /\ ThreadPolls(t) /\ pended_on[t] = None
  BY <1>1, InPoll
<1>4. UNCHANGED <<prio, handling, twork, handler>>
  BY <1>1 DEF objectVars, restVars
<1>5. /\ is_polling' \in [Pollers -> BOOLEAN]
      /\ \A y \in Pollers \ {t} : is_polling'[y] = is_polling[y]
  BY <1>1, <1>3 DEF PollerTypes
<1>6. /\ Registering(call[t], States(t), is_polling[t], Listed(t))
      /\ Holds(call[t].events, call[t].reg, States(t), Listed(t))
      /\ call[t].just_check <=> call[t].timeout = "no_wait"
  BY <1>3 DEF ThreadPolls, PollingThread
<1>7. CASE ~is_polling[t]
  <2>1. PICK d : d = Clearing(call[t], "0")
    OBVIOUS
  <2>2. /\ d \in PollCalls /\ d.pc = "clear" /\ d.events = call[t].events
        /\ d.just_check = call[t].just_check /\ d.timeout = call[t].timeout
        /\ d.reg = Less(call[t].reg) /\ d.rc = "0"
    BY <1>3, <2>1, ClearingCall
  <2>3. /\ call' = [call EXCEPT ![t] = d] /\ UNCHANGED waitVars
        /\ poll_events' = clear_event_registration(t, call[t].events, call[t].reg)
    BY <1>2, <1>7, <2>1
  <2>4. Answered(call[t], States(t), d.rc)
    BY <1>6, <1>7, <2>2 DEF Registering, Answered
  <2> QED BY <1>1, <1>3, <1>4, <1>5, <2>2, <2>3, <2>4, ThreadClearing
<1>8. CASE is_polling[t] /\ call[t].just_check
  <2>1. PICK d : d = Clearing(call[t], "-EAGAIN")
    OBVIOUS
  <2>2. /\ d \in PollCalls /\ d.pc = "clear" /\ d.events = call[t].events
        /\ d.just_check = call[t].just_check /\ d.timeout = call[t].timeout
        /\ d.reg = Less(call[t].reg) /\ d.rc = "-EAGAIN"
    BY <1>3, <2>1, ClearingCall
  <2>3. call' = [call EXCEPT ![t] = d] /\ UNCHANGED waitVars /\ poll_events' = poll_events
    BY <1>2, <1>8, <2>1
  <2>4. Answered(call[t], States(t), d.rc)
    BY <1>6, <1>8, <2>2 DEF Answered
  <2>5. Listed(t) = {}
    BY <1>6, <1>8 DEF Registering, Holds
  <2> QED BY <2>5, <1>1, <1>3, <1>4, <1>5, <2>2, <2>3, <2>4, ThreadClearing
<1>9. CASE is_polling[t] /\ ~call[t].just_check
  <2>1. /\ z_pend_curr(t, poll_wait_q, call[t].timeout, prio)
        /\ call' = [call EXCEPT ![t].pc = "pended"] /\ UNCHANGED poll_events
    BY <1>2, <1>9
  <2> QED BY <1>1, <1>4, <1>9, <2>1, PollSleeps
<1> QED BY <1>3, <1>7, <1>8, <1>9

LEMMA PollClears ==
  ASSUME WaitInv, PollInv, NEW t \in Threads, PollClear(t), UNCHANGED used
  PROVE  PollersStep
<1>1. /\ poll_events' = clear_event_registration(t, call[t].events, call[t].reg)
      /\ UNCHANGED <<state, is_polling, waitVars, triggerVars, tworkVars, objectVars, restVars>>
  BY DEF PollClear
<1>2. UNCHANGED <<prio, handling, twork, handler>>
  BY <1>1 DEF objectVars, restVars
<1>3. /\ is_polling' \in [Pollers -> BOOLEAN]
      /\ \A y \in Pollers \ {t} : is_polling'[y] = is_polling[y]
  BY <1>1 DEF PollInv, PollerTypes
<1>4. CASE Stage(t, "pended")
  <2>1. /\ pended_on[t] = None
        /\ call' = [call EXCEPT ![t] = Clearing(call[t], swap_retval[t])]
    BY <1>4 DEF PollClear, Stage, Clearing
  <2>2. /\ call[t] \in PollCalls /\ call[t].pc = "pended" /\ call[t].op = "poll"
        /\ ThreadPolls(t)
    BY <1>4, InPoll
  <2>3. swap_retval[t] \in {"0", "-EAGAIN", "-ENOMSG", "-EINTR"}
    BY DEF WaitInv, WaitLists, WaitTypeOK
  <2>4. PICK d : d = Clearing(call[t], swap_retval[t])
    OBVIOUS
  <2>5. /\ d \in PollCalls /\ d.pc = "clear" /\ d.events = call[t].events
        /\ d.just_check = call[t].just_check /\ d.timeout = call[t].timeout
        /\ d.reg = Less(call[t].reg) /\ d.rc = swap_retval[t]
    BY <2>2, <2>3, <2>4, ClearingCall
  <2>6. Answered(call[t], States(t), d.rc)
    BY <2>1, <2>2, <2>5 DEF ThreadPolls, PollingThread
  <2> QED BY <1>1, <1>2, <1>3, <2>1, <2>2, <2>4, <2>5, <2>6, ThreadClearing
<1>5. CASE Stage(t, "clear")
  <2>1. call' = [call EXCEPT ![t].reg = Less(@)]
    BY <1>5 DEF PollClear, Stage
  <2>2. /\ call[t] \in PollCalls /\ call[t].pc = "clear" /\ call[t].op = "poll"
        /\ ThreadPolls(t) /\ pended_on[t] = None
    BY <1>5, InPoll
  <2>3. PICK n : n = Less(call[t].reg)
    OBVIOUS
  <2>4. n \in Nat
    BY <2>2, <2>3 DEF Less, PollCalls
  <2>5. PICK d : d = [call[t] EXCEPT !.reg = n]
    OBVIOUS
  <2>6. /\ d \in PollCalls /\ d.pc = "clear" /\ d.events = call[t].events
        /\ d.just_check = call[t].just_check /\ d.timeout = call[t].timeout
        /\ d.reg = n /\ d.rc = call[t].rc
    BY <2>2, <2>4, <2>5 DEF PollCalls
  <2>7. call' = [call EXCEPT ![t] = d]
    BY <2>1, <2>2, <2>3, <2>5 DEF PollInv, PollerTypes, PollCalls
  <2>8. Answered(call[t], States(t), d.rc)
    BY <2>2, <2>6 DEF ThreadPolls, PollingThread
  <2> QED BY <1>1, <1>2, <1>3, <2>2, <2>3, <2>6, <2>7, <2>8, ThreadClearing
<1> QED BY <1>4, <1>5 DEF PollClear

LEMMA PollEnds ==
  ASSUME WaitInv, PollInv, NEW t \in Threads, PollDone(t), UNCHANGED used
  PROVE  PollersStep
<1>1. /\ Stage(t, "clear") /\ call[t].reg = 0 /\ call' = [call EXCEPT ![t] = Idle]
      /\ state' = [e \in Events |-> IF e[1] = t THEN {} ELSE state[e]]
      /\ UNCHANGED <<poll_events, is_polling, waitVars, triggerVars, tworkVars, objectVars,
                     restVars>>
  BY DEF PollDone, PollReturns
<1>2. UNCHANGED <<prio, handling, twork, handler>>
  BY <1>1 DEF objectVars, restVars
<1>3. /\ t \in Pollers /\ PollerTypes /\ ListsOK /\ call[t] \in PollCalls
      /\ call[t].op = "poll" /\ ThreadPolls(t) /\ pended_on[t] = None
  BY <1>1, InPoll
<1>4. /\ call' \in [Threads -> Calls] /\ call'[t] = Idle
      /\ \A u \in Threads \ {t} : call'[u] = call[u]
  BY <1>1, <1>3 DEF PollerTypes, Calls
<1>5. WaitInv'
  BY <1>1, <1>2, <1>3, <1>4, ThreadMoves
<1>6. \A p \in Pollers, o \in Pollables : state'[<<p, o>>] = IF p = t THEN {} ELSE state[<<p, o>>]
  BY <1>1 DEF Events
<1>7. /\ state' \in [Events -> SUBSET {"AVAILABLE", "CANCELLED"}]
      /\ \A y \in Pollers \ {t} : States(y)' = States(y)
      /\ \A o \in Pollables : States(t)'[o] = {}
  BY <1>1, <1>3, <1>6 DEF PollerTypes, States
<1>8. \A y \in Pollers : Listed(y)' = Listed(y) /\ is_polling'[y] = is_polling[y]
  BY <1>1 DEF Listed, On
<1>9. ListsOK' /\ is_polling' \in [Pollers -> BOOLEAN]
  BY <1>1, <1>3 DEF ListsOK, PollerTypes
<1>10. Listed(t) = {}
  BY <1>1, <1>3 DEF ThreadPolls, PollingThread, Holds
<1>11. ThreadPolls(t)'
  BY <1>3, <1>4, <1>7, <1>8, <1>10 DEF ThreadPolls, PollingThread, Idle
<1>12. OneThread(t)
  BY <1>1, <1>4 DEF OneThread, waitVars
<1>13. PollInv'
  BY <1>1, <1>2, <1>4, <1>7, <1>8, <1>9, <1>11, <1>12, ThreadOnly
<1>14. call[t].op = "poll" /\ call'[t].op = "idle"
  BY <1>3, <1>4 DEF Idle
<1> QED BY <1>1, <1>5, <1>12, <1>13, <1>14 DEF PollersStep, OneThread, waitVars

\* Nothing happens to the other work items.
OneWork(w) ==
  \A v \in TWorks \ {w} :
    /\ workq'[v] = workq[v] /\ mode'[v] = mode[v] /\ poll_result'[v] = poll_result[v]
    /\ handler'[v] = handler[v] /\ twork'[v] = twork[v]
    /\ v \in queued' <=> v \in queued
    /\ v \in tw_armed' \cup tw_firing' <=> v \in tw_armed \cup tw_firing

LEMMA WorkOnly ==
  ASSUME WaitInv, PollInv, NEW w \in TWorks, UNCHANGED <<prio, waitVars, call>>,
         PollerTypes', ListsOK', (tw_armed \cap tw_firing = {})', OneWork(w),
         \A y \in Pollers \ {w} : /\ States(y)' = States(y) /\ Listed(y)' = Listed(y)
                                  /\ is_polling'[y] = is_polling[y],
         \A o \in Pollables :
           poll_events'[o] # <<>> => poll_events[o] # <<>> \/ ~is_condition_met(o),
         WorkPolls(w)'
  PROVE  PollersStep
<1>1. w \notin Threads
  BY KindsDiffer
<1>2. \A v \in TWorks \ {w} : Item(v)' = Item(v) /\ twork'[v] = twork[v]
  BY DEF Item, OneWork
<1>3. \A x \in Pollers \ {w} : Unnoticed(x)
  BY <1>2 DEF Unnoticed, waitVars
<1>4. PollInv'
  BY <1>1, <1>3, OnePoller
<1>5. WaitInv'
  BY SameWaits
<1> QED BY <1>4, <1>5 DEF PollersStep, waitVars

LEMMA InWork ==
  ASSUME PollInv, NEW w \in TWorks
  PROVE  /\ w \in Pollers /\ PollerTypes /\ ListsOK /\ tw_armed \cap tw_firing = {}
         /\ twork[w] \in WorkCalls /\ is_polling[w] \in BOOLEAN /\ Item(w) \in WorkItems
         /\ PollingWork(twork[w], States(w), is_polling[w], Listed(w), Item(w))
BY KindsDiffer, ItemTypes DEF PollInv, PollerTypes, WorkPolls

\* k_work_poll_submit takes the item and starts to register.
LEMMA WorkOwned ==
  ASSUME WaitInv, PollInv, NEW w \in TWorks, NEW c \in Submits, c.pc = "register", c.ii = 1,
         c.reg = 0, Distinct(c.events), TakeOwnership(w, c),
         ~workq[w] \/ (twork[w].pc = "cancel" /\ twork[w].reg = 0),
         UNCHANGED <<poll_events, tw_armed, queued, tw_firing, prio, waitVars, handling, handler,
                     call, used>>
  PROVE  PollersStep
<1>1. /\ w \in Pollers /\ PollerTypes /\ ListsOK /\ tw_armed \cap tw_firing = {}
      /\ twork[w] \in WorkCalls /\ is_polling[w] \in BOOLEAN /\ Item(w) \in WorkItems
      /\ PollingWork(twork[w], States(w), is_polling[w], Listed(w), Item(w))
  BY InWork
<1>2. /\ is_polling' = [is_polling EXCEPT ![w] = TRUE]
      /\ state' = [e \in Events |-> IF e[1] = w THEN {} ELSE state[e]]
      /\ workq' = [workq EXCEPT ![w] = TRUE]
      /\ mode' = [mode EXCEPT ![w] = "NONE"]
      /\ poll_result' = [poll_result EXCEPT ![w] = "-EINPROGRESS"]
      /\ twork' = [twork EXCEPT ![w] = c]
  BY DEF TakeOwnership
<1>3. Listed(w) = {} /\ Uncalled(Item(w)) /\ ~Item(w).timed
  <2>1. Item(w).workq = workq[w]
    BY DEF Item
  <2> QED BY <1>1, <2>1, WorkFree
<1>4. \A p \in Pollers, o \in Pollables : state'[<<p, o>>] = IF p = w THEN {} ELSE state[<<p, o>>]
  BY <1>2 DEF Events
<1>5. /\ state' \in [Events -> SUBSET {"AVAILABLE", "CANCELLED"}]
      /\ \A y \in Pollers \ {w} : States(y)' = States(y)
      /\ \A o \in Pollables : States(w)'[o] = {}
  BY <1>1, <1>2, <1>4 DEF PollerTypes, States
<1>6. \A y \in Pollers : Listed(y)' = Listed(y)
  BY DEF Listed, On
<1>7. c \in WorkCalls
  BY DEF WorkCalls
<1>8. PollerTypes'
  BY <1>1, <1>2, <1>5, <1>7 DEF PollerTypes
<1>9. ListsOK' /\ (tw_armed \cap tw_firing = {})'
  BY <1>1 DEF ListsOK
<1>10. OneWork(w)
  BY <1>1, <1>2 DEF OneWork, PollerTypes
<1>11. /\ is_polling'[w] = TRUE /\ twork'[w] = c
       /\ \A y \in Pollers \ {w} : is_polling'[y] = is_polling[y]
  BY <1>1, <1>2 DEF PollerTypes
<1>12. PICK j : j = Item(w)'
  OBVIOUS
<1>13. j \in WorkItems /\ j.workq /\ j.mode = "NONE" /\ ~j.timed /\ Uncalled(j)
  <2>1. workq'[w] = TRUE /\ mode'[w] = "NONE" /\ poll_result'[w] = "-EINPROGRESS"
    BY <1>1, <1>2 DEF PollerTypes
  <2>2. w \notin queued /\ handler[w] = NotRunning /\ w \notin tw_armed \cup tw_firing
    BY <1>3 DEF Uncalled, Item
  <2>3. /\ j.workq = TRUE /\ j.mode = "NONE" /\ ~j.queued /\ ~j.timed
        /\ j.handler = NotRunning
    BY <1>12, <2>1, <2>2 DEF Item
  <2>4. j \in WorkItems
    BY <1>8, <1>12 DEF PollerTypes, Item, WorkItems
  <2> QED BY <2>3, <2>4 DEF Uncalled
<1>14. WorkPolls(w)'
  <2>1. PICK su : su = States(w)'
    OBVIOUS
  <2>2. PollingWork(c, su, TRUE, {}, j)
    BY <1>5, <1>13, <2>1, WorkTaken
  <2>3. Listed(w)' = {}
    BY <1>1, <1>3, <1>6
  <2> QED BY <1>11, <1>12, <2>1, <2>2, <2>3 DEF WorkPolls
<1> QED BY <1>5, <1>6, <1>8, <1>9, <1>10, <1>11, <1>14, WorkOnly

\* Event n of an array is cleared.
Cleared(p, events, n) ==
  /\ ListsOK'
  /\ \A o \in Listed(p)' : o \in Listed(p) /\ ~(n # 0 /\ o = events[n])
  /\ \A y \in Pollers \ {p} : Listed(y)' = Listed(y)
  /\ \A o \in Pollables :
       poll_events'[o] # <<>> => poll_events[o] # <<>> \/ ~is_condition_met(o)

LEMMA ItemClears ==
  ASSUME PollInv, NEW p \in Pollers, NEW events \in Seq(Pollables), NEW n \in Nat,
         n <= Len(events), poll_events' = clear_event_registration(p, events, n)
  PROVE  Cleared(p, events, n)
<1>1. n = 0 \/ events[n] \in Pollables
  OBVIOUS
<1>2. /\ ListsOK'
      /\ \A x \in Pollers, a \in Pollables :
           On(x, a)' <=> On(x, a) /\ ~(n # 0 /\ x = p /\ a = events[n])
      /\ \A a \in Pollables : poll_events'[a] # <<>> => poll_events[a] # <<>>
  BY <1>1, ClearLists DEF PollInv
<1> QED BY <1>2 DEF Cleared, Listed

LEMMA WorkCancels ==
  ASSUME WaitInv, PollInv, NEW w \in TWorks, NEW c \in Submits \cup {None}, BeginCancel(w, c),
         twork[w].pc = "none", tw_firing = {},
         c # None => /\ c.pc = "register" /\ c.ii = 1 /\ c.reg = 0 /\ Distinct(c.events),
         UNCHANGED <<prio, waitVars, handling, handler, call, used>>
  PROVE  PollersStep
<1>1. /\ w \in Pollers /\ PollerTypes /\ ListsOK /\ tw_armed \cap tw_firing = {}
      /\ twork[w] \in WorkCalls /\ is_polling[w] \in BOOLEAN /\ Item(w) \in WorkItems
      /\ PollingWork(twork[w], States(w), is_polling[w], Listed(w), Item(w))
  BY InWork
<1>2. PICK events : events = twork[w].events
  OBVIOUS
<1>3. events \in Seq(Pollables)
  BY <1>1, <1>2, WorkCallIs
<1>4. PICK n \in Nat : n = Len(events)
  BY <1>3
<1>5. /\ workq[w] /\ is_polling[w] /\ mode[w] # "NONE"
      /\ tw_armed' = tw_armed \ {w}
      /\ mode' = [mode EXCEPT ![w] = "NONE"]
      /\ poll_events' = clear_event_registration(w, events, n)
      /\ twork' = [twork EXCEPT ![w] =
           [pc |-> "cancel", events |-> events, reg |-> Less(n), then |-> c]]
      /\ UNCHANGED <<state, is_polling, workq, poll_result, queued, tw_firing>>
  BY <1>2, <1>4 DEF BeginCancel, Cancellable
<1>6. PICK d : d = [pc |-> "cancel", events |-> events, reg |-> Less(n), then |-> c]
  OBVIOUS
<1>7. Less(n) \in Nat
  BY DEF Less
<1>8. /\ d \in WorkCalls /\ d.pc = "cancel" /\ d.events = events /\ d.reg = Less(n)
      /\ d.then = c
  BY <1>3, <1>6, <1>7 DEF WorkCalls
<1>9. Cleared(w, events, n)
  BY <1>1, <1>3, <1>4, <1>5, ItemClears
<1>10. \A y \in Pollers : States(y)' = States(y) /\ is_polling'[y] = is_polling[y]
  BY <1>5 DEF States
<1>11. PollerTypes'
  BY <1>1, <1>5, <1>6, <1>8 DEF PollerTypes
<1>12. OneWork(w)
  BY <1>1, <1>5 DEF OneWork, PollerTypes
<1>13. twork'[w] = d /\ is_polling'[w] = TRUE
  BY <1>1, <1>5, <1>6 DEF PollerTypes
<1>14. (tw_armed \cap tw_firing = {})' /\ w \notin tw_firing
  BY <1>1, <1>5
<1>15. PICK i : i = Item(w)
  OBVIOUS
<1>16. PICK j : j = Item(w)'
  OBVIOUS
<1>17. /\ i \in WorkItems /\ j \in WorkItems
       /\ i.workq /\ i.mode # "NONE" /\ j.workq /\ j.mode = "NONE" /\ ~j.timed
       /\ j.queued = i.queued /\ j.handler = i.handler
  <2>1. i \in WorkItems /\ i.workq /\ i.mode # "NONE"
    BY <1>1, <1>5, <1>15 DEF Item
  <2>2. j \in WorkItems
    BY <1>11, <1>16 DEF PollerTypes, Item, WorkItems
  <2>3. mode'[w] = "NONE" /\ workq'[w] /\ w \notin tw_armed' \cup tw_firing'
    BY <1>1, <1>5, <1>14 DEF PollerTypes
  <2>4. j.workq /\ j.mode = "NONE" /\ ~j.timed
    BY <1>16, <2>3 DEF Item
  <2>5. j.queued = i.queued /\ j.handler = i.handler
    BY <1>5, <1>15, <1>16 DEF Item
  <2> QED BY <2>1, <2>2, <2>4, <2>5
<1>18. WorkPolls(w)'
  <2>1. PICK st : st = States(w)
    OBVIOUS
  <2>2. PICK on : on = Listed(w)
    OBVIOUS
  <2>3. PICK on2 : on2 = Listed(w)'
    OBVIOUS
  <2>4. PICK b : b = twork[w]
    OBVIOUS
  <2>5. PollingWork(b, st, TRUE, on, i) /\ b \in WorkCalls /\ b.pc = "none" /\ b.events = events
    BY <1>1, <1>2, <1>5, <1>15, <2>1, <2>2, <2>4
  <2>6. \A o \in on2 : o \in on /\ ~(Len(b.events) # 0 /\ o = b.events[Len(b.events)])
    BY <1>4, <1>9, <2>2, <2>3, <2>5 DEF Cleared
  <2>7. /\ d.then # None => /\ d.then.pc = "register" /\ d.then.ii = 1 /\ d.then.reg = 0
                            /\ Distinct(d.then.events)
        /\ d.reg = Less(Len(b.events)) /\ d.events = b.events
    BY <1>4, <1>8, <2>5
  <2>8. PollingWork(d, st, TRUE, on2, j)
    BY <1>8, <1>17, <2>5, <2>6, <2>7, WorkCancelled
  <2> QED BY <1>1, <1>10, <1>13, <1>16, <2>1, <2>3, <2>8 DEF WorkPolls
<1>19. /\ ListsOK' /\ \A y \in Pollers \ {w} : Listed(y)' = Listed(y)
       /\ \A o \in Pollables :
            poll_events'[o] # <<>> => poll_events[o] # <<>> \/ ~is_condition_met(o)
  BY <1>9 DEF Cleared
<1> QED BY <1>10, <1>11, <1>12, <1>14, <1>18, <1>19, WorkOnly

\* The call with which k_work_poll_submit starts.
LEMMA NewSubmit ==
  ASSUME PollInv, NEW events \in Arrays, NEW timeout \in Timeout \cup {"no_wait"}, NEW c,
         c = [pc |-> "register", events |-> events, ii |-> 1, reg |-> 0,
              just_check |-> FALSE, timeout |-> timeout]
  PROVE  c \in Submits /\ c.pc = "register" /\ c.ii = 1 /\ c.reg = 0 /\ Distinct(c.events)
<1>1. events \in Seq(Pollables) /\ Distinct(events)
  BY ArraysAre DEF PollInv
<1> QED BY <1>1 DEF Submits

LEMMA SubmitStarts ==
  ASSUME WaitInv, PollInv, tw_firing = {}, NEW w \in TWorks, NEW events \in Arrays,
         NEW timeout \in Timeout \cup {"no_wait"}, k_work_poll_submit(w, events, timeout),
         UNCHANGED used
  PROVE  PollersStep
<1>1. PICK c : c = [pc |-> "register", events |-> events, ii |-> 1, reg |-> 0,
                    just_check |-> FALSE, timeout |-> timeout]
  OBVIOUS
<1>2. c \in Submits /\ c.pc = "register" /\ c.ii = 1 /\ c.reg = 0 /\ Distinct(c.events)
  BY <1>1, NewSubmit
<1>3. /\ twork[w].pc = "none"
      /\ \/ /\ ~workq[w]
            /\ TakeOwnership(w, c)
            /\ UNCHANGED <<poll_events, tw_armed, queued, tw_firing>>
         \/ BeginCancel(w, c)
      /\ UNCHANGED <<waitVars, objectVars, handler, prio, call>>
  BY <1>1 DEF k_work_poll_submit
<1>4. UNCHANGED handling
  BY <1>3 DEF objectVars
<1>5. CASE BeginCancel(w, c)
  BY <1>2, <1>3, <1>4, <1>5, WorkCancels
<1>6. CASE /\ ~workq[w] /\ TakeOwnership(w, c)
           /\ UNCHANGED <<poll_events, tw_armed, queued, tw_firing>>
  BY <1>2, <1>3, <1>4, <1>6, WorkOwned
<1> QED BY <1>3, <1>5, <1>6

LEMMA CancelStarts ==
  ASSUME WaitInv, PollInv, tw_firing = {}, NEW w \in TWorks, k_work_poll_cancel(w),
         UNCHANGED used
  PROVE  PollersStep
<1>1. /\ twork[w].pc = "none" /\ BeginCancel(w, None)
      /\ UNCHANGED <<waitVars, objectVars, handler, prio, call>>
  BY DEF k_work_poll_cancel
<1>2. PICK c : c = None
  OBVIOUS
<1>3. /\ c \in Submits \cup {None} /\ BeginCancel(w, c)
      /\ c # None => /\ c.pc = "register" /\ c.ii = 1 /\ c.reg = 0 /\ Distinct(c.events)
  BY <1>1, <1>2
<1>4. UNCHANGED handling
  BY <1>1 DEF objectVars
<1> QED BY <1>1, <1>3, <1>4, WorkCancels

\* An event of an item is cleared by a call on it.
LEMMA WorkClearing ==
  ASSUME WaitInv, PollInv, NEW w \in TWorks, twork[w].pc \in {"cancel", "clear"},
         poll_events' = clear_event_registration(w, twork[w].events, twork[w].reg),
         twork' = [twork EXCEPT ![w].reg = Less(@)],
         UNCHANGED <<prio, waitVars, call, handling, used, state, is_polling, triggerVars,
                     tworkVars, handler>>
  PROVE  PollersStep
<1>1. /\ w \in Pollers /\ PollerTypes /\ ListsOK /\ tw_armed \cap tw_firing = {}
      /\ twork[w] \in WorkCalls /\ is_polling[w] \in BOOLEAN /\ Item(w) \in WorkItems
      /\ PollingWork(twork[w], States(w), is_polling[w], Listed(w), Item(w))
  BY InWork
<1>2. PICK c : c = twork[w]
  OBVIOUS
<1>3. PICK n : n = Less(c.reg)
  OBVIOUS
<1>4. PICK d : d = [c EXCEPT !.reg = n]
  OBVIOUS
<1>5. /\ c \in WorkCalls /\ c.pc \in {"cancel", "clear"} /\ c.events \in Seq(Pollables)
      /\ c.reg \in Nat
  BY <1>1, <1>2, WorkCallIs
<1>6. n \in Nat
  BY <1>3, <1>5 DEF Less
<1>7. /\ d \in WorkCalls /\ d.pc = c.pc /\ d.events = c.events /\ d.reg = Less(c.reg)
      /\ c.pc = "cancel" => d.then = c.then
  <2>1. CASE c.pc = "clear"
    <3>1. c \in Submits
      BY <1>5, <2>1, WorkCallIs
    <3> QED BY <1>3, <1>4, <1>6, <2>1, <3>1 DEF Submits, WorkCalls
  <2>2. CASE c.pc = "cancel"
    <3>1. c \in [pc : {"cancel"}, events : Seq(Pollables), reg : Nat, then : Submits \cup {None}]
      BY <1>5, <2>2 DEF WorkCalls, Submits
    <3> QED BY <1>3, <1>4, <1>6, <2>2, <3>1 DEF WorkCalls
  <2> QED BY <1>5, <2>1, <2>2
<1>8. twork' = [twork EXCEPT ![w] = d]
  BY <1>1, <1>2, <1>3, <1>4 DEF PollerTypes
<1>9. Holds(c.events, c.reg, States(w), Listed(w))
  <2>1. Item(w).workq
    BY <1>1, <1>2, <1>5 DEF PollingWork
  <2> QED BY <1>1, <1>2, <1>5, <2>1 DEF PollingWork, Extent
<1>10. Cleared(w, c.events, c.reg)
  BY <1>1, <1>2, <1>5, <1>9, ItemClears DEF Holds
<1>11. \A y \in Pollers : States(y)' = States(y) /\ is_polling'[y] = is_polling[y]
  BY DEF States
<1>12. PollerTypes'
  BY <1>1, <1>7, <1>8 DEF PollerTypes, triggerVars, tworkVars
<1>13. OneWork(w) /\ (tw_armed \cap tw_firing = {})' /\ Item(w)' = Item(w)
  BY <1>1, <1>8 DEF OneWork, PollerTypes, triggerVars, tworkVars, Item
<1>14. WorkPolls(w)'
  <2>1. \A o \in Listed(w)' : o \in Listed(w) /\ ~(c.reg # 0 /\ o = c.events[c.reg])
    BY <1>10 DEF Cleared
  <2>2. PollingWork(c, States(w), is_polling[w], Listed(w), Item(w)) /\ Item(w) \in WorkItems
    BY <1>1, <1>2
  <2>3. PollingWork(d, States(w), is_polling[w], Listed(w)', Item(w))
    BY <1>5, <1>7, <2>1, <2>2, WorkClears
  <2>4. twork'[w] = d
    BY <1>1, <1>8 DEF PollerTypes
  <2> QED BY <1>1, <1>11, <1>13, <2>3, <2>4 DEF WorkPolls
<1>15. /\ ListsOK' /\ \A y \in Pollers \ {w} : Listed(y)' = Listed(y)
       /\ \A o \in Pollables :
            poll_events'[o] # <<>> => poll_events[o] # <<>> \/ ~is_condition_met(o)
  BY <1>10 DEF Cleared
<1> QED BY <1>11, <1>12, <1>13, <1>14, <1>15, WorkOnly

LEMMA CancelSteps ==
  ASSUME WaitInv, PollInv, NEW w \in TWorks, CancelStep(w), UNCHANGED used
  PROVE  PollersStep
<1>1. /\ w \in Pollers /\ PollerTypes /\ ListsOK /\ tw_armed \cap tw_firing = {}
      /\ twork[w] \in WorkCalls /\ is_polling[w] \in BOOLEAN /\ Item(w) \in WorkItems
      /\ PollingWork(twork[w], States(w), is_polling[w], Listed(w), Item(w))
  BY InWork
<1>2. /\ twork[w].pc = "cancel" /\ UNCHANGED <<waitVars, handling, handler, prio, call>>
      /\ \/ /\ twork[w].reg > 0
            /\ poll_events' = clear_event_registration(w, twork[w].events, twork[w].reg)
            /\ twork' = [twork EXCEPT ![w].reg = Less(@)]
            /\ UNCHANGED <<state, is_polling, triggerVars, tworkVars>>
         \/ /\ twork[w].reg = 0 /\ twork[w].then = None
            /\ workq' = [workq EXCEPT ![w] = FALSE]
            /\ twork' = [twork EXCEPT ![w] = [pc |-> "none", events |-> <<>>]]
            /\ UNCHANGED <<eventVars, triggerVars, mode, tw_firing>>
         \/ /\ twork[w].reg = 0 /\ twork[w].then # None
            /\ TakeOwnership(w, twork[w].then)
            /\ UNCHANGED <<poll_events, tw_armed, queued, tw_firing>>
  BY DEF CancelStep, objectVars
<1>3. CASE twork[w].reg > 0
  BY <1>2, <1>3, WorkClearing
<1>4. CASE twork[w].reg = 0 /\ twork[w].then # None
  <2>1. PICK c : c = twork[w].then
    OBVIOUS
  <2>2. /\ c \in Submits /\ c.pc = "register" /\ c.ii = 1 /\ c.reg = 0 /\ Distinct(c.events)
    BY <1>1, <1>2, <1>4, <2>1, WorkCallIs DEF PollingWork
  <2>3. TakeOwnership(w, c) /\ UNCHANGED <<poll_events, tw_armed, queued, tw_firing>>
    BY <1>2, <1>4, <2>1
  <2> QED BY <1>2, <1>4, <2>2, <2>3, WorkOwned
<1>5. CASE twork[w].reg = 0 /\ twork[w].then = None
  <2>1. PICK d : d = [pc |-> "none", events |-> <<>>]
    OBVIOUS
  <2>2. /\ d \in WorkCalls /\ d.pc = "none" /\ Distinct(d.events)
    <3>1. <<>> \in Seq(Pollables) /\ Distinct(<<>>)
      BY EmptyList
    <3> QED BY <2>1, <3>1 DEF WorkCalls
  <2>3. /\ workq' = [workq EXCEPT ![w] = FALSE] /\ twork' = [twork EXCEPT ![w] = d]
        /\ UNCHANGED <<eventVars, triggerVars, mode, tw_firing>>
    BY <1>2, <1>5, <2>1
  <2>4. Listed(w) = {} /\ Uncalled(Item(w)) /\ ~Item(w).timed
    BY <1>1, <1>2, <1>5, WorkFree
  <2>5. /\ ListsOK'
        /\ \A y \in Pollers : /\ States(y)' = States(y) /\ Listed(y)' = Listed(y)
                              /\ is_polling'[y] = is_polling[y]
    BY <1>1, <2>3 DEF eventVars, ListsOK, States, Listed, On
  <2>6. PollerTypes'
    BY <1>1, <1>2, <2>2, <2>3 DEF PollerTypes, triggerVars, eventVars
  <2>7. OneWork(w) /\ (tw_armed \cap tw_firing = {})'
    BY <1>1, <1>2, <2>3 DEF OneWork, PollerTypes, triggerVars
  <2>8. PICK j : j = Item(w)'
    OBVIOUS
  <2>9. j \in WorkItems
    BY <2>6, <2>8 DEF PollerTypes, Item, WorkItems
  <2>10. ~workq'[w] /\ twork'[w] = d
    BY <1>1, <2>3 DEF PollerTypes
  <2>11. ~j.workq /\ ~j.timed /\ Uncalled(j)
    BY <1>2, <2>3, <2>4, <2>8, <2>10 DEF Item, Uncalled, triggerVars
  <2>12. WorkPolls(w)'
    <3>1. PollingWork(d, States(w)', is_polling'[w], {}, j)
      BY <2>2, <2>9, <2>11, WorkReleased
    <3>2. Listed(w)' = {}
      BY <1>1, <2>4, <2>5
    <3> QED BY <2>8, <2>10, <3>1, <3>2 DEF WorkPolls
  <2>13. poll_events' = poll_events
    BY <2>3 DEF eventVars
  <2> QED BY <1>2, <2>5, <2>6, <2>7, <2>12, <2>13, WorkOnly
<1> QED BY <1>2, <1>3, <1>4, <1>5

LEMMA SubmitRegisters ==
  ASSUME WaitInv, PollInv, NEW w \in TWorks, SubmitRegister(w), UNCHANGED used
  PROVE  PollersStep
<1>1. /\ w \in Pollers /\ PollerTypes /\ ListsOK /\ tw_armed \cap tw_firing = {}
      /\ twork[w] \in WorkCalls /\ is_polling[w] \in BOOLEAN /\ Item(w) \in WorkItems
      /\ PollingWork(twork[w], States(w), is_polling[w], Listed(w), Item(w))
  BY InWork
<1>2. PICK c : c = twork[w]
  OBVIOUS
<1>3. PICK d : d = Registered(w, c)
  OBVIOUS
<1>4. /\ c.pc = "register" /\ c.ii <= Len(c.events) /\ register_next(w, c)
      /\ twork' = [twork EXCEPT ![w] = d]
      /\ UNCHANGED <<waitVars, triggerVars, tworkVars, handling, handler, prio, call>>
  BY <1>2, <1>3 DEF SubmitRegister, objectVars
<1>5. c \in Submits /\ c \in WorkCalls
  BY <1>1, <1>2, <1>4, WorkCallIs
<1>6. /\ c.events \in Seq(Pollables) /\ c.reg \in Nat /\ c.ii \in Nat /\ c.just_check \in BOOLEAN
  BY <1>5 DEF Submits
<1>7. /\ d.events = c.events /\ d.ii = c.ii + 1 /\ d.just_check = c.just_check
      /\ d.reg = (IF poll_events'[c.events[c.ii]] # poll_events[c.events[c.ii]]
                    THEN c.reg + 1 ELSE c.reg)
      /\ d.pc = "register" /\ d \in Submits
  <2>1. PICK r \in Nat : r = IF poll_events'[c.events[c.ii]] # poll_events[c.events[c.ii]]
                               THEN c.reg + 1 ELSE c.reg
    BY <1>6
  <2>2. d = [[c EXCEPT !.ii = c.ii + 1] EXCEPT !.reg = r]
    BY <1>3, <1>5, <2>1 DEF Registered, Submits
  <2>3. PICK i \in Nat : i = c.ii + 1
    BY <1>6
  <2>4. PICK m : m = [c EXCEPT !.ii = i]
    OBVIOUS
  <2>5. /\ m \in Submits /\ m.events = c.events /\ m.ii = i /\ m.just_check = c.just_check
        /\ m.pc = c.pc
    BY ONLY <1>5, <2>4, i \in Nat DEF Submits
  <2>6. d = [m EXCEPT !.reg = r]
    BY <2>2, <2>3, <2>4
  <2>7. /\ d \in Submits /\ d.events = m.events /\ d.ii = m.ii /\ d.just_check = m.just_check
        /\ d.pc = m.pc /\ d.reg = r
    BY ONLY <2>5, <2>6, r \in Nat DEF Submits
  <2> QED BY <1>4, <2>1, <2>3, <2>5, <2>7
<1>8. d \in WorkCalls
  BY <1>7 DEF WorkCalls
<1>9. /\ Distinct(c.events) /\ Holds(c.events, c.reg, States(w), Listed(w))
      /\ Registering(c, States(w), is_polling[w], Listed(w))
      /\ Item(w).workq /\ Item(w).mode = "NONE" /\ Uncalled(Item(w)) /\ ~Item(w).timed
  BY <1>1, <1>2, <1>4, <1>5, WorkRegisters
<1>10. Turned(w, d) /\ \E added \in BOOLEAN : Turn(c, d, added)
  BY <1>1, <1>4, <1>6, <1>7, <1>9, RegisterNext
<1>11. /\ Registering(d, States(w)', is_polling'[w], Listed(w)')
       /\ Holds(d.events, d.reg, States(w)', Listed(w)')
       /\ ListsOK' /\ is_polling' \in [Pollers -> BOOLEAN]
       /\ state' \in [Events -> SUBSET {"AVAILABLE", "CANCELLED"}]
       /\ \A y \in Pollers \ {w} : /\ States(y)' = States(y) /\ Listed(y)' = Listed(y)
                                   /\ is_polling'[y] = is_polling[y]
       /\ \A o \in Pollables :
            poll_events'[o] # <<>> => poll_events[o] # <<>> \/ ~is_condition_met(o)
  BY <1>10 DEF Turned
<1>12. PollerTypes'
  BY <1>1, <1>4, <1>8, <1>11 DEF PollerTypes, triggerVars, tworkVars
<1>13. OneWork(w) /\ (tw_armed \cap tw_firing = {})' /\ Item(w)' = Item(w)
  BY <1>1, <1>4 DEF OneWork, PollerTypes, triggerVars, tworkVars, Item
<1>14. WorkPolls(w)'
  <2>1. PICK added : Turn(c, d, added)
    BY <1>10
  <2>2. PICK i : i = Item(w)
    OBVIOUS
  <2>3. i \in WorkItems /\ i.workq /\ i.mode = "NONE" /\ Uncalled(i) /\ ~i.timed
    BY <1>1, <1>9, <2>2
  <2>4. PollingWork(d, States(w)', is_polling'[w], Listed(w)', i)
    BY <1>5, <1>7, <1>8, <1>9, <1>11, <2>1, <2>3, WorkTurns
  <2>5. twork'[w] = d
    BY <1>1, <1>4 DEF PollerTypes
  <2> QED BY <1>13, <2>2, <2>4, <2>5 DEF WorkPolls
<1> QED BY <1>4, <1>11, <1>12, <1>13, <1>14, WorkOnly

LEMMA SubmitDecides ==
  ASSUME WaitInv, PollInv, tw_firing = {}, NEW w \in TWorks, SubmitDecide(w), UNCHANGED used
  PROVE  PollersStep
<1>1. /\ w \in Pollers /\ PollerTypes /\ ListsOK /\ tw_armed \cap tw_firing = {}
      /\ twork[w] \in WorkCalls /\ is_polling[w] \in BOOLEAN /\ Item(w) \in WorkItems
      /\ PollingWork(twork[w], States(w), is_polling[w], Listed(w), Item(w))
  BY InWork
<1>2. PICK c : c = twork[w]
  OBVIOUS
<1>3. /\ c.pc = "register" /\ c.ii > Len(c.events)
      /\ UNCHANGED <<waitVars, workq, queued, tw_firing, handling, handler, prio, call>>
      /\ \/ /\ Watches(w, c)
            /\ tw_armed' = IF c.timeout = "ticks" THEN tw_armed \cup {w} ELSE tw_armed
            /\ mode' = [mode EXCEPT ![w] = "TRIGGERED"]
            /\ twork' = [twork EXCEPT ![w] = [pc |-> "none", events |-> c.events]]
            /\ UNCHANGED <<eventVars, poll_result>>
         \/ /\ ~Watches(w, c)
            /\ poll_result' = [poll_result EXCEPT ![w] =
                 IF is_polling[w] THEN "-EAGAIN" ELSE "0"]
            /\ is_polling' = [is_polling EXCEPT ![w] = FALSE]
            /\ poll_events' = clear_event_registration(w, c.events, c.reg)
            /\ twork' = [twork EXCEPT ![w] = [c EXCEPT !.pc = "clear", !.reg = Less(@)]]
            /\ UNCHANGED <<state, mode, tw_armed>>
  BY <1>2 DEF SubmitDecide, objectVars
<1>4. c \in Submits /\ c \in WorkCalls /\ c.events \in Seq(Pollables) /\ c.reg \in Nat
  BY <1>1, <1>2, <1>3, WorkCallIs
<1>5. /\ Distinct(c.events) /\ Holds(c.events, c.reg, States(w), Listed(w))
      /\ Item(w).workq /\ Item(w).mode = "NONE" /\ Uncalled(Item(w)) /\ ~Item(w).timed
  BY <1>1, <1>2, <1>3, <1>4, WorkRegisters
<1>6. PICK i : i = Item(w)
  OBVIOUS
<1>7. PICK j : j = Item(w)'
  OBVIOUS
<1>8. PICK polling \in BOOLEAN : polling = is_polling[w]
  BY <1>1
<1>9. PollingWork(c, States(w), polling, Listed(w), i) /\ i \in WorkItems
  BY <1>1, <1>2, <1>6, <1>8
<1>10. CASE Watches(w, c)
  <2>1. PICK d : d = [pc |-> "none", events |-> c.events]
    OBVIOUS
  <2>2. d \in WorkCalls /\ d.pc = "none" /\ d.events = c.events
    BY <1>4, <2>1 DEF WorkCalls
  <2>3. /\ tw_armed' = IF c.timeout = "ticks" THEN tw_armed \cup {w} ELSE tw_armed
        /\ mode' = [mode EXCEPT ![w] = "TRIGGERED"] /\ twork' = [twork EXCEPT ![w] = d]
        /\ UNCHANGED <<eventVars, poll_result>>
    BY <1>3, <1>10, <2>1
  <2>4. /\ ListsOK' /\ poll_events' = poll_events
        /\ \A y \in Pollers : /\ States(y)' = States(y) /\ Listed(y)' = Listed(y)
                              /\ is_polling'[y] = is_polling[y]
    BY <1>1, <2>3 DEF eventVars, ListsOK, States, Listed, On
  <2>5. PollerTypes'
    BY <1>1, <1>3, <2>2, <2>3 DEF PollerTypes, eventVars
  <2>6. OneWork(w) /\ (tw_armed \cap tw_firing = {})'
    BY <1>1, <1>3, <2>3 DEF OneWork, PollerTypes
  <2>7. j \in WorkItems
    BY <1>7, <2>5 DEF PollerTypes, Item, WorkItems
  <2>8. /\ j.workq = i.workq /\ j.mode = "TRIGGERED" /\ j.queued = i.queued
        /\ j.handler = i.handler
    <3>1. mode'[w] = "TRIGGERED"
      BY <1>1, <2>3 DEF PollerTypes
    <3> QED BY <1>3, <1>6, <1>7, <3>1 DEF Item
  <2>9. polling = TRUE
    BY <1>8, <1>10 DEF Watches
  <2>10. PollingWork(d, States(w), TRUE, Listed(w), j)
    BY <1>3, <1>4, <1>9, <2>2, <2>7, <2>8, <2>9, WorkWatches
  <2>11. twork'[w] = d /\ is_polling'[w] = TRUE
    BY <1>1, <1>8, <2>3, <2>4, <2>9 DEF PollerTypes
  <2>12. WorkPolls(w)'
    BY <1>1, <1>7, <2>4, <2>10, <2>11 DEF WorkPolls
  <2> QED BY <1>3, <2>4, <2>5, <2>6, <2>12, WorkOnly
<1>11. CASE ~Watches(w, c)
  <2>1. PICK n : n = Less(c.reg)
    OBVIOUS
  <2>2. n \in Nat
    BY <1>4, <2>1 DEF Less
  <2>3. PICK d : d = [c EXCEPT !.pc = "clear", !.reg = n]
    OBVIOUS
  <2>4. /\ d \in Submits /\ d.pc = "clear" /\ d.events = c.events /\ d.reg = Less(c.reg)
    BY <1>4, <2>1, <2>2, <2>3 DEF Submits
  <2>5. d \in WorkCalls
    BY <2>4 DEF WorkCalls
  <2>6. PICK r : r = IF polling THEN "-EAGAIN" ELSE "0"
    OBVIOUS
  <2>7. /\ poll_result' = [poll_result EXCEPT ![w] = r]
        /\ is_polling' = [is_polling EXCEPT ![w] = FALSE]
        /\ poll_events' = clear_event_registration(w, c.events, c.reg)
        /\ twork' = [twork EXCEPT ![w] = d]
        /\ UNCHANGED <<state, mode, tw_armed>>
    BY <1>3, <1>4, <1>8, <1>11, <2>1, <2>3, <2>6 DEF Submits
  <2>8. Cleared(w, c.events, c.reg)
    BY <1>1, <1>4, <1>5, <2>7, ItemClears DEF Holds
  <2>9. /\ ListsOK' /\ \A y \in Pollers \ {w} : Listed(y)' = Listed(y)
        /\ \A o \in Listed(w)' : o \in Listed(w) /\ ~(c.reg # 0 /\ o = c.events[c.reg])
        /\ \A o \in Pollables :
             poll_events'[o] # <<>> => poll_events[o] # <<>> \/ ~is_condition_met(o)
    BY <2>8 DEF Cleared
  <2>10. \A y \in Pollers : States(y)' = States(y)
    BY <2>7 DEF States
  <2>11. r \in {"0", "-EAGAIN", "-EINPROGRESS"}
    BY <2>6
  <2>12. PollerTypes'
    BY <1>1, <1>3, <2>5, <2>7, <2>11 DEF PollerTypes
  <2>13. OneWork(w) /\ (tw_armed \cap tw_firing = {})'
    BY <1>1, <1>3, <2>7 DEF OneWork, PollerTypes
  <2>14. j \in WorkItems
    BY <1>7, <2>12 DEF PollerTypes, Item, WorkItems
  <2>15. /\ j.workq = i.workq /\ j.mode = i.mode /\ j.queued = i.queued
         /\ j.handler = i.handler /\ j.timed = i.timed
         /\ j.result = (IF polling THEN "-EAGAIN" ELSE "0")
    <3>1. poll_result'[w] = r
      BY <1>1, <2>7 DEF PollerTypes
    <3> QED BY <1>3, <1>6, <1>7, <2>6, <2>7, <3>1 DEF Item
  <2>16. PollingWork(d, States(w), FALSE, Listed(w)', j)
    BY <1>3, <1>4, <1>9, <2>4, <2>5, <2>9, <2>14, <2>15, WorkDecides
  <2>17. /\ twork'[w] = d /\ is_polling'[w] = FALSE
         /\ \A y \in Pollers \ {w} : is_polling'[y] = is_polling[y]
    BY <1>1, <2>7 DEF PollerTypes
  <2>18. WorkPolls(w)'
    BY <1>1, <1>7, <2>10, <2>16, <2>17 DEF WorkPolls
  <2> QED BY <1>3, <2>9, <2>10, <2>12, <2>13, <2>17, <2>18, WorkOnly
<1> QED BY <1>10, <1>11

LEMMA SubmitClears ==
  ASSUME WaitInv, PollInv, NEW w \in TWorks, SubmitClear(w), UNCHANGED used
  PROVE  PollersStep
<1>1. /\ w \in Pollers /\ PollerTypes /\ ListsOK /\ tw_armed \cap tw_firing = {}
      /\ twork[w] \in WorkCalls /\ is_polling[w] \in BOOLEAN /\ Item(w) \in WorkItems
      /\ PollingWork(twork[w], States(w), is_polling[w], Listed(w), Item(w))
  BY InWork
<1>2. PICK c : c = twork[w]
  OBVIOUS
<1>3. /\ c.pc = "clear"
      /\ UNCHANGED <<waitVars, state, is_polling, poll_result, tw_armed, tworkVars, handling,
                     handler, prio, call>>
      /\ \/ /\ c.reg > 0
            /\ poll_events' = clear_event_registration(w, c.events, c.reg)
            /\ twork' = [twork EXCEPT ![w].reg = Less(@)]
            /\ UNCHANGED queued
         \/ /\ c.reg = 0
            /\ queued' = queued \cup {w}
            /\ twork' = [twork EXCEPT ![w] = [pc |-> "none", events |-> c.events]]
            /\ UNCHANGED poll_events
  BY <1>2 DEF SubmitClear, objectVars
<1>4. CASE /\ c.reg > 0
           /\ poll_events' = clear_event_registration(w, c.events, c.reg)
           /\ twork' = [twork EXCEPT ![w].reg = Less(@)]
           /\ UNCHANGED queued
  BY <1>2, <1>3, <1>4, WorkClearing DEF triggerVars
<1>5. CASE /\ c.reg = 0
           /\ queued' = queued \cup {w}
           /\ twork' = [twork EXCEPT ![w] = [pc |-> "none", events |-> c.events]]
           /\ UNCHANGED poll_events
  <2>1. PICK d : d = [pc |-> "none", events |-> c.events]
    OBVIOUS
  <2>2. d \in WorkCalls /\ d.pc = "none" /\ d.events = c.events /\ c \in WorkCalls
    BY <1>1, <1>2, <2>1, WorkCallIs DEF WorkCalls
  <2>3. twork' = [twork EXCEPT ![w] = d]
    BY <1>5, <2>1
  <2>4. /\ ListsOK'
        /\ \A y \in Pollers : /\ States(y)' = States(y) /\ Listed(y)' = Listed(y)
                              /\ is_polling'[y] = is_polling[y]
    BY <1>1, <1>3, <1>5 DEF ListsOK, States, Listed, On
  <2>5. PollerTypes'
    BY <1>1, <1>3, <1>5, <2>2, <2>3 DEF PollerTypes, tworkVars
  <2>6. OneWork(w) /\ (tw_armed \cap tw_firing = {})'
    BY <1>1, <1>3, <1>5, <2>3 DEF OneWork, PollerTypes, tworkVars
  <2>7. PICK i : i = Item(w)
    OBVIOUS
  <2>8. PICK j : j = Item(w)'
    OBVIOUS
  <2>9. j \in WorkItems /\ i \in WorkItems
    BY <1>1, <2>5, <2>7, <2>8 DEF PollerTypes, Item, WorkItems
  <2>10. /\ j.workq = i.workq /\ j.mode = i.mode /\ j.handler = i.handler /\ j.timed = i.timed
         /\ j.result = i.result /\ j.queued
    BY <1>3, <1>5, <2>7, <2>8 DEF Item, tworkVars
  <2>11. PollingWork(c, States(w), is_polling[w], Listed(w), i)
    BY <1>1, <1>2, <2>7
  <2>12. PollingWork(d, States(w), is_polling[w], Listed(w), j)
    BY <1>3, <1>5, <2>2, <2>9, <2>10, <2>11, WorkSubmitted
  <2>13. WorkPolls(w)'
    <3>1. twork'[w] = d
      BY <1>1, <2>3 DEF PollerTypes
    <3> QED BY <1>1, <2>4, <2>8, <2>12, <3>1 DEF WorkPolls
  <2> QED BY <1>3, <1>5, <2>4, <2>5, <2>6, <2>13, WorkOnly
<1> QED BY <1>3, <1>4, <1>5

\* triggered_work_handler clears event n.
LEMMA HandlerClears ==
  ASSUME WaitInv, PollInv, NEW w \in TWorks, NEW n \in Nat,
         \/ /\ w \in queued /\ handler[w] = NotRunning
            /\ n = IF mode[w] = "NONE" THEN 0 ELSE Len(twork[w].events)
         \/ handler[w] # NotRunning /\ n = handler[w],
         queued' = queued \ {w}, handler' = [handler EXCEPT ![w] = Less(n)],
         poll_events' = clear_event_registration(w, twork[w].events, n),
         UNCHANGED <<waitVars, state, is_polling, poll_result, tw_armed, tworkVars, handling,
                     twork, prio, call, used>>
  PROVE  PollersStep
<1>1. /\ w \in Pollers /\ PollerTypes /\ ListsOK /\ tw_armed \cap tw_firing = {}
      /\ twork[w] \in WorkCalls /\ is_polling[w] \in BOOLEAN /\ Item(w) \in WorkItems
      /\ PollingWork(twork[w], States(w), is_polling[w], Listed(w), Item(w))
  BY InWork
<1>2. PICK c : c = twork[w]
  OBVIOUS
<1>3. PICK i : i = Item(w)
  OBVIOUS
<1>4. PICK j : j = Item(w)'
  OBVIOUS
<1>5. c \in WorkCalls /\ c.events \in Seq(Pollables)
  BY <1>1, <1>2, WorkCallIs
<1>6. /\ i.queued <=> w \in queued
      /\ i.handler = handler[w] /\ i.mode = mode[w]
      /\ PollingWork(c, States(w), is_polling[w], Listed(w), i) /\ i \in WorkItems
  BY <1>1, <1>2, <1>3 DEF Item
<1>7. \/ /\ i.queued /\ i.handler = NotRunning
         /\ n = IF i.mode = "NONE" THEN 0 ELSE Len(c.events)
      \/ i.handler # NotRunning /\ n = i.handler
  BY <1>2, <1>6
<1>8. n <= Len(c.events)
  <2>1. CASE i.queued /\ i.handler = NotRunning
    BY <1>5, <1>7, <2>1
  <2>2. CASE i.handler # NotRunning
    <3>1. i.workq /\ c.pc = "none"
      BY <1>6, <2>2 DEF PollingWork, Uncalled
    <3>2. Extent(c, i) = n
      BY <1>7, <2>2, <3>1 DEF Extent
    <3> QED BY <1>6, <3>2 DEF PollingWork, Holds
  <2> QED BY <1>7, <2>1, <2>2
<1>9. Cleared(w, c.events, n)
  BY <1>1, <1>2, <1>5, <1>8, ItemClears
<1>10. /\ ListsOK' /\ \A y \in Pollers \ {w} : Listed(y)' = Listed(y)
       /\ \A o \in Listed(w)' : o \in Listed(w) /\ ~(n # 0 /\ o = c.events[n])
       /\ \A o \in Pollables :
            poll_events'[o] # <<>> => poll_events[o] # <<>> \/ ~is_condition_met(o)
  BY <1>9 DEF Cleared
<1>11. \A y \in Pollers : States(y)' = States(y) /\ is_polling'[y] = is_polling[y]
  BY DEF States
<1>12. Less(n) \in Nat
  BY DEF Less
<1>13. PollerTypes'
  BY <1>1, <1>12 DEF PollerTypes, tworkVars
<1>14. OneWork(w) /\ (tw_armed \cap tw_firing = {})'
  BY <1>1 DEF OneWork, PollerTypes, tworkVars
<1>15. j \in WorkItems
  BY <1>4, <1>13 DEF PollerTypes, Item, WorkItems
<1>16. /\ j.workq = i.workq /\ j.mode = i.mode /\ j.timed = i.timed /\ j.result = i.result
       /\ ~j.queued /\ j.handler = Less(n)
  <2>1. handler'[w] = Less(n) /\ w \notin queued'
    BY <1>1 DEF PollerTypes
  <2> QED BY <1>3, <1>4, <2>1 DEF Item, tworkVars
<1>17. c.pc = "none" /\ PollingWork(c, States(w), is_polling[w], Listed(w)', j)
  BY <1>5, <1>6, <1>7, <1>10, <1>15, <1>16, WorkHandled
<1>18. WorkPolls(w)'
  BY <1>1, <1>2, <1>4, <1>11, <1>17 DEF WorkPolls
<1> QED BY <1>10, <1>11, <1>13, <1>14, <1>18, WorkOnly

LEMMA HandlerStarts ==
  ASSUME WaitInv, PollInv, NEW w \in TWorks, HandlerStart(w), UNCHANGED used
  PROVE  PollersStep
<1>1. PICK n : n = IF mode[w] = "NONE" THEN 0 ELSE Len(twork[w].events)
  OBVIOUS
<1>2. twork[w].events \in Seq(Pollables)
  BY InWork, WorkCallIs
<1>3. n \in Nat
  BY <1>1, <1>2
<1>4. /\ w \in queued /\ handler[w] = NotRunning /\ queued' = queued \ {w}
      /\ poll_events' = clear_event_registration(w, twork[w].events, n)
      /\ handler' = [handler EXCEPT ![w] = Less(n)]
      /\ UNCHANGED <<waitVars, state, is_polling, poll_result, tw_armed, tworkVars, handling,
                     twork, prio, call>>
  BY <1>1 DEF HandlerStart, objectVars
<1> QED BY <1>1, <1>3, <1>4, HandlerClears

LEMMA HandlerSteps ==
  ASSUME WaitInv, PollInv, NEW w \in TWorks, HandlerStep(w), UNCHANGED used
  PROVE  PollersStep
<1>1. /\ w \in Pollers /\ PollerTypes /\ ListsOK /\ tw_armed \cap tw_firing = {}
      /\ twork[w] \in WorkCalls /\ is_polling[w] \in BOOLEAN /\ Item(w) \in WorkItems
      /\ PollingWork(twork[w], States(w), is_polling[w], Listed(w), Item(w))
  BY InWork
<1>2. /\ handler[w] # NotRunning
      /\ \/ /\ handler[w] > 0
            /\ poll_events' = clear_event_registration(w, twork[w].events, handler[w])
            /\ handler' = [handler EXCEPT ![w] = Less(@)]
            /\ UNCHANGED workq
         \/ /\ handler[w] = 0
            /\ workq' = [workq EXCEPT ![w] = FALSE]
            /\ handler' = [handler EXCEPT ![w] = NotRunning]
            /\ UNCHANGED poll_events
      /\ UNCHANGED <<waitVars, state, is_polling, triggerVars, mode, tw_firing, handling,
                     twork, prio, call>>
  BY DEF HandlerStep, objectVars
<1>3. CASE handler[w] > 0
  <2>1. PICK n : n = handler[w]
    OBVIOUS
  <2>2. n \in Nat
    BY <1>1, <1>2, <2>1 DEF PollerTypes
  <2>3. w \notin queued
    <3>1. Item(w).handler = handler[w] /\ (Item(w).queued <=> w \in queued)
      BY DEF Item
    <3>2. ~Uncalled(Item(w))
      BY <1>2, <3>1 DEF Uncalled
    <3>3. Comes(twork[w], States(w), is_polling[w], Item(w))
      BY <1>1, <3>2 DEF PollingWork
    <3> QED BY <1>2, <3>1, <3>3 DEF Comes
  <2>4. /\ poll_events' = clear_event_registration(w, twork[w].events, n)
        /\ handler' = [handler EXCEPT ![w] = Less(n)] /\ UNCHANGED workq
    BY <1>1, <1>2, <1>3, <2>1 DEF PollerTypes
  <2>5. /\ queued' = queued \ {w} /\ handler[w] # NotRunning /\ n = handler[w]
        /\ UNCHANGED <<waitVars, state, is_polling, poll_result, tw_armed, tworkVars, handling,
                       twork, prio, call>>
    BY <1>2, <2>1, <2>3, <2>4 DEF triggerVars, tworkVars
  <2> QED BY <2>2, <2>4, <2>5, HandlerClears
<1>4. CASE handler[w] = 0
  <2>1. /\ workq' = [workq EXCEPT ![w] = FALSE] /\ handler' = [handler EXCEPT ![w] = NotRunning]
        /\ UNCHANGED poll_events
    BY <1>2, <1>4
  <2>2. /\ ListsOK'
        /\ \A y \in Pollers : /\ States(y)' = States(y) /\ Listed(y)' = Listed(y)
                              /\ is_polling'[y] = is_polling[y]
    BY <1>1, <1>2, <2>1 DEF ListsOK, States, Listed, On
  <2>3. PollerTypes'
    BY <1>1, <1>2, <2>1 DEF PollerTypes, triggerVars
  <2>4. OneWork(w) /\ (tw_armed \cap tw_firing = {})'
    BY <1>1, <1>2, <2>1 DEF OneWork, PollerTypes, triggerVars
  <2>5. PICK i : i = Item(w)
    OBVIOUS
  <2>6. PICK j : j = Item(w)'
    OBVIOUS
  <2>7. j \in WorkItems /\ i \in WorkItems
    BY <1>1, <2>3, <2>5, <2>6 DEF PollerTypes, Item, WorkItems
  <2>8. /\ i.handler = 0 /\ ~j.workq /\ j.timed = i.timed /\ j.queued = i.queued
        /\ j.handler = NotRunning
    <3>1. workq'[w] = FALSE /\ handler'[w] = NotRunning
      BY <1>1, <2>1 DEF PollerTypes
    <3> QED BY <1>2, <1>4, <2>5, <2>6, <3>1 DEF Item, triggerVars
  <2>9. PollingWork(twork[w], States(w), is_polling[w], Listed(w), j)
    <3>1. PollingWork(twork[w], States(w), is_polling[w], Listed(w), i)
      BY <1>1, <2>5
    <3> QED BY <1>1, <2>7, <2>8, <3>1, WorkDone
  <2>10. WorkPolls(w)'
    BY <1>1, <1>2, <2>2, <2>6, <2>9 DEF WorkPolls
  <2> QED BY <1>2, <2>1, <2>2, <2>3, <2>4, <2>10, WorkOnly
<1> QED BY <1>2, <1>3, <1>4

LEMMA ExpireWorks ==
  ASSUME WaitInv, PollInv, NEW w \in TWorks, ExpireWork(w), UNCHANGED used
  PROVE  PollersStep
<1>1. /\ w \in Pollers /\ PollerTypes /\ ListsOK /\ tw_armed \cap tw_firing = {}
      /\ PollingWork(twork[w], States(w), is_polling[w], Listed(w), Item(w))
  BY InWork
<1>2. /\ w \in tw_armed /\ tw_armed' = tw_armed \ {w} /\ tw_firing' = tw_firing \cup {w}
      /\ UNCHANGED <<waitVars, eventVars, poll_result, queued, mode, workq, handling, twork,
                     handler, prio, call>>
  BY DEF ExpireWork, objectVars, restVars
<1>3. /\ ListsOK' /\ poll_events' = poll_events
      /\ \A y \in Pollers : /\ States(y)' = States(y) /\ Listed(y)' = Listed(y)
                            /\ is_polling'[y] = is_polling[y]
  BY <1>1, <1>2 DEF eventVars, ListsOK, States, Listed, On
<1>4. PollerTypes'
  BY <1>1, <1>2 DEF PollerTypes, eventVars
<1>5. OneWork(w) /\ (tw_armed \cap tw_firing = {})'
  BY <1>1, <1>2 DEF OneWork
<1>6. Item(w)' = Item(w)
  BY <1>2 DEF Item
<1>7. WorkPolls(w)'
  BY <1>1, <1>2, <1>3, <1>6 DEF WorkPolls
<1> QED BY <1>2, <1>3, <1>4, <1>5, <1>7, WorkOnly

LEMMA WorkTimeouts ==
  ASSUME WaitInv, PollInv, NEW w \in TWorks, triggered_work_expiration_handler(w),
         UNCHANGED used
  PROVE  PollersStep
<1>1. /\ w \in Pollers /\ PollerTypes /\ ListsOK /\ tw_armed \cap tw_firing = {}
      /\ twork[w] \in WorkCalls /\ Item(w) \in WorkItems
      /\ PollingWork(twork[w], States(w), is_polling[w], Listed(w), Item(w))
  BY InWork
<1>2. /\ w \in tw_firing /\ tw_firing' = tw_firing \ {w}
      /\ is_polling' = [is_polling EXCEPT ![w] = FALSE]
      /\ poll_result' = [poll_result EXCEPT ![w] = "-EAGAIN"]
      /\ queued' = IF workq[w] THEN queued \cup {w} ELSE queued
      /\ UNCHANGED <<waitVars, poll_events, state, tw_armed, mode, workq, handling, twork,
                     handler, prio, call>>
  BY DEF triggered_work_expiration_handler, objectVars, restVars, Stopped
<1>3. PICK i : i = Item(w)
  OBVIOUS
<1>4. PICK j : j = Item(w)'
  OBVIOUS
<1>5. workq[w] /\ i.timed /\ i.workq = workq[w]
  <2>1. Item(w).timed /\ Item(w).workq = workq[w]
    BY <1>2 DEF Item
  <2> QED BY <1>1, <1>3, <2>1 DEF PollingWork, Sleeps
<1>6. queued' = queued \cup {w}
  BY <1>2, <1>5
<1>7. /\ ListsOK'
      /\ \A y \in Pollers : States(y)' = States(y) /\ Listed(y)' = Listed(y)
  BY <1>1, <1>2 DEF ListsOK, States, Listed, On
<1>8. PollerTypes'
  BY <1>1, <1>2, <1>6 DEF PollerTypes
<1>9. OneWork(w) /\ (tw_armed \cap tw_firing = {})'
  BY <1>1, <1>2, <1>6 DEF OneWork, PollerTypes
<1>10. /\ is_polling'[w] = FALSE /\ \A y \in Pollers \ {w} : is_polling'[y] = is_polling[y]
  BY <1>1, <1>2 DEF PollerTypes
<1>11. j \in WorkItems /\ i \in WorkItems
  BY <1>1, <1>3, <1>4, <1>8 DEF PollerTypes, Item, WorkItems
<1>12. /\ j.workq = i.workq /\ j.mode = i.mode /\ j.handler = i.handler /\ ~j.timed
       /\ j.result = "-EAGAIN" /\ j.queued
  <2>1. poll_result'[w] = "-EAGAIN" /\ w \notin tw_armed' \cup tw_firing'
    BY <1>1, <1>2 DEF PollerTypes
  <2> QED BY <1>2, <1>3, <1>4, <1>6, <2>1 DEF Item
<1>13. PollingWork(twork[w], States(w), FALSE, Listed(w), j)
  <2>1. PollingWork(twork[w], States(w), is_polling[w], Listed(w), i)
    BY <1>1, <1>3
  <2> QED BY <1>1, <1>5, <1>11, <1>12, <2>1, WorkExpires
<1>14. WorkPolls(w)'
  BY <1>1, <1>2, <1>4, <1>7, <1>10, <1>13 DEF WorkPolls
<1> QED BY <1>2, <1>7, <1>8, <1>9, <1>10, <1>14, WorkOnly

-----------------------------------------------------------------------------
(* The actions of objects, as far as threads wait for them *)

\* Threads pend on o, are woken there, or begin or end a call on it.
Uses(c, o) ==
  c.op = "idle" \/ (c.op = "poll" /\ o = poll_wait_q) \/ (c.op \notin {"idle", "poll"} /\ c.obj = o)

Locally(o) ==
  /\ \A a \in Objects \ {o} : wait_q'[a] = wait_q[a]
  /\ \A t \in Threads :
       \/ /\ call'[t] = call[t] /\ pended_on'[t] = pended_on[t]
          /\ swap_retval'[t] = swap_retval[t]
       \/ Uses(call[t], o) /\ Uses(call'[t], o)

\* Objects that threads wait for, other than in k_poll.
Waitables == Objects \ {poll_wait_q}

LEMMA WaitCallIs ==
  ASSUME NEW c \in WaitCalls \cup EventCalls
  PROVE  /\ c.op \notin {"idle", "poll"} /\ c \in Calls /\ c.obj \in Waitables
BY KindsDiffer, PollEventsAssumption, StackAssumption, MemSlabAssumption, EventAssumption
   DEF WaitCalls, EventCalls, Calls, Waitables

LEMMA CallPends ==
  ASSUME WaitInv, PollInv, firing = None, UNCHANGED <<pollerVars, prio, handling>>,
         NEW t \in Threads, NEW o \in Waitables, NEW timeout, Running(t),
         NEW c \in WaitCalls \cup EventCalls, c.obj = o,
         z_pend_curr(t, o, timeout, prio), call' = [call EXCEPT ![t] = c]
  PROVE  WaitInv' /\ PollInv' /\ Locally(o) /\ Pended(t, o, timeout) /\ call'[t] = c
<1>1. PollerTypes /\ o \in Objects /\ None \notin Objects
  BY KindsDiffer DEF PollInv, Waitables
<1>2. c.op \notin {"idle", "poll"} /\ c \in Calls
  BY WaitCallIs
<1>3. /\ call' \in [Threads -> Calls] /\ call'[t] = c
      /\ \A u \in Threads \ {t} : call'[u] = call[u]
  BY <1>1, <1>2 DEF PollerTypes
<1>4. call[t].op = "idle" /\ pended_on[t] = None /\ t \notin armed
  <2>1. call[t].op = "idle"
    BY DEF Running, Idle
  <2> QED BY <2>1 DEF WaitInv, Pends, Pending
<1>5. Pended(t, o, timeout)
  BY <1>1, <1>4, PendWaits DEF WaitInv
<1>6. WaitInv'
  <2>1. \A u \in Threads \ {t} : Pends(u)'
    BY <1>3, <1>5 DEF WaitInv, Pends, Pended
  <2>2. pended_on'[t] = o /\ swap_retval'[t] = "-EAGAIN"
    BY <1>5 DEF Pended
  <2>3. Pends(t)'
    BY <1>1, <1>2, <1>3, <2>2 DEF Pends, Pending
  <2> QED BY <1>5, <2>1, <2>3 DEF WaitInv, Pended
<1>7. \A u \in Threads : Aside(u)
  BY <1>2, <1>3, <1>4, <1>5 DEF Aside, Pended
<1>8. PollInv'
  BY <1>1, <1>3, <1>7, ObjectStep DEF PollerTypes
<1>9. Locally(o)
  BY <1>2, <1>3, <1>4, <1>5 DEF Locally, Uses, Pended
<1> QED BY <1>3, <1>5, <1>6, <1>8, <1>9

LEMMA CallWakes ==
  ASSUME WaitInv, PollInv, firing = None, UNCHANGED <<pollerVars, prio, call>>,
         handling' \in [Pollables -> {None, "AVAILABLE", "CANCELLED"}],
         NEW o \in Waitables, NEW ts, Unpended(ts, o), ts \in SUBSET ToSet(wait_q[o])
  PROVE  WaitInv' /\ PollInv' /\ Locally(o)
<1>1. PollerTypes /\ o \in Objects /\ None \notin Objects
  BY KindsDiffer DEF PollInv, Waitables
<1>2. WaitInv'
  BY WakeKeeps
<1>3. \A u \in Threads : u \in ts => call[u].op \notin {"idle", "poll"} /\ call[u].obj = o
  <2> TAKE u \in Threads
  <2>1. u \in ts => pended_on[u] = o
    BY <1>1 DEF WaitInv, WaitLists
  <2> QED BY <1>1, <2>1 DEF WaitInv, Pends, Pending, Waitables
<1>4. \A u \in Threads : Aside(u)
  BY <1>3 DEF Aside, Unpended
<1>5. PollInv'
  BY <1>1, <1>4, ObjectStep DEF PollerTypes
<1>6. Locally(o)
  BY <1>3 DEF Locally, Uses, Unpended
<1> QED BY <1>2, <1>5, <1>6

LEMMA CallReturns ==
  ASSUME WaitInv, PollInv, UNCHANGED <<pollerVars, prio, waitVars, handling>>,
         NEW t \in Threads, NEW ops \in SUBSET {"take", "put", "get", "qget", "pop", "alloc", "event"},
         Returning(t, ops), call' = [call EXCEPT ![t] = Idle]
  PROVE  WaitInv' /\ PollInv' /\ Locally(call[t].obj) /\ call'[t] = Idle
<1>1. PollerTypes /\ call[t].op \in ops /\ pended_on[t] = None
  BY DEF PollInv, Returning
<1>2. /\ call' \in [Threads -> Calls] /\ call'[t] = Idle
      /\ \A u \in Threads \ {t} : call'[u] = call[u]
  BY <1>1 DEF PollerTypes, Calls
<1>3. WaitInv'
  BY <1>1, <1>2, ThreadMoves
<1>4. call[t].op \notin {"idle", "poll"} /\ call'[t].op = "idle"
  BY <1>1, <1>2 DEF Idle
<1>5. \A u \in Threads : Aside(u)
  BY <1>2, <1>4 DEF Aside, waitVars
<1>6. PollInv'
  BY <1>1, <1>2, <1>5, ObjectStep DEF PollerTypes
<1>7. Locally(call[t].obj)
  BY <1>2, <1>4 DEF Locally, Uses, waitVars
<1> QED BY <1>2, <1>3, <1>6, <1>7

LEMMA CallAlone ==
  ASSUME WaitInv, PollInv, UNCHANGED <<pollerVars, prio, waitVars, call>>, NEW o,
         handling' \in [Pollables -> {None, "AVAILABLE", "CANCELLED"}]
  PROVE  WaitInv' /\ PollInv' /\ Locally(o)
<1>1. WaitInv'
  BY SameWaits
<1>2. \A u \in Threads : Aside(u)
  BY DEF Aside, waitVars
<1>3. PollInv'
  BY <1>2, ObjectStep DEF PollInv, PollerTypes
<1> QED BY <1>1, <1>3 DEF Locally, waitVars

\* The first waiting thread is woken.
LEMMA HeadWakes ==
  ASSUME WaitInv, PollInv, firing = None, UNCHANGED <<pollerVars, prio, call>>,
         handling' \in [Pollables -> {None, "AVAILABLE", "CANCELLED"}],
         NEW o \in Waitables, wait_q[o] # <<>>, WakeWith({Head(wait_q[o])}, o, "0")
  PROVE  /\ WaitInv' /\ PollInv' /\ Locally(o)
         /\ \E h \in Threads : /\ h = Head(wait_q[o]) /\ Woken({h}, o, "0")
                               /\ pended_on[h] = o
                               /\ call[h].op \notin {"idle", "poll"} /\ call[h].obj = o
<1>1. o \in Objects /\ WaitLists /\ "0" \in Rets /\ None \notin Objects
  BY KindsDiffer DEF Waitables, WaitInv, Rets
<1>2. PICK h : h = Head(wait_q[o])
  OBVIOUS
<1>3. h \in Threads /\ {h} \in SUBSET ToSet(wait_q[o]) /\ pended_on[h] = o
  BY <1>1, <1>2, HeadWaits
<1>4. Woken({h}, o, "0")
  BY <1>1, <1>2, <1>3, WakeWithWaits
<1>5. WaitInv' /\ PollInv' /\ Locally(o)
  BY <1>3, <1>4, CallWakes DEF Woken
<1>6. call[h].op \notin {"idle", "poll"} /\ call[h].obj = o
  BY <1>1, <1>3 DEF WaitInv, Pends, Pending, Waitables
<1> QED BY <1>2, <1>3, <1>4, <1>5, <1>6

\* What a thread waits for tells its call.
LEMMA WaitsFor ==
  ASSUME NEW c \in Calls, c.op \notin {"idle", "poll"}
  PROVE  /\ c.obj \in Sems <=> c.op = "take"
         /\ c.obj \in MsgQs <=> c.op \in {"put", "get"}
         /\ c.obj \in Queues <=> c.op = "qget"
         /\ c.obj \in Stacks <=> c.op = "pop"
         /\ c.obj \in Slabs <=> c.op = "alloc"
         /\ c.obj \in EventObjs <=> c.op = "event" 
         /\ c.obj \in Waitables
BY WaitCallIs, PollEventsAssumption, PollAssumption
   DEF Calls, WaitCalls, EventCalls, PollCalls, Idle, Plain, Pollables

LEMMA KindsApart ==
  /\ Sems \subseteq Waitables /\ MsgQs \subseteq Waitables /\ Queues \subseteq Waitables
  /\ Stacks \subseteq Waitables /\ Slabs \subseteq Waitables /\ EventObjs \subseteq Waitables
  /\ Sems \subseteq Pollables /\ MsgQs \subseteq Pollables /\ Queues \subseteq Pollables
  /\ Signals \subseteq Pollables
  /\ Sems \cap (MsgQs \cup Queues \cup Signals \cup Stacks \cup Slabs \cup EventObjs) = {}
  /\ MsgQs \cap (Queues \cup Signals \cup Stacks \cup Slabs \cup EventObjs) = {}
  /\ Queues \cap (Signals \cup Stacks \cup Slabs \cup EventObjs) = {}
  /\ Stacks \cap (Slabs \cup EventObjs) = {} /\ Slabs \cap EventObjs = {}
  /\ poll_wait_q \notin Sems \cup MsgQs \cup Queues \cup Stacks \cup Slabs \cup EventObjs
BY PollEventsAssumption, PollAssumption, StackAssumption, MemSlabAssumption, EventAssumption
   DEF Waitables, Pollables, Plain

\* A condition of one object.
LEMMA MetIs ==
  /\ \A o \in Sems : /\ is_condition_met(o) <=> count[o] > 0
                     /\ is_condition_met(o)' <=> count'[o] > 0
  /\ \A o \in MsgQs : /\ is_condition_met(o) <=> used_msgs[o] > 0
                      /\ is_condition_met(o)' <=> used_msgs'[o] > 0
  /\ \A o \in Queues : /\ is_condition_met(o) <=> data_q[o] # <<>>
                       /\ is_condition_met(o)' <=> data_q'[o] # <<>>
  /\ \A o \in Signals : /\ is_condition_met(o) <=> signaled[o]
                        /\ is_condition_met(o)' <=> signaled'[o]
<1> USE KindsApart
<1>1. \A o \in Sems : /\ is_condition_met(o) <=> count[o] > 0
                      /\ is_condition_met(o)' <=> count'[o] > 0
  BY DEF is_condition_met
<1>2. \A o \in MsgQs : /\ is_condition_met(o) <=> used_msgs[o] > 0
                       /\ is_condition_met(o)' <=> used_msgs'[o] > 0
  BY DEF is_condition_met
<1>3. \A o \in Queues : /\ is_condition_met(o) <=> data_q[o] # <<>>
                        /\ is_condition_met(o)' <=> data_q'[o] # <<>>
  BY DEF is_condition_met
<1>4. \A o \in Signals : /\ is_condition_met(o) <=> signaled[o]
                         /\ is_condition_met(o)' <=> signaled'[o]
  BY DEF is_condition_met
<1> QED BY <1>1, <1>2, <1>3, <1>4

-----------------------------------------------------------------------------
(* Who is told *)

\* A step after which the pollers of o still know, or will be told.
Heard(o) ==
  poll_events'[o] # <<>> /\ is_condition_met(o)' =>
    \/ handling'[o] = "AVAILABLE"
    \/ \E p \in Pollers : "AVAILABLE" \in state'[<<p, o>>] \ state[<<p, o>>]
    \/ poll_events[o] # <<>> /\ is_condition_met(o) /\ handling[o] # "AVAILABLE"

LEMMA HeardTells ==
  ASSUME NEW o \in Pollables, Tells(o), Heard(o), NoteTold
  PROVE  Tells(o)'
<1> SUFFICES ASSUME poll_events'[o] # <<>>, is_condition_met(o)', handling'[o] # "AVAILABLE"
             PROVE  told'[o] # {}
  BY DEF Tells
<1>1. told'[o] = told[o] \cup {p \in Pollers : "AVAILABLE" \in state'[<<p, o>>] \ state[<<p, o>>]}
  <2>1. told'[o] = IF ~is_condition_met(o)' THEN {}
                   ELSE told[o] \cup {p \in Pollers : "AVAILABLE" \in state'[<<p, o>>] \ state[<<p, o>>]}
    BY DEF NoteTold
  <2> QED BY <2>1
<1>2. CASE \E p \in Pollers : "AVAILABLE" \in state'[<<p, o>>] \ state[<<p, o>>]
  BY <1>1, <1>2
<1>3. CASE poll_events[o] # <<>> /\ is_condition_met(o) /\ handling[o] # "AVAILABLE"
  BY <1>1, <1>3 DEF Tells
<1> QED BY <1>2, <1>3 DEF Heard

\* The objects whose state nobody touches, or that only become unavailable.
LEMMA HeardBefore ==
  ASSUME NEW o, is_condition_met(o)' => is_condition_met(o), handling'[o] = handling[o],
         poll_events'[o] # <<>> => poll_events[o] # <<>> \/ ~is_condition_met(o)
  PROVE  Heard(o)
BY DEF Heard

\* Only o changes.
LEMMA MetElsewhere ==
  ASSUME NEW o, \A s \in Sems \ {o} : count'[s] = count[s],
         \A m \in MsgQs \ {o} : used_msgs'[m] = used_msgs[m],
         \A q \in Queues \ {o} : data_q'[q] = data_q[q],
         \A g \in Signals \ {o} : signaled'[g] = signaled[g]
  PROVE  \A a \in Pollables \ {o} : is_condition_met(a)' <=> is_condition_met(a)
<1> TAKE a \in Pollables \ {o}
<1>1. CASE a \in Sems
  BY <1>1, MetIs
<1>2. CASE a \in MsgQs
  BY <1>2, MetIs
<1>3. CASE a \in Queues
  BY <1>3, MetIs
<1>4. CASE a \in Signals
  BY <1>4, MetIs
<1> QED BY <1>1, <1>2, <1>3, <1>4 DEF Pollables

\* A call on o that makes it available ends with telling so.
LEMMA HeardCall ==
  ASSUME NEW o, \A s \in Sems \ {o} : count'[s] = count[s],
         \A m \in MsgQs \ {o} : used_msgs'[m] = used_msgs[m],
         \A q \in Queues \ {o} : data_q'[q] = data_q[q],
         \A g \in Signals \ {o} : signaled'[g] = signaled[g],
         poll_events' = poll_events,
         \A a \in Pollables \ {o} : handling'[a] = handling[a],
         o \in Pollables => \/ handling'[o] = "AVAILABLE"
                            \/ /\ is_condition_met(o)' => is_condition_met(o)
                               /\ handling[o] # "AVAILABLE" \/ handling'[o] = handling[o]
  PROVE  \A a \in Pollables : Heard(a)
<1>1. \A a \in Pollables \ {o} : Heard(a)
  BY MetElsewhere, HeardBefore
<1>2. o \in Pollables => Heard(o)
  BY DEF Heard
<1> QED BY <1>1, <1>2

-----------------------------------------------------------------------------
(* Semaphores *)

\* Threads that got s and have not returned with it.
Owed(s) ==
  {t \in Threads : call[t].op = "take" /\ call[t].obj = s /\ pended_on[t] = None
                     /\ swap_retval[t] = "0"}

SemOK(s) ==
  /\ wait_q[s] # <<>> => count[s] = 0
  /\ credit[s] = count[s] + Cardinality(Owed(s))

SemInv ==
  /\ count \in [Sems -> Nat] /\ credit \in [Sems -> Int]
  /\ \A s \in Sems : SemOK(s)

LEMMA OwedFinite ==
  ASSUME NEW s
  PROVE  IsFiniteSet(Owed(s)) /\ Cardinality(Owed(s)) \in Nat
         /\ IsFiniteSet(Owed(s)') /\ Cardinality(Owed(s)') \in Nat
<1>1. IsFiniteSet(Threads)
  BY PollEventsAssumption
<1>2. Owed(s) \subseteq Threads /\ Owed(s)' \subseteq Threads
  BY DEF Owed
<1> QED BY <1>1, <1>2, FS_Subset, FS_CardinalityType

LEMMA OwedElsewhere ==
  ASSUME NEW o, Locally(o), NEW s \in Sems, s # o
  PROVE  Owed(s)' = Owed(s) /\ wait_q'[s] = wait_q[s]
<1>1. s \in Objects
  BY KindsApart DEF Waitables
<1>2. \A t \in Threads : t \in Owed(s)' <=> t \in Owed(s)
  BY DEF Owed, Locally, Uses
<1> QED BY <1>1, <1>2 DEF Owed, Locally

LEMMA SemElsewhere ==
  ASSUME SemInv, NEW o, Locally(o), o \notin Sems, UNCHANGED semVars
  PROVE  SemInv'
<1>1. \A s \in Sems : Owed(s)' = Owed(s) /\ wait_q'[s] = wait_q[s]
  BY OwedElsewhere
<1>2. \A s \in Sems : SemOK(s)'
  BY <1>1 DEF SemInv, SemOK, semVars
<1> QED BY <1>2 DEF SemInv, semVars

\* A step on s: the others are as they were.
LEMMA SemOnly ==
  ASSUME SemInv, NEW s \in Sems, Locally(s), count' \in [Sems -> Nat], credit' \in [Sems -> Int],
         \A r \in Sems \ {s} : count'[r] = count[r] /\ credit'[r] = credit[r],
         SemOK(s)'
  PROVE  SemInv'
<1>1. \A r \in Sems \ {s} : Owed(r)' = Owed(r) /\ wait_q'[r] = wait_q[r]
  BY OwedElsewhere
<1>2. \A r \in Sems \ {s} : SemOK(r)'
  BY <1>1 DEF SemInv, SemOK
<1> QED BY <1>2 DEF SemInv

\* A list is empty exactly if it has no element.
LEMMA NoElement ==
  ASSUME NEW S, NEW l \in Seq(S)
  PROVE  l # <<>> <=> ToSet(l) # {}
<1>1. l = <<>> => ToSet(l) = {}
  BY EmptyList
<1>2. l # <<>> => Head(l) \in ToSet(l)
  BY TailList
<1> QED BY <1>1, <1>2

LEMMA WaitQueueIs ==
  ASSUME WaitInv, NEW o \in Objects
  PROVE  wait_q[o] \in Seq(Threads) /\ (wait_q[o] # <<>> <=> ToSet(wait_q[o]) # {})
<1>1. wait_q[o] \in Seq(Threads)
  BY DEF WaitInv, WaitLists, WaitTypeOK
<1> QED BY <1>1, NoElement

\* Threads were woken: a queue that is not empty was not.
LEMMA WokenQueue ==
  ASSUME WaitInv, WaitInv', NEW o \in Objects, NEW ts, Unpended(ts, o)
  PROVE  wait_q'[o] # <<>> => wait_q[o] # <<>> /\ ToSet(wait_q[o]) \ ts # {}
<1>1. wait_q[o] # <<>> <=> ToSet(wait_q[o]) # {}
  BY WaitQueueIs
<1>2. wait_q'[o] \in Seq(Threads)
  BY DEF WaitInv, WaitLists, WaitTypeOK
<1>3. wait_q'[o] # <<>> <=> ToSet(wait_q'[o]) # {}
  BY <1>2, NoElement
<1>4. ToSet(wait_q'[o]) = ToSet(wait_q[o]) \ ts
  BY DEF Unpended
<1> QED BY <1>1, <1>3, <1>4

\* What is common to the calls.
ObjectsStep(o) == WaitInv' /\ PollInv' /\ Locally(o) /\ \A a \in Pollables : Heard(a)

notSemVars == <<msgqVars, queueVars, plainVars, signaled, twork, handler, used>>

LEMMA SemGives ==
  ASSUME WaitInv, PollInv, SemInv, firing = None, NEW s \in Sems, k_sem_give(s),
         UNCHANGED notSemVars
  PROVE  ObjectsStep(s) /\ SemInv'
<1>1. /\ handling[s] = None /\ UNCHANGED <<prio, call, eventVars, triggerVars, tworkVars>>
      /\ UNCHANGED pollerVars /\ UNCHANGED <<used_msgs, data_q, signaled>>
  BY DEF k_sem_give, Unlocked, pollerVars, notSemVars, msgqVars, queueVars
<1>2. s \in Waitables /\ s \in Pollables /\ s \in Objects
  BY KindsApart DEF Waitables
<1>3. handling \in [Pollables -> {None, "AVAILABLE", "CANCELLED"}] /\ SemOK(s)
      /\ count \in [Sems -> Nat] /\ credit \in [Sems -> Int]
  BY DEF PollInv, PollerTypes, SemInv
<1>4. poll_events' = poll_events
  BY <1>1 DEF eventVars
<1>5. CASE wait_q[s] # <<>>
  <2>1. /\ WakeWith({Head(wait_q[s])}, s, "0") /\ credit' = [credit EXCEPT ![s] = @ + 1]
        /\ count' = count /\ handling' = handling
    BY <1>5 DEF k_sem_give
  <2>2. WaitInv' /\ PollInv' /\ Locally(s)
    BY <1>1, <1>2, <1>3, <1>5, <2>1, HeadWakes
  <2>3. PICK h \in Threads : /\ Woken({h}, s, "0") /\ pended_on[h] = s
                             /\ call[h].op \notin {"idle", "poll"} /\ call[h].obj = s
    BY <1>1, <1>2, <1>3, <1>5, <2>1, HeadWakes
  <2>4. call[h].op = "take"
    BY <2>3, WaitsFor DEF PollInv, PollerTypes
  <2>5. Owed(s)' = Owed(s) \cup {h} /\ h \notin Owed(s)
    BY <1>1, <1>2, <2>3, <2>4, KindsDiffer DEF Owed, Woken, Unpended, Returns
  <2>6. Cardinality(Owed(s)') = Cardinality(Owed(s)) + 1
    BY <2>5, OwedFinite, FS_AddElement
  <2>7. credit'[s] = credit[s] + 1
    BY <1>3, <2>1
  <2>8. SemOK(s)'
    <3>1. wait_q'[s] # <<>> => count'[s] = 0
      BY <1>3, <1>5, <2>1 DEF SemOK
    <3>2. credit'[s] = count'[s] + Cardinality(Owed(s)')
      BY <1>3, <2>1, <2>6, <2>7, OwedFinite DEF SemOK
    <3> QED BY <3>1, <3>2 DEF SemOK
  <2>9. SemInv'
    BY <1>3, <2>1, <2>2, <2>8, SemOnly
  <2>10. \A a \in Pollables : Heard(a)
    <3>1. is_condition_met(s)' => is_condition_met(s)
      BY <2>1, MetIs
    <3> QED BY <1>1, <1>4, <2>1, <3>1, HeardCall
  <2> QED BY <2>2, <2>9, <2>10 DEF ObjectsStep
<1>6. CASE wait_q[s] = <<>>
  <2>1. /\ count' = [count EXCEPT ![s] = Given(s)]
        /\ credit' = [credit EXCEPT ![s] = @ + count'[s] - count[s]]
        /\ handling' = [handling EXCEPT ![s] = "AVAILABLE"]
        /\ UNCHANGED waitVars
    BY <1>6 DEF k_sem_give
  <2>2. handling' \in [Pollables -> {None, "AVAILABLE", "CANCELLED"}]
        /\ handling'[s] = "AVAILABLE" /\ \A a \in Pollables \ {s} : handling'[a] = handling[a]
    BY <1>2, <1>3, <2>1
  <2>3. WaitInv' /\ PollInv' /\ Locally(s)
    BY <1>1, <2>1, <2>2, CallAlone
  <2>4. Given(s) \in Nat
    BY <1>3, SemAssumption DEF Given
  <2>5. count' \in [Sems -> Nat] /\ \A r \in Sems \ {s} : count'[r] = count[r]
    BY <1>3, <2>1, <2>4
  <2>6. /\ credit' \in [Sems -> Int] /\ \A r \in Sems \ {s} : credit'[r] = credit[r]
        /\ credit'[s] = credit[s] + count'[s] - count[s]
    BY <1>3, <2>1, <2>5
  <2>7. Owed(s)' = Owed(s) /\ wait_q'[s] = <<>>
    BY <1>1, <1>6, <2>1 DEF Owed, waitVars
  <2>8. SemOK(s)'
    <3>1. credit'[s] = count'[s] + Cardinality(Owed(s)')
      BY <1>3, <2>5, <2>6, <2>7, OwedFinite DEF SemOK
    <3> QED BY <2>7, <3>1 DEF SemOK
  <2>9. SemInv'
    BY <2>3, <2>5, <2>6, <2>8, SemOnly
  <2>10. \A a \in Pollables : Heard(a)
    BY <1>1, <1>4, <2>2, <2>5, HeardCall
  <2> QED BY <2>3, <2>9, <2>10 DEF ObjectsStep
<1> QED BY <1>5, <1>6

LEMMA SemTakes ==
  ASSUME WaitInv, PollInv, SemInv, firing = None, NEW t \in Threads, NEW s \in Sems, NEW timeout,
         k_sem_take(t, s, timeout), UNCHANGED notSemVars
  PROVE  ObjectsStep(s) /\ SemInv'
<1>1. /\ Running(t) /\ handling' = handling
      /\ UNCHANGED <<prio, pollerVars, used_msgs, data_q, signaled>>
  BY DEF k_sem_take, pollerVars, notSemVars, msgqVars, queueVars
<1>2. s \in Waitables /\ s \in Pollables /\ s \in Objects
  BY KindsApart DEF Waitables
<1>3. /\ handling' \in [Pollables -> {None, "AVAILABLE", "CANCELLED"}] /\ SemOK(s)
      /\ count \in [Sems -> Nat] /\ credit \in [Sems -> Int] /\ call \in [Threads -> Calls]
  BY <1>1 DEF PollInv, PollerTypes, SemInv
<1>4. poll_events' = poll_events
  BY <1>1 DEF pollerVars, eventVars
<1>5. CASE count[s] > 0
  <2>1. /\ count' = [count EXCEPT ![s] = @ - 1] /\ credit' = [credit EXCEPT ![s] = @ - 1]
        /\ UNCHANGED <<waitVars, call>>
    BY <1>3, <1>5 DEF k_sem_take
  <2>2. WaitInv' /\ PollInv' /\ Locally(s)
    BY <1>1, <1>3, <2>1, CallAlone
  <2>3. /\ count' \in [Sems -> Nat] /\ credit' \in [Sems -> Int]
        /\ count'[s] = count[s] - 1 /\ credit'[s] = credit[s] - 1
        /\ \A r \in Sems \ {s} : count'[r] = count[r] /\ credit'[r] = credit[r]
    BY <1>3, <1>5, <2>1
  <2>4. Owed(s)' = Owed(s) /\ wait_q'[s] = wait_q[s]
    BY <2>1 DEF Owed, waitVars
  <2>5. SemOK(s)'
    <3>1. credit'[s] = count'[s] + Cardinality(Owed(s)')
      BY <1>3, <2>3, <2>4, OwedFinite DEF SemOK
    <3>2. wait_q'[s] = <<>>
      BY <1>3, <1>5, <2>4 DEF SemOK
    <3> QED BY <3>1, <3>2 DEF SemOK
  <2>6. SemInv'
    BY <2>2, <2>3, <2>5, SemOnly
  <2>7. \A a \in Pollables : Heard(a)
    <3>1. is_condition_met(s)' => is_condition_met(s)
      BY <1>5, MetIs
    <3> QED BY <1>1, <1>4, <2>3, <3>1, HeardCall
  <2> QED BY <2>2, <2>6, <2>7 DEF ObjectsStep
<1>6. CASE count[s] = 0
  <2>1. PICK c : c = [op |-> "take", obj |-> s]
    OBVIOUS
  <2>2. /\ z_pend_curr(t, s, timeout, prio) /\ call' = [call EXCEPT ![t] = c]
        /\ count' = count /\ credit' = credit
    BY <1>3, <1>6, <2>1 DEF k_sem_take, Pend, semVars
  <2>3. c \in WaitCalls \cup EventCalls /\ c.obj = s
    BY <2>1 DEF WaitCalls
  <2>4. WaitInv' /\ PollInv' /\ Locally(s) /\ Pended(t, s, timeout) /\ call'[t] = c
    BY <1>1, <1>2, <2>2, <2>3, CallPends
  <2>5. Owed(s)' = Owed(s)
    <3>1. \A u \in Threads \ {t} : call'[u] = call[u]
      BY <1>3, <2>2
    <3>2. t \notin Owed(s)'
      BY <1>2, <2>4, KindsDiffer DEF Owed, Pended
    <3>3. t \notin Owed(s)
      BY <1>1 DEF Owed, Running, Idle
    <3>4. \A u \in Threads \ {t} : u \in Owed(s)' <=> u \in Owed(s)
      BY <2>4, <3>1 DEF Owed, Pended
    <3>5. Owed(s) \subseteq Threads /\ Owed(s)' \subseteq Threads
      BY DEF Owed
    <3> QED BY <3>2, <3>3, <3>4, <3>5
  <2>6. SemOK(s)'
    BY <1>3, <1>6, <2>2, <2>5 DEF SemOK
  <2>7. SemInv'
    BY <1>3, <2>2, <2>4, <2>6, SemOnly
  <2>8. \A a \in Pollables : Heard(a)
    <3>1. is_condition_met(s)' => is_condition_met(s)
      BY <2>2, MetIs
    <3> QED BY <1>1, <1>4, <2>2, <3>1, HeardCall
  <2> QED BY <2>4, <2>7, <2>8 DEF ObjectsStep
<1>7. count[s] > 0 \/ count[s] = 0
  BY <1>3
<1> QED BY <1>5, <1>6, <1>7

LEMMA SemReturns ==
  ASSUME WaitInv, PollInv, SemInv, NEW t \in Threads, TakeReturns(t), UNCHANGED notSemVars
  PROVE  ObjectsStep(call[t].obj) /\ SemInv' /\ call[t].obj \in Sems
<1>1. /\ Returning(t, {"take"}) /\ call' = [call EXCEPT ![t] = Idle]
      /\ count' = count /\ handling' = handling
      /\ credit' = [credit EXCEPT ![call[t].obj] = IF swap_retval[t] = "0" THEN @ - 1 ELSE @]
      /\ UNCHANGED <<prio, waitVars, pollerVars, used_msgs, data_q, signaled>>
  BY DEF TakeReturns, pollerVars, notSemVars, msgqVars, queueVars
<1>2. PICK s : s = call[t].obj
  OBVIOUS
<1>3. /\ count \in [Sems -> Nat] /\ credit \in [Sems -> Int] /\ call \in [Threads -> Calls]
  BY DEF PollInv, PollerTypes, SemInv
<1>4. s \in Sems /\ call[t].op = "take" /\ pended_on[t] = None
  BY <1>1, <1>2, <1>3, WaitsFor DEF Returning
<1>5. WaitInv' /\ PollInv' /\ Locally(s) /\ call'[t] = Idle
  <2>1. {"take"} \in SUBSET {"take", "put", "get", "qget", "pop", "alloc", "event"}
    OBVIOUS
  <2> QED BY <1>1, <1>2, <2>1, CallReturns
<1>6. SemOK(s)
  BY <1>4 DEF SemInv
<1>7. /\ credit' \in [Sems -> Int]
      /\ credit'[s] = (IF swap_retval[t] = "0" THEN credit[s] - 1 ELSE credit[s])
      /\ \A r \in Sems \ {s} : credit'[r] = credit[r]
  BY <1>1, <1>2, <1>3, <1>4
<1>8. \A u \in Threads \ {t} : u \in Owed(s)' <=> u \in Owed(s)
  BY <1>1, <1>3 DEF Owed, waitVars
<1>9. t \notin Owed(s)' /\ (t \in Owed(s) <=> swap_retval[t] = "0")
  BY <1>2, <1>4, <1>5 DEF Owed, Idle
<1>10. Owed(s) \subseteq Threads /\ Owed(s)' \subseteq Threads
  BY DEF Owed
<1>11. credit'[s] = count'[s] + Cardinality(Owed(s)')
  <2>1. CASE swap_retval[t] = "0"
    <3>1. Owed(s)' = Owed(s) \ {t} /\ t \in Owed(s)
      BY <1>8, <1>9, <1>10, <2>1
    <3>2. Cardinality(Owed(s)') = Cardinality(Owed(s)) - 1
      BY <3>1, OwedFinite, FS_RemoveElement
    <3> QED BY <1>1, <1>3, <1>4, <1>6, <1>7, <2>1, <3>2, OwedFinite DEF SemOK
  <2>2. CASE swap_retval[t] # "0"
    <3>1. Owed(s)' = Owed(s)
      BY <1>8, <1>9, <1>10, <2>2
    <3> QED BY <1>1, <1>6, <1>7, <2>2, <3>1 DEF SemOK
  <2> QED BY <2>1, <2>2
<1>12. SemOK(s)'
  BY <1>1, <1>6, <1>11 DEF SemOK, waitVars
<1>13. SemInv'
  BY <1>1, <1>3, <1>4, <1>5, <1>7, <1>12, SemOnly
<1>14. \A a \in Pollables : Heard(a)
  <2>1. is_condition_met(s)' => is_condition_met(s)
    BY <1>1, <1>4, MetIs
  <2>2. poll_events' = poll_events
    BY <1>1 DEF pollerVars, eventVars
  <2> QED BY <1>1, <2>1, <2>2, HeardCall
<1> QED BY <1>2, <1>4, <1>5, <1>13, <1>14 DEF ObjectsStep

LEMMA SemResets ==
  ASSUME WaitInv, PollInv, SemInv, firing = None, NEW s \in Sems, k_sem_reset(s),
         UNCHANGED notSemVars
  PROVE  ObjectsStep(s) /\ SemInv'
<1>1. /\ WakeWith(ToSet(wait_q[s]), s, "-EAGAIN")
      /\ count' = [count EXCEPT ![s] = 0]
      /\ credit' = [credit EXCEPT ![s] = @ - count[s]]
      /\ handling' = [handling EXCEPT ![s] = "AVAILABLE"]
      /\ UNCHANGED <<prio, call, pollerVars, used_msgs, data_q, signaled>>
  BY DEF k_sem_reset, ResetAnswer, pollerVars, notSemVars, msgqVars, queueVars
<1>2. s \in Waitables /\ s \in Pollables /\ s \in Objects
  BY KindsApart DEF Waitables
<1>3. /\ handling \in [Pollables -> {None, "AVAILABLE", "CANCELLED"}] /\ SemOK(s)
      /\ count \in [Sems -> Nat] /\ credit \in [Sems -> Int]
  BY DEF PollInv, PollerTypes, SemInv
<1>4. handling' \in [Pollables -> {None, "AVAILABLE", "CANCELLED"}]
      /\ handling'[s] = "AVAILABLE" /\ \A a \in Pollables \ {s} : handling'[a] = handling[a]
  BY <1>1, <1>2, <1>3
<1>5. PICK ts : ts = ToSet(wait_q[s])
  OBVIOUS
<1>6. Woken(ts, s, "-EAGAIN")
  <2>1. "-EAGAIN" \in Rets /\ ts \in SUBSET ToSet(wait_q[s]) /\ WaitLists
    BY <1>5 DEF Rets, WaitInv
  <2> QED BY <1>1, <1>2, <1>5, <2>1, WakeWithWaits
<1>7. WaitInv' /\ PollInv' /\ Locally(s)
  BY <1>1, <1>2, <1>4, <1>5, <1>6, CallWakes DEF Woken
<1>8. /\ count' \in [Sems -> Nat] /\ credit' \in [Sems -> Int]
      /\ count'[s] = 0 /\ credit'[s] = credit[s] - count[s]
      /\ \A r \in Sems \ {s} : count'[r] = count[r] /\ credit'[r] = credit[r]
  BY <1>1, <1>3
<1>9. Owed(s)' = Owed(s)
  <2>1. \A u \in Threads : u \in ts => pended_on[u] = s
    BY <1>2, <1>5 DEF WaitInv, WaitLists
  <2> QED BY <1>1, <1>2, <1>6, <2>1, KindsDiffer DEF Owed, Woken, Unpended, Returns
<1>10. credit'[s] = count'[s] + Cardinality(Owed(s)')
  BY <1>3, <1>8, <1>9, OwedFinite DEF SemOK
<1>11. SemOK(s)'
  BY <1>8, <1>10 DEF SemOK
<1>12. SemInv'
  BY <1>7, <1>8, <1>11, SemOnly
<1>13. \A a \in Pollables : Heard(a)
  <2>1. poll_events' = poll_events
    BY <1>1 DEF pollerVars, eventVars
  <2> QED BY <1>1, <1>4, <1>8, <2>1, HeardCall
<1> QED BY <1>7, <1>12, <1>13 DEF ObjectsStep

-----------------------------------------------------------------------------
(* Message queues *)

MsgqInv == used_msgs \in [MsgQs -> Nat]

notMsgqVars == <<semVars, queueVars, plainVars, signaled, twork, handler, used>>

LEMMA MsgqPuts ==
  ASSUME WaitInv, PollInv, MsgqInv, firing = None, NEW m \in MsgQs, NEW msg, PutNow(m, msg),
         UNCHANGED notMsgqVars
  PROVE  ObjectsStep(m) /\ MsgqInv'
<1>1. /\ UNCHANGED <<prio, call, pollerVars, count, data_q, signaled>>
      /\ handling \in [Pollables -> {None, "AVAILABLE", "CANCELLED"}]
  BY DEF PutNow, pollerVars, notMsgqVars, semVars, queueVars, PollInv, PollerTypes
<1>2. m \in Waitables /\ m \in Pollables /\ m \in Objects
  BY KindsApart DEF Waitables
<1>3. poll_events' = poll_events
  BY <1>1 DEF pollerVars, eventVars
<1>4. CASE wait_q[m] # <<>>
  <2>1. WakeWith({Head(wait_q[m])}, m, "0") /\ used_msgs' = used_msgs /\ handling' = handling
    BY <1>4 DEF PutNow, msgqVars
  <2>2. WaitInv' /\ PollInv' /\ Locally(m)
    BY <1>1, <1>2, <1>4, <2>1, HeadWakes
  <2>3. \A a \in Pollables : Heard(a)
    <3>1. is_condition_met(m)' => is_condition_met(m)
      BY <2>1, MetIs
    <3> QED BY <1>1, <1>3, <2>1, <3>1, HeardCall
  <2> QED BY <2>1, <2>2, <2>3 DEF ObjectsStep, MsgqInv
<1>5. CASE wait_q[m] = <<>>
  <2>1. /\ used_msgs' = [used_msgs EXCEPT ![m] = @ + 1] /\ UNCHANGED waitVars
        /\ handling' = [handling EXCEPT ![m] = "AVAILABLE"]
    BY <1>5 DEF PutNow
  <2>2. /\ handling' \in [Pollables -> {None, "AVAILABLE", "CANCELLED"}]
        /\ handling'[m] = "AVAILABLE" /\ \A a \in Pollables \ {m} : handling'[a] = handling[a]
    BY <1>1, <1>2, <2>1
  <2>3. WaitInv' /\ PollInv' /\ Locally(m)
    BY <1>1, <2>1, <2>2, CallAlone
  <2>4. MsgqInv' /\ \A a \in MsgQs \ {m} : used_msgs'[a] = used_msgs[a]
    BY <2>1 DEF MsgqInv
  <2>5. \A a \in Pollables : Heard(a)
    BY <1>1, <1>3, <2>2, <2>4, HeardCall
  <2> QED BY <2>3, <2>4, <2>5 DEF ObjectsStep
<1> QED BY <1>4, <1>5

\* A thread waits for space, or for a message.
LEMMA MsgqPends ==
  ASSUME WaitInv, PollInv, MsgqInv, firing = None, NEW m \in MsgQs, NEW t \in Threads, NEW timeout,
         NEW op \in {"put", "get"}, Running(t), Pend(t, m, timeout, op),
         UNCHANGED <<prio, used_msgs, handling, eventVars, triggerVars, tworkVars, notMsgqVars>>
  PROVE  ObjectsStep(m) /\ MsgqInv'
<1>1. UNCHANGED <<prio, pollerVars, handling, count, used_msgs, data_q, signaled, poll_events>>
  BY DEF pollerVars, notMsgqVars, semVars, queueVars, eventVars
<1>2. m \in Waitables
  BY KindsApart
<1>3. PICK c : c = [op |-> op, obj |-> m]
  OBVIOUS
<1>4. z_pend_curr(t, m, timeout, prio) /\ call' = [call EXCEPT ![t] = c]
  BY <1>3 DEF Pend
<1>5. c \in WaitCalls \cup EventCalls /\ c.obj = m
  BY <1>3 DEF WaitCalls
<1>6. WaitInv' /\ PollInv' /\ Locally(m)
  BY <1>1, <1>2, <1>4, <1>5, CallPends
<1>7. \A a \in Pollables : Heard(a)
  <2>1. is_condition_met(m)' => is_condition_met(m)
    BY <1>1, MetIs
  <2> QED BY <1>1, <2>1, HeardCall
<1> QED BY <1>1, <1>6, <1>7 DEF ObjectsStep, MsgqInv

LEMMA MsgqGets ==
  ASSUME WaitInv, PollInv, MsgqInv, firing = None, NEW m \in MsgQs, NEW t \in Threads, NEW timeout,
         k_msgq_get(t, m, timeout), UNCHANGED notMsgqVars
  PROVE  ObjectsStep(m) /\ MsgqInv'
<1>1. /\ UNCHANGED <<prio, pollerVars, count, data_q, signaled, handling, poll_events>>
      /\ handling' \in [Pollables -> {None, "AVAILABLE", "CANCELLED"}]
  BY DEF k_msgq_get, pollerVars, notMsgqVars, semVars, queueVars, PollInv, PollerTypes, eventVars
<1>2. m \in Waitables /\ m \in Pollables /\ used_msgs[m] \in Nat
  BY KindsApart DEF MsgqInv
<1>3. CASE used_msgs[m] > 0
  <2>1. Refill(m) /\ call' = call
    BY <1>2, <1>3 DEF k_msgq_get
  <2>2. WaitInv' /\ PollInv' /\ Locally(m)
    <3>1. CASE wait_q[m] # <<>>
      BY <1>1, <1>2, <2>1, <3>1, HeadWakes DEF Refill
    <3>2. CASE wait_q[m] = <<>>
      BY <1>1, <2>1, <3>2, CallAlone DEF Refill
    <3> QED BY <3>1, <3>2
  <2>3. MsgqInv' /\ \A a \in MsgQs \ {m} : used_msgs'[a] = used_msgs[a]
    BY <1>2, <1>3, <2>1 DEF MsgqInv, Refill
  <2>4. \A a \in Pollables : Heard(a)
    <3>1. is_condition_met(m)' => is_condition_met(m)
      BY <1>3, MetIs
    <3> QED BY <1>1, <2>3, <3>1, HeardCall
  <2> QED BY <2>2, <2>3, <2>4 DEF ObjectsStep
<1>4. CASE used_msgs[m] = 0
  <2>1. Running(t) /\ Pend(t, m, timeout, "get") /\ used_msgs' = used_msgs
    BY <1>4 DEF k_msgq_get, msgqVars
  <2>2. UNCHANGED <<eventVars, triggerVars, tworkVars>>
    BY DEF k_msgq_get
  <2> QED BY <1>1, <2>1, <2>2, MsgqPends
<1> QED BY <1>2, <1>3, <1>4

LEMMA MsgqPurges ==
  ASSUME WaitInv, PollInv, MsgqInv, firing = None, NEW m \in MsgQs, k_msgq_purge(m),
         UNCHANGED notMsgqVars
  PROVE  ObjectsStep(m) /\ MsgqInv'
<1>1. /\ UNCHANGED <<prio, call, pollerVars, count, data_q, signaled, handling, poll_events>>
      /\ WakeWith(ToSet(wait_q[m]), m, "-ENOMSG")
      /\ used_msgs' = [used_msgs EXCEPT ![m] = 0]
      /\ handling' \in [Pollables -> {None, "AVAILABLE", "CANCELLED"}]
  BY DEF k_msgq_purge, PurgedWaiters, pollerVars, notMsgqVars, semVars, queueVars, eventVars, PollInv,
         PollerTypes
<1>2. m \in Waitables /\ m \in Pollables /\ m \in Objects
  BY KindsApart DEF Waitables
<1>3. PICK ts : ts = ToSet(wait_q[m])
  OBVIOUS
<1>4. Woken(ts, m, "-ENOMSG")
  <2>1. "-ENOMSG" \in Rets /\ ts \in SUBSET ToSet(wait_q[m]) /\ WaitLists
    BY <1>3 DEF Rets, WaitInv
  <2> QED BY <1>1, <1>2, <1>3, <2>1, WakeWithWaits
<1>5. WaitInv' /\ PollInv' /\ Locally(m)
  BY <1>1, <1>2, <1>3, <1>4, CallWakes DEF Woken
<1>6. /\ MsgqInv' /\ used_msgs'[m] = 0 /\ \A a \in MsgQs \ {m} : used_msgs'[a] = used_msgs[a]
  BY <1>1 DEF MsgqInv
<1>7. \A a \in Pollables : Heard(a)
  <2>1. is_condition_met(m)' => is_condition_met(m)
    BY <1>6, MetIs
  <2> QED BY <1>1, <1>6, <2>1, HeardCall
<1> QED BY <1>5, <1>6, <1>7 DEF ObjectsStep

LEMMA MsgqReturns ==
  ASSUME WaitInv, PollInv, MsgqInv, NEW t \in Threads, MsgQReturns(t), UNCHANGED notMsgqVars
  PROVE  ObjectsStep(call[t].obj) /\ MsgqInv' /\ call[t].obj \in MsgQs
<1>1. /\ Returning(t, {"put", "get"}) /\ call' = [call EXCEPT ![t] = Idle]
      /\ UNCHANGED <<prio, waitVars, pollerVars, handling, count, used_msgs, data_q, signaled,
                     poll_events>>
  BY DEF MsgQReturns, pollerVars, notMsgqVars, semVars, queueVars, msgqVars, eventVars
<1>2. PICK m : m = call[t].obj
  OBVIOUS
<1>3. m \in MsgQs
  <2>1. call[t] \in Calls /\ call[t].op \in {"put", "get"}
    BY <1>1 DEF PollInv, PollerTypes, Returning
  <2> QED BY <1>2, <2>1, WaitsFor
<1>4. WaitInv' /\ PollInv' /\ Locally(m)
  <2>1. {"put", "get"} \in SUBSET {"take", "put", "get", "qget", "pop", "alloc", "event"}
    OBVIOUS
  <2> QED BY <1>1, <1>2, <2>1, CallReturns
<1>5. \A a \in Pollables : Heard(a)
  <2>1. is_condition_met(m)' => is_condition_met(m)
    BY <1>1, <1>3, MetIs
  <2> QED BY <1>1, <2>1, HeardCall
<1> QED BY <1>1, <1>2, <1>3, <1>4, <1>5 DEF ObjectsStep, MsgqInv

-----------------------------------------------------------------------------
(* What is handed over *)

\* What a thread was given, and has not returned with.
HandInv ==
  /\ DOMAIN swap_data = Threads
  /\ \A t \in Threads : swap_data[t] # None => Returning(t, Giving) /\ swap_retval[t] = "0"
  /\ \A t, u \in Threads : swap_data[t] = swap_data[u] => t = u \/ swap_data[t] = None

\* A step leaves a thread alone that was given something.
Held ==
  \A t \in Threads : Returning(t, Giving) =>
    call'[t] = call[t] /\ pended_on'[t] = pended_on[t] /\ swap_retval'[t] = swap_retval[t]

\* At most x is handed over now.
Hands(x) == HandedOver' \subseteq HandedOver \cup x

LEMMA HandKeeps ==
  ASSUME HandInv, Held, swap_data' = swap_data
  PROVE  HandInv' /\ Hands({})
<1>1. \A t \in Threads : swap_data'[t] # None => Returning(t, Giving)' /\ swap_retval'[t] = "0"
  BY DEF HandInv, Held, Returning
<1> QED BY <1>1 DEF HandInv, Hands, HandedOver

LEMMA HandGives ==
  ASSUME WaitInv, HandInv, Held, NEW ts, NEW o \in Objects, NEW x, UNCHANGED call,
         \A t \in Threads : t \in ts => call[t].op \in Giving,
         \A t \in Threads : t \in ts => pended_on'[t] = None /\ swap_retval'[t] = "0",
         DOMAIN swap_data' = Threads,
         \A t \in Threads : t \notin ts => swap_data'[t] = swap_data[t],
         \A t \in Threads : t \in ts => swap_data'[t] \in x,
         \A t, u \in Threads : t \in ts /\ u \in ts /\ swap_data'[t] = swap_data'[u] => t = u,
         x \cap HandedOver = {}
  PROVE  HandInv' /\ Hands(x)
<1>1. \A t \in Threads : swap_data'[t] # None => Returning(t, Giving)' /\ swap_retval'[t] = "0"
  <2> SUFFICES ASSUME NEW t \in Threads, swap_data'[t] # None
               PROVE  Returning(t, Giving)' /\ swap_retval'[t] = "0"
    OBVIOUS
  <2>1. CASE t \in ts
    <3>1. pended_on'[t] = None /\ swap_retval'[t] = "0" /\ call'[t].op \in Giving
      BY <2>1
    <3> QED BY <3>1 DEF Returning
  <2>2. CASE t \notin ts
    <3>1. Returning(t, Giving) /\ swap_retval[t] = "0"
      BY <2>2 DEF HandInv
    <3> QED BY <3>1 DEF Held, Returning
  <2> QED BY <2>1, <2>2
<1>2. \A t, u \in Threads : swap_data'[t] = swap_data'[u] => t = u \/ swap_data'[t] = None
  BY DEF HandInv, HandedOver
<1>3. Hands(x)
  BY DEF Hands, HandedOver
<1> QED BY <1>1, <1>2, <1>3 DEF HandInv

LEMMA HeldElsewhere ==
  ASSUME PollInv, NEW o, Locally(o), o \notin Queues \cup Stacks \cup Slabs
  PROVE  Held
<1> SUFFICES ASSUME NEW t \in Threads, Returning(t, Giving)
             PROVE  call'[t] = call[t] /\ pended_on'[t] = pended_on[t] /\ swap_retval'[t] = swap_retval[t]
  BY DEF Held
<1>1. call[t] \in Calls /\ call[t].op \in {"qget", "pop", "alloc"}
  BY DEF PollInv, PollerTypes, Returning, Giving
<1>2. call[t].obj \in Queues \cup Stacks \cup Slabs
  BY <1>1, WaitsFor
<1> QED BY <1>1, <1>2 DEF Locally, Uses

LEMMA HeldPends ==
  ASSUME NEW t \in Threads, NEW o, NEW timeout, Pended(t, o, timeout), Running(t),
         \A u \in Threads \ {t} : call'[u] = call[u]
  PROVE  Held
<1>1. ~Returning(t, Giving)
  BY DEF Running, Returning, Idle, Giving
<1> QED BY <1>1 DEF Held, Pended

LEMMA HeldWakes ==
  ASSUME NEW ts, NEW o \in Objects, Unpended(ts, o), UNCHANGED call,
         \A t \in Threads : t \in ts => pended_on[t] = o
  PROVE  Held
BY KindsDiffer DEF Held, Unpended, Returning

LEMMA HeldAlone ==
  ASSUME UNCHANGED <<waitVars, call>>
  PROVE  Held
BY DEF Held, waitVars

\* A list that is handed out of: nobody waits while it has something.
ListOK(o, list) ==
  /\ Distinct(list)
  /\ ToSet(list) \cap HandedOver = {}
  /\ wait_q[o] # <<>> => list = <<>>

QueueInv == data_q \in [Queues -> Seq(Items)] /\ \A q \in Queues : ListOK(q, data_q[q])

StackInv == pushed \in [Stacks -> Seq(Words)] /\ \A k \in Stacks : ListOK(k, pushed[k])

SlabOK(l) ==
  /\ free_list[l] \in Seq(ToSet(Blocks[l])) /\ ListOK(l, free_list[l])
  /\ num_used[l] + Len(free_list[l]) = Len(Blocks[l])

SlabInv ==
  /\ free_list = [l \in Slabs |-> free_list[l]] /\ num_used \in [Slabs -> Int]
  /\ \A l \in Slabs : SlabOK(l)

LEMMA ListStays ==
  ASSUME NEW o, NEW list, ListOK(o, list), NEW x, Hands(x), ToSet(list) \cap x = {},
         wait_q'[o] # <<>> => wait_q[o] # <<>>
  PROVE  /\ Distinct(list) /\ ToSet(list) \cap HandedOver' = {}
         /\ wait_q'[o] # <<>> => list = <<>>
BY DEF ListOK, Hands

\* Queues that nobody waits for in addition.
NoMore(S) == \A o \in S : wait_q'[o] # <<>> => wait_q[o] # <<>>

LEMMA QueueStays ==
  ASSUME QueueInv, NEW S \in SUBSET Queues, NoMore(S), \A q \in S : data_q'[q] = data_q[q],
         NEW x, Hands(x), x \cap UNION {ToSet(data_q[q]) : q \in Queues} = {}
  PROVE  \A q \in S : ListOK(q, data_q[q])'
<1> SUFFICES ASSUME NEW q \in S PROVE ListOK(q, data_q[q])'
  OBVIOUS
<1>1. PICK list : list = data_q[q]
  OBVIOUS
<1>2. ListOK(q, list) /\ ToSet(list) \cap x = {} /\ data_q'[q] = list
  BY <1>1 DEF QueueInv
<1>3. wait_q'[q] # <<>> => wait_q[q] # <<>>
  BY DEF NoMore
<1> QED BY <1>2, <1>3, ListStays DEF ListOK

LEMMA QueueElsewhere ==
  ASSUME QueueInv, NoMore(Queues), UNCHANGED data_q, NEW x, Hands(x), x \cap Items = {}
  PROVE  QueueInv'
<1>1. \A q \in Queues : ToSet(data_q[q]) \subseteq Items
  BY ListElements DEF QueueInv
<1>2. x \cap UNION {ToSet(data_q[q]) : q \in Queues} = {}
  BY <1>1
<1>3. \A q \in Queues : ListOK(q, data_q[q])'
  BY <1>2, QueueStays
<1> QED BY <1>3 DEF QueueInv

LEMMA StackStays ==
  ASSUME StackInv, NEW S \in SUBSET Stacks, NoMore(S), \A k \in S : pushed'[k] = pushed[k],
         NEW x, Hands(x), x \cap Pushed = {}
  PROVE  \A k \in S : ListOK(k, pushed[k])'
<1> SUFFICES ASSUME NEW k \in S PROVE ListOK(k, pushed[k])'
  OBVIOUS
<1>1. PICK list : list = pushed[k]
  OBVIOUS
<1>2. ListOK(k, list) /\ ToSet(list) \cap x = {} /\ pushed'[k] = list
  BY <1>1 DEF StackInv, Pushed
<1>3. wait_q'[k] # <<>> => wait_q[k] # <<>>
  BY DEF NoMore
<1> QED BY <1>2, <1>3, ListStays DEF ListOK

LEMMA StackElsewhere ==
  ASSUME StackInv, NoMore(Stacks), UNCHANGED pushed, NEW x, Hands(x), x \cap Words = {}
  PROVE  StackInv'
<1>1. \A k \in Stacks : ToSet(pushed[k]) \subseteq Words
  BY ListElements DEF StackInv
<1>2. x \cap Pushed = {}
  BY <1>1 DEF Pushed
<1>3. \A k \in Stacks : ListOK(k, pushed[k])'
  BY <1>2, StackStays
<1> QED BY <1>3 DEF StackInv

LEMMA SlabStays ==
  ASSUME SlabInv, NEW S \in SUBSET Slabs, NoMore(S),
         \A l \in S : free_list'[l] = free_list[l] /\ num_used'[l] = num_used[l],
         NEW x, Hands(x), \A l \in S : x \cap ToSet(free_list[l]) = {}
  PROVE  \A l \in S : SlabOK(l)'
<1> SUFFICES ASSUME NEW l \in S PROVE SlabOK(l)'
  OBVIOUS
<1>1. PICK list : list = free_list[l]
  OBVIOUS
<1>2. /\ ListOK(l, list) /\ ToSet(list) \cap x = {} /\ free_list'[l] = list
      /\ num_used[l] + Len(free_list[l]) = Len(Blocks[l]) /\ free_list[l] \in Seq(ToSet(Blocks[l]))
  BY <1>1 DEF SlabInv, SlabOK
<1>3. wait_q'[l] # <<>> => wait_q[l] # <<>>
  BY DEF NoMore
<1>4. ListOK(l, free_list[l])'
  BY <1>2, <1>3, ListStays DEF ListOK
<1> QED BY <1>1, <1>2, <1>4 DEF SlabOK

LEMMA SlabElsewhere ==
  ASSUME SlabInv, NoMore(Slabs), UNCHANGED slabVars, NEW x, Hands(x),
         \A l \in Slabs : x \cap ToSet(Blocks[l]) = {}
  PROVE  SlabInv'
<1>1. \A l \in Slabs : ToSet(free_list[l]) \subseteq ToSet(Blocks[l])
  BY ListElements DEF SlabInv, SlabOK
<1>2. \A l \in Slabs : SlabOK(l)'
  BY <1>1, SlabStays DEF slabVars
<1> QED BY <1>2 DEF SlabInv, SlabOK, slabVars

LEMMA NoMoreElsewhere ==
  ASSUME NEW o, Locally(o), NEW S \in SUBSET Objects, o \notin S
  PROVE  NoMore(S)
BY DEF NoMore, Locally

-----------------------------------------------------------------------------
(* Queues *)

\* Where an element is in a list: 0 if it is not there.
Place(s, e) ==
  LET I == {i \in 1 .. Len(s) : s[i] = e} IN IF I # {} THEN Min(I) ELSE 0

LEMMA PlaceIs ==
  ASSUME NEW S, NEW s \in Seq(S), NEW e
  PROVE  Place(s, e) \in 0 .. Len(s) /\ (Place(s, e) # 0 => s[Place(s, e)] = e)
         /\ (e \in ToSet(s) => Place(s, e) # 0)
<1>0. ToSet(s) = {s[i] : i \in 1..Len(s)} /\ Len(s) \in Nat
  BY ListElements
<1>1. PICK I : I = {i \in 1..Len(s) : s[i] = e}
  OBVIOUS
<1>2. CASE I = {}
  <2>1. Place(s, e) = 0
    BY <1>1, <1>2 DEF Place
  <2> QED BY <1>0, <1>1, <1>2, <2>1
<1>3. CASE I # {}
  <2>1. Place(s, e) = Min(I)
    BY <1>1, <1>3 DEF Place
  <2>2. Place(s, e) \in I
    BY <1>1, <1>3, <2>1, MinOfNats
  <2> QED BY <1>0, <1>1, <2>2
<1> QED BY <1>2, <1>3

notQueueVars == <<semVars, msgqVars, plainVars, signaled, twork, handler, used>>

\* The list of q changes, and what it loses may be handed over.
LEMMA QueueOnly ==
  ASSUME QueueInv, WaitInv', NEW q \in Queues, Locally(q), NEW x, Hands(x),
         x \cap UNION {ToSet(data_q[a]) : a \in Queues} = {},
         NEW list \in Seq(Items), data_q' = [data_q EXCEPT ![q] = list],
         Distinct(list), ToSet(list) \cap HandedOver = {}, ToSet(list) \cap x = {},
         wait_q'[q] # <<>> => list = <<>>
  PROVE  QueueInv'
<1>1. data_q' \in [Queues -> Seq(Items)] /\ data_q'[q] = list
      /\ \A a \in Queues \ {q} : data_q'[a] = data_q[a]
  BY DEF QueueInv
<1>2. NoMore(Queues \ {q})
  <2>1. Queues \ {q} \in SUBSET Objects
    BY KindsApart DEF Waitables
  <2> QED BY <2>1, NoMoreElsewhere
<1>3. \A a \in Queues \ {q} : ListOK(a, data_q[a])'
  BY <1>1, <1>2, QueueStays
<1>4. ListOK(q, data_q[q])'
  BY <1>1 DEF ListOK, Hands
<1> QED BY <1>1, <1>3, <1>4 DEF QueueInv

\* Threads that wait on a queue are in k_queue_get.
LEMMA QueueWaiters ==
  ASSUME WaitInv, PollInv, NEW o \in Queues \cup Stacks \cup Slabs
  PROVE  \A t \in Threads : t \in ToSet(wait_q[o]) => pended_on[t] = o /\ call[t].op \in Giving
<1> SUFFICES ASSUME NEW t \in Threads, t \in ToSet(wait_q[o])
             PROVE  pended_on[t] = o /\ call[t].op \in Giving
  OBVIOUS
<1>1. o \in Waitables /\ o \in Objects /\ o # None
  BY KindsApart, KindsDiffer DEF Waitables
<1>2. pended_on[t] = o
  BY <1>1 DEF WaitInv, WaitLists
<1>3. call[t] \in Calls /\ call[t].op \notin {"idle", "poll"} /\ call[t].obj = o
  BY <1>1, <1>2 DEF WaitInv, Pends, Pending, Waitables, PollInv, PollerTypes
<1> QED BY <1>2, <1>3, WaitsFor DEF Giving

\* The first waiting thread is given i.
LEMMA HeadGiven ==
  ASSUME WaitInv, PollInv, HandInv, firing = None, UNCHANGED <<pollerVars, prio, call>>,
         handling' \in [Pollables -> {None, "AVAILABLE", "CANCELLED"}],
         NEW o \in Queues \cup Stacks \cup Slabs, wait_q[o] # <<>>,
         WakeWith({Head(wait_q[o])}, o, "0"), NEW i, i \notin HandedOver,
         swap_data' = [swap_data EXCEPT ![Head(wait_q[o])] = i]
  PROVE  /\ WaitInv' /\ PollInv' /\ Locally(o) /\ HandInv' /\ Hands({i})
         /\ wait_q'[o] # <<>> => wait_q[o] # <<>>
<1>1. o \in Waitables /\ o \in Objects
  BY KindsApart DEF Waitables
<1>2. /\ WaitInv' /\ PollInv' /\ Locally(o)
      /\ \E h \in Threads : /\ h = Head(wait_q[o]) /\ Woken({h}, o, "0") /\ pended_on[h] = o
                            /\ call[h].op \notin {"idle", "poll"} /\ call[h].obj = o
  BY <1>1, HeadWakes
<1>3. PICK h \in Threads : /\ h = Head(wait_q[o]) /\ Woken({h}, o, "0") /\ pended_on[h] = o
                           /\ call[h].op \notin {"idle", "poll"} /\ call[h].obj = o
  BY <1>2
<1>4. call[h].op \in Giving
  <2>1. call[h] \in Calls
    BY DEF PollInv, PollerTypes
  <2> QED BY <1>3, <2>1, WaitsFor DEF Giving
<1>5. Held
  BY <1>1, <1>3, HeldWakes DEF Woken
<1>6. /\ DOMAIN swap_data' = Threads /\ swap_data'[h] = i
      /\ \A t \in Threads \ {h} : swap_data'[t] = swap_data[t]
  BY <1>3 DEF HandInv
<1>7. {i} \cap HandedOver = {}
  OBVIOUS
<1>8. HandInv' /\ Hands({i})
  <2>1. PICK ts : ts = {h}
    OBVIOUS
  <2>2. PICK x : x = {i}
    OBVIOUS
  <2>3. HandInv' /\ Hands(x)
    BY <1>1, <1>3, <1>4, <1>5, <1>6, <1>7, <2>1, <2>2, HandGives DEF Woken, Unpended, Returns
  <2> QED BY <2>2, <2>3
<1>9. wait_q'[o] # <<>> => wait_q[o] # <<>>
  OBVIOUS
<1> QED BY <1>2, <1>8, <1>9

LEMMA QueueInserts ==
  ASSUME WaitInv, PollInv, HandInv, QueueInv, firing = None, NEW q \in Queues, NEW i \in Items,
         NEW prev, queue_insert(q, i, prev), UNCHANGED notQueueVars
  PROVE  ObjectsStep(q) /\ HandInv' /\ QueueInv' /\ Hands(Items)
<1>1. /\ UNCHANGED <<prio, call, pollerVars, count, used_msgs, signaled, poll_events>>
      /\ handling \in [Pollables -> {None, "AVAILABLE", "CANCELLED"}]
      /\ i \notin Taken
  BY DEF queue_insert, pollerVars, notQueueVars, semVars, msgqVars, PollInv, PollerTypes, eventVars
<1>2. q \in Waitables /\ q \in Pollables /\ q \in Objects
  BY KindsApart DEF Waitables
<1>3. i \notin HandedOver /\ {i} \cap UNION {ToSet(data_q[a]) : a \in Queues} = {}
  <2>1. PICK U : U = UNION {ToSet(data_q[a]) : a \in Queues}
    OBVIOUS
  <2>2. Taken = U \cup HandedOver
    BY <2>1, Zenon DEF Taken
  <2> QED BY <1>1, <2>1, <2>2
<1>4. data_q[q] \in Seq(Items) /\ ListOK(q, data_q[q]) /\ i \notin ToSet(data_q[q])
  BY <1>3 DEF QueueInv
<1>5. CASE wait_q[q] # <<>>
  <2>1. /\ WakeWith({Head(wait_q[q])}, q, "0") /\ data_q' = data_q /\ handling' = handling
        /\ swap_data' = [swap_data EXCEPT ![Head(wait_q[q])] = i]
    BY <1>5 DEF queue_insert
  <2>2. WaitInv' /\ PollInv' /\ Locally(q) /\ HandInv' /\ Hands({i})
    BY <1>1, <1>3, <1>5, <2>1, HeadGiven
  <2>3. QueueInv'
    <3>1. NoMore(Queues)
      <4>1. NoMore(Queues \ {q})
        BY <2>2, NoMoreElsewhere, KindsApart DEF Waitables
      <4> QED BY <1>5, <4>1 DEF NoMore
    <3>2. \A a \in Queues : ListOK(a, data_q[a])'
      BY <1>3, <2>1, <2>2, <3>1, QueueStays
    <3> QED BY <2>1, <3>2 DEF QueueInv
  <2>4. \A a \in Pollables : Heard(a)
    <3>1. is_condition_met(q)' => is_condition_met(q)
      BY <2>1, MetIs
    <3> QED BY <1>1, <2>1, <3>1, HeardCall
  <2>5. Hands(Items)
    BY <2>2 DEF Hands
  <2> QED BY <2>2, <2>3, <2>4, <2>5 DEF ObjectsStep
<1>6. CASE wait_q[q] = <<>>
  <2>1. PICK list : list = InsertAt(data_q[q], Place(data_q[q], prev) + 1, i)
    OBVIOUS
  <2>2. /\ UNCHANGED waitVars /\ data_q' = [data_q EXCEPT ![q] = list] /\ swap_data' = swap_data
        /\ handling' = [handling EXCEPT ![q] = "AVAILABLE"]
    BY <1>6, <2>1 DEF queue_insert, QueueInv, SelectInSeq, Place
  <2>3. list \in Seq(Items) /\ ToSet(list) = ToSet(data_q[q]) \cup {i} /\ Distinct(list)
    <3>1. PICK s : s = data_q[q]
      OBVIOUS
    <3>2. Place(s, prev) \in 0 .. Len(s)
      BY <1>4, <3>1, PlaceIs
    <3>3. PICK k \in 1 .. Len(s) + 1 : k = Place(s, prev) + 1
      BY <1>4, <3>1, <3>2
    <3> QED BY <1>4, <2>1, <3>1, <3>3, InsertAnywhere DEF ListOK
  <2>4. /\ handling' \in [Pollables -> {None, "AVAILABLE", "CANCELLED"}]
        /\ handling'[q] = "AVAILABLE" /\ \A a \in Pollables \ {q} : handling'[a] = handling[a]
    BY <1>1, <1>2, <2>2
  <2>5. WaitInv' /\ PollInv' /\ Locally(q)
    BY <1>1, <2>2, <2>4, CallAlone
  <2>6. HandInv' /\ Hands({})
    BY <1>1, <2>2, HeldAlone, HandKeeps
  <2>7. QueueInv'
    <3>1. ToSet(list) \cap HandedOver = {}
      BY <1>3, <1>4, <2>3 DEF ListOK
    <3>2. wait_q'[q] = <<>>
      BY <1>6, <2>2 DEF waitVars
    <3>3. PICK x : x = {}
      OBVIOUS
    <3> QED BY <2>2, <2>3, <2>5, <2>6, <3>1, <3>2, <3>3, QueueOnly
  <2>8. \A a \in Pollables : Heard(a)
    <3>1. \A a \in Queues \ {q} : data_q'[a] = data_q[a]
      BY <2>2 DEF QueueInv
    <3> QED BY <1>1, <2>4, <3>1, HeardCall
  <2> QED BY <2>5, <2>6, <2>7, <2>8 DEF ObjectsStep, Hands
<1> QED BY <1>5, <1>6

LEMMA QueueGets ==
  ASSUME WaitInv, PollInv, HandInv, QueueInv, firing = None, NEW q \in Queues, NEW t \in Threads,
         NEW timeout, k_queue_get(t, q, timeout), UNCHANGED notQueueVars
  PROVE  ObjectsStep(q) /\ HandInv' /\ QueueInv' /\ Hands(Items)
<1>1. /\ UNCHANGED <<prio, pollerVars, count, used_msgs, signaled, poll_events, handling>>
      /\ handling' \in [Pollables -> {None, "AVAILABLE", "CANCELLED"}]
      /\ swap_data' = swap_data /\ Running(t) /\ call \in [Threads -> Calls]
  BY DEF k_queue_get, pollerVars, notQueueVars, semVars, msgqVars, PollInv, PollerTypes, eventVars
<1>2. q \in Waitables /\ q \in Pollables /\ q \in Objects
  BY KindsApart DEF Waitables
<1>3. data_q[q] \in Seq(Items) /\ ListOK(q, data_q[q])
  BY DEF QueueInv
<1>4. PICK x : x = {}
  OBVIOUS
<1>5. CASE data_q[q] # <<>>
  <2>1. /\ UNCHANGED <<waitVars, call>> /\ data_q' = [data_q EXCEPT ![q] = Tail(data_q[q])]
    BY <1>5 DEF k_queue_get, QueueInv
  <2>2. WaitInv' /\ PollInv' /\ Locally(q)
    BY <1>1, <2>1, CallAlone
  <2>3. HandInv' /\ Hands(x)
    BY <1>1, <1>4, <2>1, HeldAlone, HandKeeps
  <2>4. PICK list : list = Tail(data_q[q])
    OBVIOUS
  <2>5. list \in Seq(Items) /\ Distinct(list) /\ ToSet(list) \subseteq ToSet(data_q[q])
    BY <1>3, <1>5, <2>4, TailList DEF ListOK
  <2>6. wait_q'[q] = <<>>
    BY <1>3, <1>5, <2>1 DEF ListOK, waitVars
  <2>7. QueueInv'
    <3>1. ToSet(list) \cap HandedOver = {}
      BY <1>3, <2>5 DEF ListOK
    <3> QED BY <1>4, <2>1, <2>2, <2>3, <2>4, <2>5, <2>6, <3>1, QueueOnly
  <2>8. \A a \in Pollables : Heard(a)
    <3>1. \A a \in Queues \ {q} : data_q'[a] = data_q[a]
      BY <2>1 DEF QueueInv
    <3>2. is_condition_met(q)' => is_condition_met(q)
      BY <1>5, MetIs
    <3> QED BY <1>1, <3>1, <3>2, HeardCall
  <2> QED BY <1>4, <2>2, <2>3, <2>7, <2>8 DEF ObjectsStep, Hands
<1>6. CASE data_q[q] = <<>>
  <2>1. PICK c : c = [op |-> "qget", obj |-> q]
    OBVIOUS
  <2>2. /\ z_pend_curr(t, q, timeout, prio) /\ call' = [call EXCEPT ![t] = c] /\ data_q' = data_q
    BY <1>6, <2>1 DEF k_queue_get, Pend
  <2>3. c \in WaitCalls \cup EventCalls /\ c.obj = q
    BY <2>1 DEF WaitCalls
  <2>4. WaitInv' /\ PollInv' /\ Locally(q) /\ Pended(t, q, timeout) /\ call'[t] = c
    BY <1>1, <1>2, <2>2, <2>3, CallPends
  <2>5. Held
    <3>1. \A u \in Threads \ {t} : call'[u] = call[u]
      BY <1>1, <2>2
    <3> QED BY <1>1, <2>4, <3>1, HeldPends
  <2>6. HandInv' /\ Hands(x)
    BY <1>1, <1>4, <2>5, HandKeeps
  <2>7. QueueInv'
    <3>1. data_q' = [data_q EXCEPT ![q] = <<>>]
      BY <1>6, <2>2 DEF QueueInv
    <3>2. <<>> \in Seq(Items) /\ Distinct(<<>>) /\ ToSet(<<>>) = {}
      BY EmptyList
    <3> QED BY <1>4, <2>4, <2>6, <3>1, <3>2, QueueOnly
  <2>8. \A a \in Pollables : Heard(a)
    <3>1. is_condition_met(q)' => is_condition_met(q)
      BY <2>2, MetIs
    <3> QED BY <1>1, <2>2, <3>1, HeardCall
  <2> QED BY <1>4, <2>4, <2>6, <2>7, <2>8 DEF ObjectsStep, Hands
<1> QED BY <1>5, <1>6

LEMMA QueueRemoves ==
  ASSUME WaitInv, PollInv, HandInv, QueueInv, NEW q \in Queues, NEW i,
         k_queue_remove(q, i), UNCHANGED notQueueVars
  PROVE  ObjectsStep(q) /\ HandInv' /\ QueueInv' /\ Hands(Items)
<1>1. /\ UNCHANGED <<prio, pollerVars, count, used_msgs, signaled, poll_events, handling>>
      /\ handling' \in [Pollables -> {None, "AVAILABLE", "CANCELLED"}]
      /\ UNCHANGED <<swap_data, waitVars, call>> /\ i \in ToSet(data_q[q])
      /\ data_q' = [data_q EXCEPT ![q] = Remaining(data_q[q], {i})]
  BY DEF k_queue_remove, pollerVars, notQueueVars, semVars, msgqVars, PollInv, PollerTypes, eventVars,
         QueueInv
<1>2. q \in Waitables /\ q \in Pollables /\ q \in Objects
  BY KindsApart DEF Waitables
<1>3. data_q[q] \in Seq(Items) /\ ListOK(q, data_q[q]) /\ data_q[q] # <<>>
  <2>1. data_q[q] \in Seq(Items) /\ ListOK(q, data_q[q])
    BY DEF QueueInv
  <2> QED BY <1>1, <2>1, NoElement
<1>4. PICK x : x = {}
  OBVIOUS
<1>5. WaitInv' /\ PollInv' /\ Locally(q)
  BY <1>1, CallAlone
<1>6. HandInv' /\ Hands(x)
  BY <1>1, <1>4, HeldAlone, HandKeeps
<1>7. PICK list : list = Remaining(data_q[q], {i})
  OBVIOUS
<1>8. list \in Seq(Items) /\ Distinct(list) /\ ToSet(list) \subseteq ToSet(data_q[q])
  <2>1. PICK s : s = data_q[q]
    OBVIOUS
  <2> QED BY <1>3, <1>7, <2>1, RemainingList DEF ListOK
<1>9. wait_q'[q] = <<>>
  BY <1>1, <1>3 DEF ListOK, waitVars
<1>10. QueueInv'
  <2>1. ToSet(list) \cap HandedOver = {}
    BY <1>3, <1>8 DEF ListOK
  <2> QED BY <1>1, <1>4, <1>5, <1>6, <1>7, <1>8, <1>9, <2>1, QueueOnly
<1>11. \A a \in Pollables : Heard(a)
  <2>1. \A a \in Queues \ {q} : data_q'[a] = data_q[a]
    BY <1>1 DEF QueueInv
  <2>2. is_condition_met(q)' => is_condition_met(q)
    BY <1>3, MetIs
  <2> QED BY <1>1, <2>1, <2>2, HeardCall
<1> QED BY <1>4, <1>5, <1>6, <1>10, <1>11 DEF ObjectsStep, Hands

LEMMA QueueCancels ==
  ASSUME WaitInv, PollInv, HandInv, QueueInv, firing = None, NEW q \in Queues,
         k_queue_cancel_wait(q), UNCHANGED notQueueVars
  PROVE  ObjectsStep(q) /\ HandInv' /\ QueueInv' /\ Hands(Items)
<1>1. /\ UNCHANGED <<prio, call, pollerVars, count, used_msgs, signaled, poll_events>>
      /\ handling \in [Pollables -> {None, "AVAILABLE", "CANCELLED"}] /\ handling[q] = None
      /\ handling' = [handling EXCEPT ![q] = "CANCELLED"]
      /\ UNCHANGED <<data_q, swap_data>>
  BY KindsApart DEF k_queue_cancel_wait, pollerVars, notQueueVars, semVars, msgqVars, queueVars, PollInv,
         PollerTypes, eventVars, Unlocked
<1>2. q \in Waitables /\ q \in Pollables /\ q \in Objects
  BY KindsApart DEF Waitables
<1>3. /\ handling' \in [Pollables -> {None, "AVAILABLE", "CANCELLED"}]
      /\ \A a \in Pollables \ {q} : handling'[a] = handling[a]
  BY <1>1, <1>2
<1>4. PICK x : x = {}
  OBVIOUS
<1>5. WaitInv' /\ PollInv' /\ Locally(q) /\ Held /\ (wait_q'[q] # <<>> => wait_q[q] # <<>>)
  <2>1. CASE wait_q[q] # <<>>
    <3>1. WakeWith({Head(wait_q[q])}, q, "0")
      BY <2>1 DEF k_queue_cancel_wait
    <3>2. /\ WaitInv' /\ PollInv' /\ Locally(q)
          /\ \E h \in Threads : /\ h = Head(wait_q[q]) /\ Woken({h}, q, "0") /\ pended_on[h] = q
                                /\ call[h].op \notin {"idle", "poll"} /\ call[h].obj = q
      BY <1>1, <1>2, <1>3, <2>1, <3>1, HeadWakes
    <3>3. PICK h \in Threads : Woken({h}, q, "0") /\ pended_on[h] = q
      BY <3>2
    <3>4. Held
      BY <1>1, <1>2, <3>3, HeldWakes DEF Woken
    <3> QED BY <2>1, <3>2, <3>4
  <2>2. CASE wait_q[q] = <<>>
    <3>1. UNCHANGED <<waitVars, call>>
      BY <1>1, <2>2 DEF k_queue_cancel_wait
    <3> QED BY <1>1, <1>3, <2>2, <3>1, CallAlone, HeldAlone DEF waitVars
  <2> QED BY <2>1, <2>2
<1>6. HandInv' /\ Hands(x)
  BY <1>1, <1>4, <1>5, HandKeeps
<1>7. QueueInv'
  <2>1. NoMore(Queues \ {q})
    BY <1>5, NoMoreElsewhere, KindsApart DEF Waitables
  <2>2. NoMore(Queues)
    BY <1>5, <2>1 DEF NoMore
  <2> QED BY <1>1, <1>4, <1>6, <2>2, QueueElsewhere
<1>8. \A a \in Pollables : Heard(a)
  <2>1. is_condition_met(q)' => is_condition_met(q)
    BY <1>1, MetIs
  <2>2. handling[q] # "AVAILABLE"
    BY <1>1, PollEventsAssumption
  <2> QED BY <1>1, <1>3, <2>1, <2>2, HeardCall
<1> QED BY <1>4, <1>5, <1>6, <1>7, <1>8 DEF ObjectsStep, Hands

\* The lists that are appended.
LEMMA ListsAre ==
  ASSUME NEW items \in ItemLists
  PROVE  items \in Seq(Items) /\ Distinct(items)
<1>1. items \in Seq(Items) /\ IsInjective(items)
  BY QueueAssumption
<1> QED BY <1>1 DEF IsInjective, Distinct

\* Of the threads that wait, those that get one of the items: the first n.
FirstServed(W, served, items, n) ==
  /\ n = Cardinality(served) /\ n <= Len(W) /\ n <= Len(items) /\ (n = Len(W) \/ n = Len(items))
  /\ served = {W[p] : p \in 1 .. n}

LEMMA ServedIs ==
  ASSUME WaitInv, NEW q \in Queues, NEW items \in Seq(Items)
  PROVE  \E n \in Nat : FirstServed(wait_q[q], Served(q, items), items, n)
<1>1. PICK W : W = wait_q[q]
  OBVIOUS
<1>2. W \in Seq(Threads) /\ Distinct(W) /\ Len(W) \in Nat
  BY <1>1, KindsApart DEF WaitInv, WaitLists, WaitTypeOK, Waitables
<1>3. PICK X : X = Served(q, items)
  OBVIOUS
<1>4. PICK n : n = IF Len(W) <= Len(items) THEN Len(W) ELSE Len(items)
  OBVIOUS
<1>5. /\ n \in Nat /\ n <= Len(W) /\ n <= Len(items) /\ (n = Len(W) \/ n = Len(items))
  BY <1>2, <1>4
<1>6. X = {W[p] : p \in 1 .. n}
  <2>1. (1 .. Len(W)) \cap (1 .. Len(items)) = 1 .. n
    BY <1>2, <1>5
  <2>2. X = {W[p] : p \in (1 .. Len(W)) \cap (1 .. Len(items))}
    BY <1>1, <1>2, <1>3 DEF Served
  <2> QED BY <2>1, <2>2
<1>7. Cardinality(X) = n
  <2>1. PICK f : f = [p \in 1 .. n |-> W[p]]
    OBVIOUS
  <2>2. \A p, r \in 1 .. n : W[p] = W[r] => p = r
    BY <1>2, <1>5 DEF Distinct
  <2>3. f \in [1 .. n -> X] /\ \A p, r \in 1 .. n : f[p] = f[r] => p = r
    BY <1>6, <2>1, <2>2
  <2>4. \A x \in X : \E p \in 1 .. n : f[p] = x
    BY <1>6, <2>1
  <2>5. f \in Bijection(1 .. n, X)
    BY <2>3, <2>4 DEF Bijection, Injection, Surjection, IsInjective
  <2>6. ExistsBijection(1 .. n, X)
    BY <2>5 DEF ExistsBijection
  <2> QED BY <1>5, <2>6, FS_CountingElements
<1>8. FirstServed(W, X, items, n)
  BY <1>5, <1>6, <1>7 DEF FirstServed
<1> QED BY <1>1, <1>3, <1>5, <1>8

\* The k-th thread is given the k-th item.
GivenFirst(given, W, n, items) ==
  /\ \A t \in Threads : t \notin {W[p] : p \in 1 .. n} => given[t] = swap_data[t]
  /\ \A k \in 1 .. n : given[W[k]] = items[k]

LEMMA GivenIs ==
  ASSUME NEW W \in Seq(Threads), Distinct(W), NEW n \in Nat, n <= Len(W), NEW items,
         NEW ts, ts = SubSeq(W, 1, n)
  PROVE  GivenFirst(GivenTo(ts, items), W, n, items)
<1>2. ts \in Seq(Threads) /\ Len(ts) = n /\ \A k \in 1 .. n : ts[k] = W[k] /\ W[k] \in Threads
  OBVIOUS
<1>3. ToSet(ts) = {W[p] : p \in 1 .. n}
  <2>1. ToSet(ts) = {ts[p] : p \in 1 .. Len(ts)}
    BY ONLY <1>2, ListElements
  <2> QED BY <1>2, <2>1
<1>4. \A t \in Threads :
        GivenTo(ts, items)[t] = IF t \in ToSet(ts) THEN items[Place(ts, t)] ELSE swap_data[t]
  BY DEF GivenTo, SelectInSeq, Place
<1>5. \A k \in 1 .. n : Place(ts, W[k]) = k
  <2> TAKE k \in 1 .. n
  <2>1. W[k] \in ToSet(ts)
    BY <1>3
  <2>2. Place(ts, W[k]) \in 1 .. n /\ ts[Place(ts, W[k])] = W[k]
    BY ONLY n \in Nat, <1>2, <2>1, PlaceIs
  <2> QED BY <1>2, <2>2 DEF Distinct
<1>6. \A k \in 1 .. n : GivenTo(ts, items)[W[k]] = items[k]
  BY <1>2, <1>3, <1>4, <1>5
<1> QED BY <1>3, <1>4, <1>6 DEF GivenFirst

\* What is left of the items is appended.
Rest(r, d, items, n) ==
  /\ r \in Seq(Items) /\ Distinct(r)
  /\ ToSet(r) \subseteq ToSet(d) \cup ToSet(items)
  /\ ToSet(r) \cap {items[k] : k \in 1 .. n} = {}
  /\ n = Len(items) /\ d = <<>> => r = <<>>

LEMMA AppendRest ==
  ASSUME NEW d \in Seq(Items), Distinct(d), NEW items \in Seq(Items), Distinct(items),
         ToSet(items) \cap ToSet(d) = {}, NEW n \in 0 .. Len(items)
  PROVE  Rest(d \o SubSeq(items, n + 1, Len(items)), d, items, n)
<1>1. PICK u : u = SubSeq(items, n + 1, Len(items))
  OBVIOUS
<1>0. PICK N \in Nat : N = Len(items)
  OBVIOUS
<1>2. u \in Seq(Items) /\ Len(u) = N - n /\ \A k \in 1 .. N - n : u[k] = items[n + k]
  BY <1>0, <1>1
<1>3. PICK r : r = d \o u
  OBVIOUS
<1>13. PICK D \in Nat : D = Len(d)
  OBVIOUS
<1>14. PICK R \in Nat : R = D + (N - n)
  <2>1. n <= N /\ n \in Nat
    BY <1>0
  <2> QED BY <2>1
<1>4. /\ r \in Seq(Items) /\ Len(r) = R
      /\ \A k \in 1 .. D : r[k] = d[k]
      /\ \A k \in 1 .. N - n : r[D + k] = u[k]
  <2>1. r \in Seq(Items) /\ Len(r) = Len(d) + Len(u)
    BY <1>2, <1>3
  <2>2. \A k \in 1 .. Len(d) : r[k] = d[k]
    BY <1>2, <1>3
  <2>3. \A k \in 1 .. Len(u) : r[Len(d) + k] = u[k]
    BY <1>2, <1>3
  <2> QED BY <1>0, <1>2, <1>13, <1>14, <2>1, <2>2, <2>3
<1>5. /\ ToSet(d) = {d[k] : k \in 1 .. D}
      /\ ToSet(items) = {items[k] : k \in 1 .. N}
  BY <1>0, <1>13, ListElements
<1>15. ToSet(r) = {r[k] : k \in 1 .. R}
  BY <1>4, ListElements
<1>6. \A k \in 1 .. R : \/ k <= D /\ r[k] = d[k] /\ d[k] \in ToSet(d)
                        \/ \E a \in n + 1 .. N : /\ a = n + (k - D) /\ r[k] = items[a]
                                                  /\ items[a] \in ToSet(items) /\ k > D
  <2> TAKE k \in 1 .. R
  <2>1. CASE k <= D
    BY <1>4, <1>5, <2>1
  <2>2. CASE k > D
    <3>1. PICK c \in 1 .. N - n : c = k - D /\ D + c = k
      BY <1>0, <1>14, <2>2
    <3>2. r[D + c] = u[c] /\ u[c] = items[n + c]
      BY <1>2, <1>4
    <3>3. n + c \in n + 1 .. N /\ n + c \in 1 .. N
      BY <1>0
    <3>4. items[n + c] \in ToSet(items)
      BY <1>5, <3>3
    <3> QED BY <2>2, <3>1, <3>2, <3>3, <3>4
  <2> QED BY <2>1, <2>2
<1>7. \A k, l \in 1 .. N : items[k] = items[l] => k = l
  BY <1>0 DEF Distinct
<1>8. Distinct(r)
  <2> SUFFICES ASSUME NEW k \in 1 .. R, NEW l \in 1 .. R, r[k] = r[l]
               PROVE  k = l
    BY <1>4 DEF Distinct
  <2>1. CASE k <= D /\ l <= D
    BY <1>4, <1>13, <2>1 DEF Distinct
  <2>2. CASE k > D /\ l > D
    <3>1. PICK a \in n + 1 .. N : a = n + (k - D) /\ r[k] = items[a]
      BY <1>6, <2>2
    <3>2. PICK b \in n + 1 .. N : b = n + (l - D) /\ r[l] = items[b]
      BY <1>6, <2>2
    <3>3. a \in 1 .. N /\ b \in 1 .. N
      BY <1>0
    <3>5. items[a] = items[b]
      BY <3>1, <3>2
    <3>4. a = b
      BY <1>7, <3>3, <3>5
    <3> QED BY <1>0, <3>1, <3>2, <3>4
  <2>3. CASE k <= D /\ l > D
    <3>1. r[k] \in ToSet(d) /\ r[l] \in ToSet(items)
      BY <1>6, <2>3
    <3> QED BY <3>1
  <2>4. CASE k > D /\ l <= D
    <3>1. r[l] \in ToSet(d) /\ r[k] \in ToSet(items)
      BY <1>6, <2>4
    <3> QED BY <3>1
  <2> QED BY <2>1, <2>2, <2>3, <2>4
<1>9. \A k \in 1 .. R : r[k] \in ToSet(d) \cup ToSet(items)
  BY <1>6
<1>10. \A k \in 1 .. n, l \in 1 .. R : items[k] # r[l]
  <2> TAKE k \in 1 .. n, l \in 1 .. R
  <2>1. items[k] \in ToSet(items)
    BY <1>0, <1>5
  <2>2. CASE r[l] \in ToSet(d)
    BY <2>1, <2>2
  <2>3. CASE \E a \in n + 1 .. N : r[l] = items[a]
    BY <1>0, <1>7, <2>3
  <2> QED BY <1>6, <2>2, <2>3
<1>11. n = Len(items) /\ d = <<>> => r = <<>>
  <2> SUFFICES ASSUME n = Len(items), d = <<>> PROVE r = <<>>
    OBVIOUS
  <2>1. Len(r) = 0
    BY <1>0, <1>4, <1>13, <1>14
  <2> QED BY <1>4, <2>1
<1>12. Rest(r, d, items, n)
  <2>1. ToSet(r) \subseteq ToSet(d) \cup ToSet(items)
    BY <1>15, <1>9
  <2>2. ToSet(r) \cap {items[k] : k \in 1 .. n} = {}
    BY <1>15, <1>10
  <2> QED BY <1>4, <1>8, <1>11, <2>1, <2>2 DEF Rest
<1> QED BY <1>1, <1>3, <1>12

LEMMA QueueAppends ==
  ASSUME WaitInv, PollInv, HandInv, QueueInv, firing = None, NEW q \in Queues,
         NEW items \in Seq(Items), Distinct(items),
         k_queue_append_list(q, items), UNCHANGED notQueueVars
  PROVE  ObjectsStep(q) /\ HandInv' /\ QueueInv' /\ Hands(Items)
<1>1. PICK W : W = wait_q[q]
  OBVIOUS
<1>2. PICK n \in Nat : FirstServed(W, Served(q, items), items, n)
  BY <1>1, ServedIs
<1>3. PICK ts : ts = Served(q, items)
  OBVIOUS
<1>4. /\ n = Cardinality(ts) /\ n <= Len(W) /\ n <= Len(items) /\ (n = Len(W) \/ n = Len(items))
      /\ ts = {W[p] : p \in 1 .. n}
  BY <1>2, <1>3 DEF FirstServed
<1>23. n \in 0 .. Len(items) /\ 1 .. n \subseteq 1 .. Len(items)
  <2>1. n <= Len(items) /\ Len(items) \in Nat
    BY <1>4
  <2> QED BY ONLY n \in Nat, <2>1
<1>5. /\ UNCHANGED <<prio, call, pollerVars, count, used_msgs, signaled, poll_events>>
      /\ handling \in [Pollables -> {None, "AVAILABLE", "CANCELLED"}]
      /\ handling' = [handling EXCEPT ![q] = "AVAILABLE"]
  BY DEF k_queue_append_list, pollerVars, notQueueVars, semVars, msgqVars, PollInv, PollerTypes,
         eventVars
<1>6. PICK list : list = data_q[q] \o SubSeq(items, n + 1, Len(items))
  OBVIOUS
<1>7. /\ ToSet(items) \cap Taken = {}
      /\ swap_data' = GivenTo(SubSeq(W, 1, n), items)
      /\ Unpend(ts \cup Excess(q, items), q) /\ SetReturn(ts, "0")
      /\ data_q' = [data_q EXCEPT ![q] = list]
  BY <1>1, <1>3, <1>4, <1>6 DEF k_queue_append_list, QueueInv
<1>8. q \in Waitables /\ q \in Pollables /\ q \in Objects
  BY KindsApart DEF Waitables
<1>9. /\ handling' \in [Pollables -> {None, "AVAILABLE", "CANCELLED"}]
      /\ handling'[q] = "AVAILABLE" /\ \A a \in Pollables \ {q} : handling'[a] = handling[a]
  BY <1>5, <1>8
<1>10. W \in Seq(Threads) /\ Distinct(W) /\ ToSet(W) = {W[p] : p \in 1 .. Len(W)}
  BY <1>1, <1>8, ListElements DEF WaitInv, WaitLists, WaitTypeOK
<1>11. ts \in SUBSET ToSet(wait_q[q])
  <2>1. n <= Len(W) /\ Len(W) \in Nat
    BY <1>4, <1>10
  <2>2. 1 .. n \subseteq 1 .. Len(W)
    BY ONLY n \in Nat, <2>1
  <2> QED BY <1>1, <1>4, <1>10, <2>2
<1>24. PICK off : off = ts \cup Excess(q, items)
  OBVIOUS
<1>25. off \in SUBSET ToSet(wait_q[q]) /\ ts \in SUBSET off
  <2>1. Excess(q, items) \subseteq ToSet(wait_q[q])
    BY <1>1, <1>10 DEF Excess
  <2> QED BY <1>11, <1>24, <2>1
<1>12. Unpended(off, q) /\ Returns(ts, "0")
  <2>1. WaitLists /\ "0" \in Rets /\ q \in Objects /\ UNCHANGED prio
    BY <1>5, <1>8 DEF WaitInv, Rets
  <2>2. firing \notin ts
    BY <1>10, <1>11, <1>1, KindsDiffer, ListElements
  <2>3. Unpend(off, q) /\ SetReturn(ts, "0")
    BY <1>7, <1>24
  <2>4. /\ wait_q' = [wait_q EXCEPT ![q] = Remaining(@, off)]
        /\ pended_on' = [t \in Threads |-> IF t \in off THEN None ELSE pended_on[t]]
        /\ armed' = armed \ off
        /\ swap_retval' = [t \in Threads |-> IF t \in ts THEN "0" ELSE swap_retval[t]]
        /\ firing' = None
        /\ UNCHANGED forever
    BY <2>2, <2>3 DEF Unpend, SetReturn
  <2> QED BY <1>25, <2>1, <2>4, UnpendWaits
<1>13. WaitInv' /\ PollInv' /\ Locally(q)
  BY <1>5, <1>8, <1>9, <1>12, <1>25, CallWakes
<1>14. \A t \in Threads : t \in off => pended_on[t] = q /\ call[t].op \in Giving
  BY <1>25, QueueWaiters
<1>15. Held
  BY <1>5, <1>8, <1>12, <1>14, HeldWakes
<1>16. PICK x : x = {items[k] : k \in 1 .. n}
  OBVIOUS
<1>17. /\ DOMAIN swap_data' = Threads
       /\ \A t \in Threads : t \notin ts => swap_data'[t] = swap_data[t]
       /\ \A k \in 1 .. n : swap_data'[W[k]] = items[k]
  <2>1. DOMAIN swap_data' = Threads
    BY <1>7 DEF GivenTo
  <2>2. PICK us : us = SubSeq(W, 1, n)
    OBVIOUS
  <2>3. n <= Len(W) /\ swap_data' = GivenTo(us, items) /\ ts = {W[p] : p \in 1 .. n}
    BY <1>4, <1>7, <2>2
  <2>4. GivenFirst(GivenTo(us, items), W, n, items)
    BY <1>10, <2>2, <2>3, GivenIs
  <2> QED BY <2>1, <2>3, <2>4 DEF GivenFirst
<1>18. ToSet(items) = {items[k] : k \in 1 .. Len(items)} /\ x \subseteq ToSet(items)
       /\ ToSet(items) \subseteq Items
  <2>1. ToSet(items) = {items[k] : k \in 1 .. Len(items)} /\ ToSet(items) \subseteq Items
    BY ListElements
  <2> QED BY <1>16, <1>23, <2>1
<1>19. /\ ToSet(items) \cap HandedOver = {}
       /\ ToSet(items) \cap UNION {ToSet(data_q[a]) : a \in Queues} = {}
  <2>1. PICK U : U = UNION {ToSet(data_q[a]) : a \in Queues}
    OBVIOUS
  <2>2. Taken = U \cup HandedOver
    BY <2>1, Zenon DEF Taken
  <2>3. ToSet(items) \cap Taken = {}
    BY <1>7
  <2>4. PICK Y, H : Y = ToSet(items) /\ H = HandedOver
    OBVIOUS
  <2>5. Y \cap (U \cup H) = {}
    BY ONLY <2>2, <2>3, <2>4
  <2>6. Y \cap H = {} /\ Y \cap U = {}
    BY ONLY <2>5
  <2> QED BY ONLY <2>1, <2>4, <2>6
<1>20. HandInv' /\ Hands(x)
  <2>1. \A t \in Threads : t \in ts => \E k \in 1 .. n : t = W[k] /\ swap_data'[t] = items[k]
    <3>1. \A k \in 1 .. n : swap_data'[W[k]] = items[k]
      BY <1>17
    <3>2. ts = {W[k] : k \in 1 .. n}
      BY <1>4
    <3> QED BY ONLY <3>1, <3>2
  <2>2. \A t \in Threads : t \in ts => swap_data'[t] \in x
    BY ONLY <1>16, <2>1
  <2>3. \A k, l \in 1 .. n : items[k] = items[l] => k = l
    BY <1>4 DEF Distinct
  <2>4. \A t, u \in Threads : t \in ts /\ u \in ts /\ swap_data'[t] = swap_data'[u] => t = u
    BY <2>1, <2>3
  <2>5. x \cap HandedOver = {}
    BY <1>18, <1>19
  <2>6. \A t \in Threads : t \in ts => pended_on'[t] = None /\ swap_retval'[t] = "0"
    BY <1>12, <1>25 DEF Unpended, Returns
  <2>7. \A t \in Threads : t \in ts => call[t].op \in Giving
    BY <1>14, <1>25
  <2> QED BY <1>5, <1>8, <1>15, <1>17, <2>2, <2>4, <2>5, <2>6, <2>7, HandGives
<1>21. QueueInv'
  <2>1. PICK d : d = data_q[q]
    OBVIOUS
  <2>2. d \in Seq(Items) /\ ListOK(q, d) /\ ToSet(items) \cap ToSet(d) = {}
    BY <1>19, <2>1 DEF QueueInv
  <2>3. Rest(list, d, items, n)
    BY <1>6, <1>23, <2>1, <2>2, AppendRest DEF ListOK
  <2>4. wait_q'[q] # <<>> => list = <<>>
    <3> SUFFICES ASSUME wait_q'[q] # <<>> PROVE list = <<>>
      OBVIOUS
    <3>1. W # <<>> /\ ToSet(W) \ off # {}
      BY <1>1, <1>8, <1>12, <1>13, WokenQueue
    <3>2. n # Len(W)
      BY <1>4, <1>10, <1>25, <3>1
    <3>3. d = <<>>
      BY <1>1, <2>2, <3>1 DEF ListOK
    <3> QED BY <1>4, <2>3, <3>2, <3>3 DEF Rest
  <2>5. ToSet(list) \cap HandedOver = {} /\ ToSet(list) \cap x = {}
    BY <1>16, <1>19, <2>2, <2>3 DEF ListOK, Rest
  <2>6. x \cap UNION {ToSet(data_q[a]) : a \in Queues} = {}
    BY <1>18, <1>19
  <2>7. list \in Seq(Items) /\ Distinct(list)
    BY <2>3 DEF Rest
  <2> QED BY <1>7, <1>13, <1>20, <2>4, <2>5, <2>6, <2>7, QueueOnly
<1>22. \A a \in Pollables : Heard(a)
  <2>1. \A a \in Queues \ {q} : data_q'[a] = data_q[a]
    BY <1>7 DEF QueueInv
  <2> QED BY <1>5, <1>9, <2>1, HeardCall
<1> QED BY <1>13, <1>18, <1>20, <1>21, <1>22 DEF ObjectsStep, Hands

-----------------------------------------------------------------------------
(* Stacks *)

\* No object changes.
LEMMA MetSame ==
  ASSUME UNCHANGED <<count, used_msgs, data_q, signaled>>
  PROVE  \A a \in Pollables : is_condition_met(a)' <=> is_condition_met(a)
<1> TAKE a \in Pollables
<1>1. CASE a \in Sems
  BY <1>1, MetIs
<1>2. CASE a \in MsgQs
  BY <1>2, MetIs
<1>3. CASE a \in Queues
  BY <1>3, MetIs
<1>4. CASE a \in Signals
  BY <1>4, MetIs
<1> QED BY <1>1, <1>2, <1>3, <1>4 DEF Pollables

\* A call on an object that cannot be polled: of those that can, none changes.
LEMMA HeardNothing ==
  ASSUME UNCHANGED <<count, used_msgs, data_q, signaled, poll_events, handling>>
  PROVE  \A a \in Pollables : Heard(a)
BY MetSame, HeardBefore

\* The last element is taken off a list.
LEMMA FrontList ==
  ASSUME NEW S, NEW s \in Seq(S), s # <<>>, Distinct(s)
  PROVE  Front(s) \in Seq(S) /\ Distinct(Front(s)) /\ ToSet(Front(s)) \subseteq ToSet(s)
<1>1. PICK n \in Nat : n = Len(s) - 1
  <2>1. Len(s) \in Nat /\ Len(s) # 0
    OBVIOUS
  <2> QED BY <2>1
<1>2. PICK f : f = Front(s)
  OBVIOUS
<1>3. f \in Seq(S) /\ Len(f) = n /\ \A i \in 1 .. n : f[i] = s[i]
  BY <1>1, <1>2 DEF Front
<1>4. Distinct(f)
  BY <1>1, <1>3 DEF Distinct
<1>5. ToSet(f) = {f[i] : i \in 1 .. Len(f)} /\ ToSet(s) = {s[i] : i \in 1 .. Len(s)}
  BY <1>3, ListElements
<1>6. \A i \in 1 .. n : f[i] \in ToSet(s)
  <2>1. 1 .. n \subseteq 1 .. Len(s)
    BY <1>1
  <2> QED BY <1>3, <1>5, <2>1
<1>7. ToSet(f) \subseteq ToSet(s)
  BY <1>3, <1>5, <1>6
<1> QED BY <1>2, <1>3, <1>4, <1>7

notStackVars ==
  <<semVars, msgqVars, data_q, lost, slabVars, eventObjVars, signaled, twork, handler, used>>

LEMMA StackOnly ==
  ASSUME StackInv, NEW k \in Stacks, Locally(k), NEW x, Hands(x), x \cap Pushed = {},
         NEW list \in Seq(Words), pushed' = [pushed EXCEPT ![k] = list],
         Distinct(list), ToSet(list) \cap HandedOver = {}, ToSet(list) \cap x = {},
         wait_q'[k] # <<>> => list = <<>>
  PROVE  StackInv'
<1>1. pushed' \in [Stacks -> Seq(Words)] /\ pushed'[k] = list
      /\ \A a \in Stacks \ {k} : pushed'[a] = pushed[a]
  BY DEF StackInv
<1>2. NoMore(Stacks \ {k})
  <2>1. Stacks \ {k} \in SUBSET Objects
    BY KindsApart DEF Waitables
  <2> QED BY <2>1, NoMoreElsewhere
<1>3. \A a \in Stacks \ {k} : ListOK(a, pushed[a])'
  BY <1>1, <1>2, StackStays
<1>4. ListOK(k, pushed[k])'
  BY <1>1 DEF ListOK, Hands
<1> QED BY <1>1, <1>3, <1>4 DEF StackInv

LEMMA StackPushes ==
  ASSUME WaitInv, PollInv, HandInv, StackInv, firing = None, NEW k \in Stacks, NEW i \in Words,
         k_stack_push(k, i), UNCHANGED notStackVars
  PROVE  ObjectsStep(k) /\ HandInv' /\ StackInv' /\ Hands(Words)
<1>1. /\ UNCHANGED <<prio, call, pollerVars, count, used_msgs, data_q, signaled, poll_events, handling>>
      /\ handling' \in [Pollables -> {None, "AVAILABLE", "CANCELLED"}]
      /\ i \notin Pushed /\ i \notin HandedOver
  BY DEF k_stack_push, pollerVars, notStackVars, semVars, msgqVars, PollInv, PollerTypes, eventVars
<1>2. \A a \in Pollables : Heard(a)
  BY <1>1, HeardNothing
<1>3. pushed[k] \in Seq(Words) /\ ListOK(k, pushed[k]) /\ i \notin ToSet(pushed[k])
  BY <1>1 DEF StackInv, Pushed
<1>4. CASE wait_q[k] # <<>>
  <2>1. /\ WakeWith({Head(wait_q[k])}, k, "0") /\ pushed' = pushed
        /\ swap_data' = [swap_data EXCEPT ![Head(wait_q[k])] = i]
    BY <1>4 DEF k_stack_push
  <2>2. WaitInv' /\ PollInv' /\ Locally(k) /\ HandInv' /\ Hands({i})
    BY <1>1, <1>4, <2>1, HeadGiven
  <2>3. StackInv'
    <3>1. NoMore(Stacks)
      <4>1. NoMore(Stacks \ {k})
        BY <2>2, NoMoreElsewhere, KindsApart DEF Waitables
      <4> QED BY <1>4, <4>1 DEF NoMore
    <3>2. {i} \cap Pushed = {}
      BY <1>1
    <3>3. \A a \in Stacks : ListOK(a, pushed[a])'
      BY <2>1, <2>2, <3>1, <3>2, StackStays
    <3> QED BY <2>1, <3>3 DEF StackInv
  <2> QED BY <1>2, <2>2, <2>3 DEF ObjectsStep, Hands
<1>5. CASE wait_q[k] = <<>>
  <2>1. PICK list : list = Append(pushed[k], i)
    OBVIOUS
  <2>2. UNCHANGED waitVars /\ pushed' = [pushed EXCEPT ![k] = list] /\ swap_data' = swap_data
    BY <1>5, <2>1 DEF k_stack_push, StackInv
  <2>3. list \in Seq(Words) /\ ToSet(list) = ToSet(pushed[k]) \cup {i} /\ Distinct(list)
    BY <1>3, <2>1, AppendList DEF ListOK
  <2>4. WaitInv' /\ PollInv' /\ Locally(k)
    BY <1>1, <2>2, CallAlone
  <2>5. PICK x : x = {}
    OBVIOUS
  <2>6. HandInv' /\ Hands(x)
    BY <1>1, <2>2, <2>5, HeldAlone, HandKeeps
  <2>7. StackInv'
    <3>1. ToSet(list) \cap HandedOver = {}
      BY <1>1, <1>3, <2>3 DEF ListOK
    <3>2. wait_q'[k] = <<>>
      BY <1>5, <2>2 DEF waitVars
    <3> QED BY <2>2, <2>3, <2>4, <2>5, <2>6, <3>1, <3>2, StackOnly
  <2> QED BY <1>2, <2>4, <2>5, <2>6, <2>7 DEF ObjectsStep, Hands
<1> QED BY <1>4, <1>5

LEMMA StackPops ==
  ASSUME WaitInv, PollInv, HandInv, StackInv, firing = None, NEW k \in Stacks, NEW t \in Threads,
         NEW timeout, k_stack_pop(t, k, timeout), UNCHANGED notStackVars
  PROVE  ObjectsStep(k) /\ HandInv' /\ StackInv' /\ Hands(Words)
<1>1. /\ UNCHANGED <<prio, pollerVars, count, used_msgs, data_q, signaled, poll_events, handling>>
      /\ handling' \in [Pollables -> {None, "AVAILABLE", "CANCELLED"}]
      /\ swap_data' = swap_data /\ Running(t) /\ call \in [Threads -> Calls]
  BY DEF k_stack_pop, pollerVars, notStackVars, semVars, msgqVars, PollInv, PollerTypes, eventVars
<1>2. \A a \in Pollables : Heard(a)
  BY <1>1, HeardNothing
<1>3. pushed[k] \in Seq(Words) /\ ListOK(k, pushed[k]) /\ k \in Waitables
  BY KindsApart DEF StackInv
<1>4. PICK x : x = {}
  OBVIOUS
<1>5. CASE pushed[k] # <<>>
  <2>1. PICK list : list = Front(pushed[k])
    OBVIOUS
  <2>2. UNCHANGED <<waitVars, call>> /\ pushed' = [pushed EXCEPT ![k] = list]
    BY <1>5, <2>1 DEF k_stack_pop, StackInv
  <2>3. WaitInv' /\ PollInv' /\ Locally(k)
    BY <1>1, <2>2, CallAlone
  <2>4. HandInv' /\ Hands(x)
    BY <1>1, <1>4, <2>2, HeldAlone, HandKeeps
  <2>5. list \in Seq(Words) /\ Distinct(list) /\ ToSet(list) \subseteq ToSet(pushed[k])
    BY <1>3, <1>5, <2>1, FrontList DEF ListOK
  <2>6. wait_q'[k] = <<>>
    BY <1>3, <1>5, <2>2 DEF ListOK, waitVars
  <2>7. ToSet(list) \cap HandedOver = {}
    BY <1>3, <2>5 DEF ListOK
  <2>8. StackInv'
    BY <1>4, <2>2, <2>3, <2>4, <2>5, <2>6, <2>7, StackOnly
  <2> QED BY <1>2, <1>4, <2>3, <2>4, <2>8 DEF ObjectsStep, Hands
<1>6. CASE pushed[k] = <<>>
  <2>1. PICK c : c = [op |-> "pop", obj |-> k]
    OBVIOUS
  <2>2. z_pend_curr(t, k, timeout, prio) /\ call' = [call EXCEPT ![t] = c] /\ pushed' = pushed
    BY <1>6, <2>1 DEF k_stack_pop, Pend
  <2>3. c \in WaitCalls \cup EventCalls /\ c.obj = k
    BY <2>1 DEF WaitCalls
  <2>4. WaitInv' /\ PollInv' /\ Locally(k) /\ Pended(t, k, timeout) /\ call'[t] = c
    BY <1>1, <1>3, <2>2, <2>3, CallPends
  <2>5. Held
    <3>1. \A u \in Threads \ {t} : call'[u] = call[u]
      BY <1>1, <2>2
    <3> QED BY <1>1, <2>4, <3>1, HeldPends
  <2>6. HandInv' /\ Hands(x)
    BY <1>1, <1>4, <2>5, HandKeeps
  <2>7. StackInv'
    <3>1. pushed' = [pushed EXCEPT ![k] = <<>>]
      BY <1>6, <2>2 DEF StackInv
    <3>2. <<>> \in Seq(Words) /\ Distinct(<<>>) /\ ToSet(<<>>) = {}
      BY EmptyList
    <3> QED BY <1>4, <2>4, <2>6, <3>1, <3>2, StackOnly
  <2> QED BY <1>2, <1>4, <2>4, <2>6, <2>7 DEF ObjectsStep, Hands
<1> QED BY <1>5, <1>6

-----------------------------------------------------------------------------
(* Memory slabs *)

notSlabVars == <<semVars, msgqVars, data_q, lost, pushed, eventObjVars, signaled, twork, handler, used>>

LEMMA SlabOnly ==
  ASSUME SlabInv, NEW l \in Slabs, Locally(l), NEW x, Hands(x), x \subseteq ToSet(Blocks[l]),
         NEW list \in Seq(ToSet(Blocks[l])), free_list' = [free_list EXCEPT ![l] = list],
         NEW n \in Int, num_used' = [num_used EXCEPT ![l] = n], n + Len(list) = Len(Blocks[l]),
         Distinct(list), ToSet(list) \cap HandedOver = {}, ToSet(list) \cap x = {},
         wait_q'[l] # <<>> => list = <<>>
  PROVE  SlabInv'
<1>1. /\ free_list' = [a \in Slabs |-> free_list'[a]] /\ free_list'[l] = list
      /\ num_used' \in [Slabs -> Int] /\ num_used'[l] = n
      /\ \A a \in Slabs \ {l} : free_list'[a] = free_list[a] /\ num_used'[a] = num_used[a]
  BY DEF SlabInv
<1>2. NoMore(Slabs \ {l})
  <2>1. Slabs \ {l} \in SUBSET Objects
    BY KindsApart DEF Waitables
  <2> QED BY <2>1, NoMoreElsewhere
<1>3. \A a \in Slabs \ {l} : x \cap ToSet(free_list[a]) = {}
  <2> TAKE a \in Slabs \ {l}
  <2>1. ToSet(free_list[a]) \subseteq ToSet(Blocks[a])
    BY ListElements DEF SlabInv, SlabOK
  <2>2. ToSet(Blocks[l]) \cap ToSet(Blocks[a]) = {}
    BY MemSlabAssumption
  <2> QED BY <2>1, <2>2
<1>4. \A a \in Slabs \ {l} : SlabOK(a)'
  BY <1>1, <1>2, <1>3, SlabStays
<1>5. ListOK(l, free_list[l])'
  BY <1>1 DEF ListOK, Hands
<1>6. SlabOK(l)'
  BY <1>1, <1>5 DEF SlabOK
<1> QED BY <1>1, <1>4, <1>6 DEF SlabInv

LEMMA SlabFrees ==
  ASSUME WaitInv, PollInv, HandInv, SlabInv, firing = None, NEW l \in Slabs, NEW b \in ToSet(Blocks[l]),
         k_mem_slab_free(l, b), UNCHANGED notSlabVars
  PROVE  ObjectsStep(l) /\ HandInv' /\ SlabInv' /\ Hands(ToSet(Blocks[l]))
<1>1. /\ UNCHANGED <<prio, call, pollerVars, count, used_msgs, data_q, signaled, poll_events, handling>>
      /\ handling' \in [Pollables -> {None, "AVAILABLE", "CANCELLED"}]
      /\ b \notin ToSet(free_list[l]) /\ b \notin HandedOver
  BY DEF k_mem_slab_free, pollerVars, notSlabVars, semVars, msgqVars, PollInv, PollerTypes, eventVars
<1>2. \A a \in Pollables : Heard(a)
  BY <1>1, HeardNothing
<1>3. /\ free_list[l] \in Seq(ToSet(Blocks[l])) /\ ListOK(l, free_list[l]) /\ num_used[l] \in Int
      /\ num_used[l] + Len(free_list[l]) = Len(Blocks[l])
  BY DEF SlabInv, SlabOK
<1>4. CASE wait_q[l] # <<>>
  <2>0. free_list[l] = <<>> /\ SomeoneWaits(l)
    BY <1>3, <1>4 DEF ListOK, SomeoneWaits
  <2>1. /\ WakeWith({Head(wait_q[l])}, l, "0") /\ UNCHANGED <<free_list, num_used>>
        /\ swap_data' = [swap_data EXCEPT ![Head(wait_q[l])] = b]
    BY <2>0 DEF k_mem_slab_free, slabVars
  <2>2. WaitInv' /\ PollInv' /\ Locally(l) /\ HandInv' /\ Hands({b})
    BY <1>1, <1>4, <2>1, HeadGiven
  <2>3. SlabInv'
    <3>1. <<>> \in Seq(ToSet(Blocks[l])) /\ ToSet(<<>>) = {} /\ Distinct(<<>>)
      BY EmptyList
    <3>2. free_list' = [free_list EXCEPT ![l] = <<>>]
      BY <2>0, <2>1 DEF SlabInv
    <3>3. PICK n \in Int : n = num_used[l]
      BY <1>3
    <3>4. num_used' = [num_used EXCEPT ![l] = n] /\ n + Len(<<>>) = Len(Blocks[l])
      BY <1>3, <2>0, <2>1, <3>3 DEF SlabInv
    <3>5. PICK x : x = {b}
      OBVIOUS
    <3> QED BY <2>2, <3>1, <3>2, <3>3, <3>4, <3>5, SlabOnly
  <2> QED BY <1>2, <2>2, <2>3 DEF ObjectsStep, Hands
<1>5. CASE wait_q[l] = <<>>
  <2>1. PICK list : list = <<b>> \o free_list[l]
    OBVIOUS
  <2>2. PICK n \in Int : n = num_used[l] - 1
    BY <1>3
  <2>3. /\ UNCHANGED waitVars /\ free_list' = [free_list EXCEPT ![l] = list] /\ swap_data' = swap_data
        /\ num_used' = [num_used EXCEPT ![l] = n]
    BY <1>5, <2>1, <2>2 DEF k_mem_slab_free, SlabInv, SomeoneWaits
  <2>4. /\ list \in Seq(ToSet(Blocks[l])) /\ ToSet(list) = ToSet(free_list[l]) \cup {b} /\ Distinct(list)
    BY <1>1, <1>3, <2>1, PrependList DEF ListOK
  <2>5. Len(list) = 1 + Len(free_list[l])
    <3>1. PICK s : s = free_list[l]
      OBVIOUS
    <3>2. PICK S : S = ToSet(Blocks[l])
      OBVIOUS
    <3>3. s \in Seq(S) /\ b \in S
      BY <1>1, <1>3, <3>1, <3>2
    <3>4. <<b>> \in Seq(S) /\ Len(<<b>>) = 1
      BY ONLY <3>3
    <3>5. Len(<<b>> \o s) = Len(<<b>>) + Len(s)
      BY ONLY <3>3, <3>4, ConcatProperties
    <3> QED BY ONLY <2>1, <3>1, <3>4, <3>5
  <2>6. n + Len(list) = Len(Blocks[l])
    <3>1. PICK m, f, g : m = num_used[l] /\ f = Len(free_list[l]) /\ g = Len(Blocks[l])
      OBVIOUS
    <3>2. m \in Int /\ f \in Nat /\ m + f = g
      BY ONLY <1>3, <3>1
    <3>3. PICK h : h = Len(list)
      OBVIOUS
    <3>4. n = m - 1 /\ h = 1 + f
      BY ONLY <2>2, <2>5, <3>1, <3>3
    <3>5. n + h = g
      BY ONLY <3>2, <3>4
    <3> QED BY ONLY <3>1, <3>3, <3>5
  <2>7. WaitInv' /\ PollInv' /\ Locally(l)
    BY <1>1, <2>3, CallAlone
  <2>8. PICK x : x = {}
    OBVIOUS
  <2>9. HandInv' /\ Hands(x)
    BY <1>1, <2>3, <2>8, HeldAlone, HandKeeps
  <2>10. SlabInv'
    <3>1. ToSet(list) \cap HandedOver = {}
      BY <1>1, <1>3, <2>4 DEF ListOK
    <3>2. wait_q'[l] = <<>>
      BY <1>5, <2>3 DEF waitVars
    <3> QED BY <2>2, <2>3, <2>4, <2>6, <2>7, <2>8, <2>9, <3>1, <3>2, SlabOnly
  <2> QED BY <1>2, <2>7, <2>8, <2>9, <2>10 DEF ObjectsStep, Hands
<1> QED BY <1>4, <1>5

LEMMA SlabAllocs ==
  ASSUME WaitInv, PollInv, HandInv, SlabInv, firing = None, NEW l \in Slabs, NEW t \in Threads,
         NEW timeout, k_mem_slab_alloc(t, l, timeout), UNCHANGED notSlabVars
  PROVE  ObjectsStep(l) /\ HandInv' /\ SlabInv' /\ Hands(ToSet(Blocks[l]))
<1>1. /\ UNCHANGED <<prio, pollerVars, count, used_msgs, data_q, signaled, poll_events, handling>>
      /\ handling' \in [Pollables -> {None, "AVAILABLE", "CANCELLED"}]
      /\ swap_data' = swap_data /\ Running(t) /\ call \in [Threads -> Calls]
  BY DEF k_mem_slab_alloc, pollerVars, notSlabVars, semVars, msgqVars, PollInv, PollerTypes, eventVars
<1>2. \A a \in Pollables : Heard(a)
  BY <1>1, HeardNothing
<1>3. /\ free_list[l] \in Seq(ToSet(Blocks[l])) /\ ListOK(l, free_list[l]) /\ num_used[l] \in Int
      /\ num_used[l] + Len(free_list[l]) = Len(Blocks[l]) /\ l \in Waitables
  BY KindsApart DEF SlabInv, SlabOK
<1>4. PICK x : x = {}
  OBVIOUS
<1>5. CASE free_list[l] # <<>>
  <2>1. PICK list : list = Tail(free_list[l])
    OBVIOUS
  <2>2. PICK n \in Int : n = num_used[l] + 1
    BY <1>3
  <2>3. /\ UNCHANGED <<waitVars, call>> /\ free_list' = [free_list EXCEPT ![l] = list]
        /\ num_used' = [num_used EXCEPT ![l] = n]
    BY <1>5, <2>1, <2>2 DEF k_mem_slab_alloc, SlabInv
  <2>4. WaitInv' /\ PollInv' /\ Locally(l)
    BY <1>1, <2>3, CallAlone
  <2>5. HandInv' /\ Hands(x)
    BY <1>1, <1>4, <2>3, HeldAlone, HandKeeps
  <2>6. list \in Seq(ToSet(Blocks[l])) /\ Distinct(list) /\ ToSet(list) \subseteq ToSet(free_list[l])
    <3>1. PICK s : s = free_list[l]
      OBVIOUS
    <3>2. PICK S : S = ToSet(Blocks[l])
      OBVIOUS
    <3>3. s \in Seq(S) /\ s # <<>> /\ Distinct(s) /\ list = Tail(s)
      BY <1>3, <1>5, <2>1, <3>1, <3>2 DEF ListOK
    <3>4. list \in Seq(S) /\ Distinct(list) /\ ToSet(list) \subseteq ToSet(s)
      BY <3>3, TailList
    <3> QED BY <3>1, <3>2, <3>4
  <2>7. Len(list) = Len(free_list[l]) - 1
    <3>1. PICK s : s = free_list[l]
      OBVIOUS
    <3>2. s \in Seq(ToSet(Blocks[l])) /\ s # <<>>
      BY <1>3, <1>5, <3>1
    <3> QED BY <2>1, <3>1, <3>2
  <2>8. n + Len(list) = Len(Blocks[l])
    BY <1>3, <2>2, <2>7
  <2>9. wait_q'[l] = <<>>
    BY <1>3, <1>5, <2>3 DEF ListOK, waitVars
  <2>10. ToSet(list) \cap HandedOver = {}
    BY <1>3, <2>6 DEF ListOK
  <2>11. SlabInv'
    BY <1>4, <2>2, <2>3, <2>4, <2>5, <2>6, <2>8, <2>9, <2>10, SlabOnly
  <2> QED BY <1>2, <1>4, <2>4, <2>5, <2>11 DEF ObjectsStep, Hands
<1>6. CASE free_list[l] = <<>>
  <2>1. PICK c : c = [op |-> "alloc", obj |-> l]
    OBVIOUS
  <2>2. /\ z_pend_curr(t, l, timeout, prio) /\ call' = [call EXCEPT ![t] = c]
        /\ UNCHANGED <<free_list, num_used>>
    BY <1>6, <2>1 DEF k_mem_slab_alloc, Pend, slabVars
  <2>3. c \in WaitCalls \cup EventCalls /\ c.obj = l
    BY <2>1 DEF WaitCalls
  <2>4. WaitInv' /\ PollInv' /\ Locally(l) /\ Pended(t, l, timeout) /\ call'[t] = c
    BY <1>1, <1>3, <2>2, <2>3, CallPends
  <2>5. Held
    <3>1. \A u \in Threads \ {t} : call'[u] = call[u]
      BY <1>1, <2>2
    <3> QED BY <1>1, <2>4, <3>1, HeldPends
  <2>6. HandInv' /\ Hands(x)
    BY <1>1, <1>4, <2>5, HandKeeps
  <2>7. SlabInv'
    <3>1. <<>> \in Seq(ToSet(Blocks[l])) /\ ToSet(<<>>) = {} /\ Distinct(<<>>)
      BY EmptyList
    <3>2. free_list' = [free_list EXCEPT ![l] = <<>>]
      BY <1>6, <2>2 DEF SlabInv
    <3>3. PICK n \in Int : n = num_used[l]
      BY <1>3
    <3>4. num_used' = [num_used EXCEPT ![l] = n] /\ n + Len(<<>>) = Len(Blocks[l])
      BY <1>3, <1>6, <2>2, <3>3 DEF SlabInv
    <3> QED BY <1>4, <2>4, <2>6, <3>1, <3>2, <3>3, <3>4, SlabOnly
  <2> QED BY <1>2, <1>4, <2>4, <2>6, <2>7 DEF ObjectsStep, Hands
<1> QED BY <1>5, <1>6

-----------------------------------------------------------------------------
\* A call returns with what it was given.
LEMMA GivenGoes ==
  ASSUME WaitInv, PollInv, HandInv, NEW t \in Threads, GivenReturns(t),
         UNCHANGED <<semVars, msgqVars, data_q, lost, plainVars, signaled, twork, handler, used>>
  PROVE  /\ ObjectsStep(call[t].obj) /\ HandInv' /\ Hands({None}) /\ wait_q' = wait_q
         /\ call[t].obj \in Queues \cup Stacks \cup Slabs
<1>1. /\ Returning(t, Giving) /\ call' = [call EXCEPT ![t] = Idle]
      /\ swap_data' = [swap_data EXCEPT ![t] = None]
      /\ UNCHANGED <<prio, waitVars, pollerVars, handling, count, used_msgs, data_q, signaled,
                     poll_events>>
  BY DEF GivenReturns, pollerVars, semVars, msgqVars, eventVars
<1>2. PICK o : o = call[t].obj
  OBVIOUS
<1>3. call \in [Threads -> Calls] /\ o \in Queues \cup Stacks \cup Slabs
  <2>1. call \in [Threads -> Calls] /\ call[t].op \in {"qget", "pop", "alloc"}
    BY <1>1 DEF PollInv, PollerTypes, Returning, Giving
  <2> QED BY <1>2, <2>1, WaitsFor
<1>4. WaitInv' /\ PollInv' /\ Locally(o)
  <2>1. Giving \in SUBSET {"take", "put", "get", "qget", "pop", "alloc", "event"}
    BY DEF Giving
  <2> QED BY <1>1, <1>2, <2>1, CallReturns
<1>5. \A a \in Pollables : Heard(a)
  BY <1>1, HeardNothing
<1>6. /\ DOMAIN swap_data' = Threads /\ swap_data'[t] = None
      /\ \A u \in Threads \ {t} : swap_data'[u] = swap_data[u] /\ call'[u] = call[u]
  BY <1>1, <1>3 DEF HandInv
<1>7. HandInv'
  <2>1. \A u \in Threads : swap_data'[u] # None => Returning(u, Giving)' /\ swap_retval'[u] = "0"
    BY <1>1, <1>6 DEF HandInv, Returning, waitVars
  <2>2. \A u, v \in Threads : swap_data'[u] = swap_data'[v] => u = v \/ swap_data'[u] = None
    BY <1>6 DEF HandInv
  <2> QED BY <1>6, <2>1, <2>2 DEF HandInv
<1>8. Hands({None})
  BY <1>6 DEF Hands, HandedOver
<1> QED BY <1>1, <1>2, <1>3, <1>4, <1>5, <1>7, <1>8 DEF ObjectsStep, waitVars

-----------------------------------------------------------------------------
(* Event objects *)

\* A thread waits for what is not there, and is woken with what it waited for.
EventWait(t) ==
  call[t].op = "event" =>
    IF pended_on[t] # None
      THEN /\ thread_events[t] = call[t].desired
           /\ ~are_wait_conditions_met(call[t].desired, tracked[call[t].obj], call[t].all)
      ELSE swap_retval[t] = "0" => thread_events[t] \cap call[t].desired # {}

EventInv ==
  /\ tracked \in [EventObjs -> SUBSET Bits] /\ DOMAIN thread_events = Threads
  /\ \A t \in Threads : EventWait(t)

notEventVars == <<semVars, msgqVars, queueVars, pushed, slabVars, signaled, twork, handler, used>>

LEMMA EventCallIs ==
  ASSUME NEW c \in Calls, c.op = "event"
  PROVE  c.obj \in EventObjs /\ c.desired # {} /\ c.all \in BOOLEAN
BY DEF Calls, WaitCalls, EventCalls, PollCalls, Idle

LEMMA SameEventWait ==
  ASSUME NEW t \in Threads, EventWait(t), call'[t] = call[t], pended_on'[t] = pended_on[t],
         swap_retval'[t] = swap_retval[t], thread_events'[t] = thread_events[t],
         call[t].op = "event" => tracked'[call[t].obj] = tracked[call[t].obj]
  PROVE  EventWait(t)'
BY DEF EventWait

LEMMA EventElsewhere ==
  ASSUME PollInv, PollInv', EventInv, NEW o, Locally(o), o \notin EventObjs, UNCHANGED eventObjVars
  PROVE  EventInv'
<1>1. ASSUME NEW t \in Threads PROVE EventWait(t)'
  <2>0. call[t] \in Calls /\ EventWait(t)
    BY DEF PollInv, PollerTypes, EventInv
  <2>1. CASE /\ call'[t] = call[t] /\ pended_on'[t] = pended_on[t]
             /\ swap_retval'[t] = swap_retval[t]
    BY <2>0, <2>1, SameEventWait DEF eventObjVars
  <2>2. CASE Uses(call[t], o) /\ Uses(call'[t], o)
    <3>1. call'[t].op # "event"
      <4>1. call'[t] \in Calls /\ (call'[t].op = "event" => call'[t].obj = o)
        BY <2>2 DEF Uses, PollInv, PollerTypes
      <4>2. PICK c : c = call'[t]
        OBVIOUS
      <4>3. c \in Calls /\ (c.op = "event" => c.obj \notin EventObjs)
        BY <4>1, <4>2
      <4> QED BY <4>2, <4>3, EventCallIs
    <3> QED BY <3>1 DEF EventWait
  <2> QED BY <2>1, <2>2 DEF Locally
<1> QED BY <1>1 DEF EventInv, eventObjVars

\* Of an event object at most the waiting threads are told.
LEMMA EventHeard ==
  ASSUME UNCHANGED <<pollerVars, handling, notEventVars>>
  PROVE  \A a \in Pollables : Heard(a)
BY HeardNothing DEF pollerVars, notEventVars, semVars, msgqVars, queueVars, eventVars

\* Less is there than before.
LEMMA LessMet ==
  ASSUME NEW desired, NEW all \in BOOLEAN, NEW more, NEW less \in SUBSET more,
         ~are_wait_conditions_met(desired, more, all)
  PROVE  ~are_wait_conditions_met(desired, less, all)
BY DEF are_wait_conditions_met

LEMMA EventPosts ==
  ASSUME WaitInv, PollInv, EventInv, firing = None, NEW e \in EventObjs, NEW mask \in SUBSET Bits,
         NEW posted \in SUBSET mask, k_event_post_internal(e, posted, mask), UNCHANGED notEventVars
  PROVE  ObjectsStep(e) /\ EventInv' /\ Held /\ swap_data' = swap_data
<1>0. e \in Waitables /\ e \in Objects /\ None \notin Objects
  BY KindsApart, KindsDiffer DEF Waitables
<1>1. PICK current : current = (tracked[e] \ mask) \cup (posted \cap mask)
  OBVIOUS
<1>2. PICK ts : ts = event_walk_op(e, current)
  OBVIOUS
<1>3. /\ tracked' = [tracked EXCEPT ![e] = current]
      /\ thread_events' = [t \in Threads |-> IF t \in ts THEN current ELSE thread_events[t]]
      /\ WakeWalked(ts, e)
      /\ UNCHANGED <<prio, call, handling, eventVars, triggerVars, tworkVars>>
  BY <1>1, <1>2 DEF k_event_post_internal
<1>4. UNCHANGED pollerVars /\ swap_data' = swap_data
  BY <1>3 DEF pollerVars, notEventVars, queueVars
<1>5. /\ ts \in SUBSET ToSet(wait_q[e])
      /\ \A t \in ToSet(wait_q[e]) :
           t \in ts <=> are_wait_conditions_met(thread_events[t], current, call[t].all)
  BY <1>2 DEF event_walk_op
<1>6. Woken(ts, e, "0")
  <2>1. ts \subseteq Threads /\ None \notin Threads /\ "0" \in Rets /\ WaitLists
    BY <1>0, <1>5, ListElements, KindsDiffer DEF WaitInv, WaitLists, WaitTypeOK, Rets
  <2>2. firing' = None
    BY <1>3, <2>1 DEF WakeWalked
  <2> QED BY <1>0, <1>3, <1>5, <2>1, <2>2, WakeWaits DEF WakeWalked
<1>7. WaitInv' /\ PollInv' /\ Locally(e)
  <2>1. handling' \in [Pollables -> {None, "AVAILABLE", "CANCELLED"}]
    BY <1>3 DEF PollInv, PollerTypes
  <2> QED BY <1>0, <1>3, <1>4, <1>5, <1>6, <2>1, CallWakes DEF Woken
<1>8. \A t \in Threads : pended_on[t] = e <=> t \in ToSet(wait_q[e])
  BY <1>0 DEF WaitInv, WaitLists
<1>9. Held
  BY <1>0, <1>3, <1>5, <1>6, <1>8, HeldWakes DEF Woken
<1>10. ASSUME NEW t \in Threads PROVE EventWait(t)'
  <2>0. EventWait(t) /\ call[t] \in Calls /\ call'[t] = call[t]
    BY <1>3 DEF EventInv, PollInv, PollerTypes
  <2>1. /\ pended_on'[t] = (IF t \in ts THEN None ELSE pended_on[t])
        /\ swap_retval'[t] = (IF t \in ts THEN "0" ELSE swap_retval[t])
        /\ thread_events'[t] = (IF t \in ts THEN current ELSE thread_events[t])
    BY <1>3, <1>6 DEF Woken, Unpended, Returns
  <2>2. SUFFICES ASSUME call[t].op = "event" PROVE EventWait(t)'
    BY <2>0 DEF EventWait
  <2>3. call[t].obj \in EventObjs /\ call[t].desired # {} /\ call[t].all \in BOOLEAN
    BY <2>0, <2>2, EventCallIs
  <2>4. pended_on[t] # None => pended_on[t] = call[t].obj
    BY <2>2 DEF WaitInv, Pends, Pending
  <2>5. CASE t \in ts
    <3>1. /\ thread_events[t] = call[t].desired
          /\ are_wait_conditions_met(call[t].desired, current, call[t].all)
      BY <1>0, <1>5, <1>8, <2>0, <2>2, <2>5 DEF EventWait
    <3>2. current \cap call[t].desired # {}
      BY <2>3, <3>1 DEF are_wait_conditions_met
    <3> QED BY <2>0, <2>1, <2>5, <3>2 DEF EventWait
  <2>6. CASE t \notin ts /\ pended_on[t] = e
    <3>1. thread_events[t] = call[t].desired /\ call[t].obj = e
      BY <1>0, <2>0, <2>2, <2>4, <2>6 DEF EventWait
    <3>2. ~are_wait_conditions_met(call[t].desired, current, call[t].all)
      BY <1>5, <1>8, <2>6, <3>1
    <3>3. tracked'[e] = current
      BY <1>3 DEF EventInv
    <3>4. ~are_wait_conditions_met(call[t].desired, tracked'[e], call[t].all)
      BY <3>2, <3>3
    <3> QED BY <1>0, <2>0, <2>1, <2>6, <3>1, <3>4 DEF EventWait
  <2>7. CASE t \notin ts /\ pended_on[t] # e
    <3>1. CASE pended_on[t] = None
      BY <2>0, <2>1, <2>7, <3>1 DEF EventWait
    <3>2. CASE pended_on[t] # None
      <4>1. tracked'[call[t].obj] = tracked[call[t].obj]
        BY <1>3, <2>3, <2>4, <2>7, <3>2 DEF EventInv
      <4> QED BY <2>0, <2>1, <2>7, <4>1, SameEventWait
    <3> QED BY <3>1, <3>2
  <2> QED BY <2>5, <2>6, <2>7
<1>11. EventInv'
  <2>1. current \in SUBSET Bits
    BY <1>1 DEF EventInv
  <2> QED BY <1>3, <1>10, <2>1 DEF EventInv
<1>12. \A a \in Pollables : Heard(a)
  BY <1>3, <1>4, EventHeard
<1> QED BY <1>4, <1>7, <1>9, <1>11, <1>12 DEF ObjectsStep

LEMMA EventWaits ==
  ASSUME WaitInv, PollInv, EventInv, firing = None, NEW t \in Threads, NEW e \in EventObjs,
         NEW desired \in SUBSET Bits, NEW all \in BOOLEAN, NEW reset \in BOOLEAN, NEW timeout,
         k_event_wait_internal(t, e, desired, all, reset, timeout), UNCHANGED notEventVars
  PROVE  ObjectsStep(e) /\ EventInv' /\ Held /\ swap_data' = swap_data
<1>0. e \in Waitables /\ e \in Objects /\ None \notin Objects
  BY KindsApart, KindsDiffer DEF Waitables
<1>1. PICK current : current = IF reset THEN {} ELSE tracked[e]
  OBVIOUS
<1>2. /\ Running(t) /\ desired # {} /\ tracked' = [tracked EXCEPT ![e] = current]
      /\ UNCHANGED <<prio, handling, eventVars, triggerVars, tworkVars>>
      /\ \/ UNCHANGED <<waitVars, call, thread_events>>
         \/ /\ ~are_wait_conditions_met(desired, current, all)
            /\ z_pend_curr(t, e, timeout, prio)
            /\ call' = [call EXCEPT ![t] =
                 [op |-> "event", obj |-> e, desired |-> desired, all |-> all]]
            /\ thread_events' = [thread_events EXCEPT ![t] = desired]
  BY <1>1 DEF k_event_wait_internal
<1>3. UNCHANGED pollerVars /\ swap_data' = swap_data
  BY <1>2 DEF pollerVars, notEventVars, queueVars
<1>4. \A a \in Pollables : Heard(a)
  BY <1>2, <1>3, EventHeard
<1>5. /\ tracked' \in [EventObjs -> SUBSET Bits] /\ tracked'[e] = current
      /\ \A f \in EventObjs : tracked'[f] \subseteq tracked[f]
  <2>1. current \in SUBSET Bits /\ current \subseteq tracked[e]
    BY <1>1 DEF EventInv
  <2> QED BY <1>2, <2>1 DEF EventInv
<1>6. ASSUME NEW u \in Threads, call'[u] = call[u], pended_on'[u] = pended_on[u],
             swap_retval'[u] = swap_retval[u], thread_events'[u] = thread_events[u]
      PROVE  EventWait(u)'
  <2>0. EventWait(u) /\ call[u] \in Calls
    BY DEF EventInv, PollInv, PollerTypes
  <2>1. SUFFICES ASSUME call[u].op = "event" PROVE EventWait(u)'
    BY <1>6 DEF EventWait
  <2>2. call[u].obj \in EventObjs /\ call[u].all \in BOOLEAN
    BY <2>0, <2>1, EventCallIs
  <2>3. CASE pended_on[u] = None
    BY <1>6, <2>0, <2>3 DEF EventWait
  <2>4. CASE pended_on[u] # None
    <3>1. /\ thread_events[u] = call[u].desired
          /\ ~are_wait_conditions_met(call[u].desired, tracked[call[u].obj], call[u].all)
      BY <2>0, <2>1, <2>4 DEF EventWait
    <3>2. tracked'[call[u].obj] \in SUBSET tracked[call[u].obj]
      BY <1>5, <2>2
    <3>3. ~are_wait_conditions_met(call[u].desired, tracked'[call[u].obj], call[u].all)
      BY <2>2, <3>1, <3>2, LessMet
    <3> QED BY <1>6, <2>4, <3>1, <3>3 DEF EventWait
  <2> QED BY <2>3, <2>4
<1>7. CASE UNCHANGED <<waitVars, call, thread_events>>
  <2>1. WaitInv' /\ PollInv' /\ Locally(e)
    <3>1. handling' \in [Pollables -> {None, "AVAILABLE", "CANCELLED"}]
      BY <1>2 DEF PollInv, PollerTypes
    <3> QED BY <1>2, <1>3, <1>7, <3>1, CallAlone
  <2>2. EventInv'
    BY <1>5, <1>6, <1>7 DEF EventInv, waitVars
  <2> QED BY <1>3, <1>4, <1>7, <2>1, <2>2, HeldAlone DEF ObjectsStep
<1>8. CASE /\ ~are_wait_conditions_met(desired, current, all)
           /\ z_pend_curr(t, e, timeout, prio)
           /\ call' = [call EXCEPT ![t] =
                [op |-> "event", obj |-> e, desired |-> desired, all |-> all]]
           /\ thread_events' = [thread_events EXCEPT ![t] = desired]
  <2>1. PICK c : c = [op |-> "event", obj |-> e, desired |-> desired, all |-> all]
    OBVIOUS
  <2>2. c \in WaitCalls \cup EventCalls /\ c.obj = e /\ call' = [call EXCEPT ![t] = c]
    BY <1>2, <1>8, <2>1 DEF EventCalls
  <2>3. WaitInv' /\ PollInv' /\ Locally(e) /\ Pended(t, e, timeout) /\ call'[t] = c
    BY <1>0, <1>2, <1>3, <1>8, <2>2, CallPends
  <2>4. /\ \A u \in Threads \ {t} : call'[u] = call[u] /\ thread_events'[u] = thread_events[u]
        /\ thread_events'[t] = desired /\ DOMAIN thread_events' = Threads
    BY <1>8 DEF EventInv
  <2>5. Held
    BY <1>2, <2>3, <2>4, HeldPends
  <2>6. \A u \in Threads \ {t} : EventWait(u)'
    BY <1>6, <2>3, <2>4 DEF Pended
  <2>7. EventWait(t)'
    <3>1. pended_on'[t] = e
      BY <2>3 DEF Pended
    <3>2. ~are_wait_conditions_met(c.desired, tracked'[c.obj], c.all)
      BY <1>5, <1>8, <2>1
    <3> QED BY <1>0, <2>1, <2>3, <2>4, <3>1, <3>2 DEF EventWait
  <2>8. EventInv'
    BY <1>5, <2>4, <2>6, <2>7 DEF EventInv
  <2> QED BY <1>3, <1>4, <2>3, <2>5, <2>8 DEF ObjectsStep
<1> QED BY <1>2, <1>7, <1>8

LEMMA EventGoes ==
  ASSUME WaitInv, PollInv, EventInv, NEW t \in Threads, EventReturns(t), UNCHANGED notEventVars
  PROVE  /\ ObjectsStep(call[t].obj) /\ EventInv' /\ swap_data' = swap_data
         /\ call[t].obj \in EventObjs
<1>1. /\ Returning(t, {"event"}) /\ call' = [call EXCEPT ![t] = Idle] /\ tracked' = tracked
      /\ thread_events' = [thread_events EXCEPT ![t] = {}]
      /\ UNCHANGED <<prio, waitVars, handling, eventVars, triggerVars, tworkVars>>
  BY DEF EventReturns
<1>2. UNCHANGED pollerVars /\ swap_data' = swap_data
  BY <1>1 DEF pollerVars, notEventVars, queueVars
<1>3. \A a \in Pollables : Heard(a)
  BY <1>1, <1>2, EventHeard
<1>4. call \in [Threads -> Calls] /\ call[t].op = "event" /\ call[t].obj \in EventObjs
  <2>1. call \in [Threads -> Calls] /\ call[t].op = "event"
    BY <1>1 DEF PollInv, PollerTypes, Returning
  <2> QED BY <2>1, EventCallIs
<1>5. WaitInv' /\ PollInv' /\ Locally(call[t].obj) /\ call'[t] = Idle
  BY <1>1, <1>2, CallReturns
<1>6. EventWait(t)'
  <2>1. call'[t].op # "event"
    BY <1>5 DEF Idle
  <2> QED BY <2>1 DEF EventWait
<1>7. \A u \in Threads \ {t} : EventWait(u)'
  <2> TAKE u \in Threads \ {t}
  <2>1. /\ EventWait(u) /\ call'[u] = call[u] /\ thread_events'[u] = thread_events[u]
        /\ pended_on' = pended_on /\ swap_retval' = swap_retval
    BY <1>1, <1>4 DEF EventInv, waitVars
  <2> QED BY <1>1, <2>1, SameEventWait
<1>8. EventInv'
  BY <1>1, <1>6, <1>7 DEF EventInv
<1> QED BY <1>2, <1>3, <1>4, <1>5, <1>8 DEF ObjectsStep

-----------------------------------------------------------------------------
(* All objects together *)

ObjInv ==
  /\ SemInv /\ MsgqInv /\ HandInv /\ QueueInv /\ StackInv /\ SlabInv /\ EventInv

\* A step after which everything is in order again, and pollers will be told.
Keeps == WaitInv' /\ PollInv' /\ ObjInv' /\ \A a \in Pollables : Heard(a)

LEMMA OthersKept ==
  ASSUME PollInv, ObjInv, NEW o, ObjectsStep(o), HandInv', NEW x, Hands(x),
         SemInv' \/ (o \notin Sems /\ UNCHANGED semVars),
         MsgqInv' \/ UNCHANGED msgqVars,
         QueueInv' \/ (NoMore(Queues) /\ UNCHANGED data_q /\ x \cap Items = {}),
         StackInv' \/ (NoMore(Stacks) /\ UNCHANGED pushed /\ x \cap Words = {}),
         SlabInv' \/ /\ NoMore(Slabs) /\ UNCHANGED slabVars
                     /\ \A l \in Slabs : x \cap ToSet(Blocks[l]) = {},
         EventInv' \/ (o \notin EventObjs /\ UNCHANGED eventObjVars)
  PROVE  Keeps
<1>1. PollInv' /\ Locally(o)
  BY DEF ObjectsStep
<1>2. SemInv'
  BY <1>1, SemElsewhere DEF ObjInv
<1>3. MsgqInv'
  BY DEF MsgqInv, msgqVars, ObjInv
<1>4. QueueInv'
  BY QueueElsewhere DEF ObjInv
<1>5. StackInv'
  BY StackElsewhere DEF ObjInv
<1>6. SlabInv'
  BY SlabElsewhere DEF ObjInv
<1>7. EventInv'
  BY <1>1, EventElsewhere DEF ObjInv
<1> QED BY <1>2, <1>3, <1>4, <1>5, <1>6, <1>7 DEF Keeps, ObjectsStep, ObjInv

\* A call on an object that hands nothing over.
LEMMA NothingHanded ==
  ASSUME PollInv, ObjInv, NEW o, ObjectsStep(o), Held, swap_data' = swap_data,
         o \notin Queues \cup Stacks \cup Slabs, UNCHANGED <<data_q, pushed, slabVars>>,
         SemInv' \/ (o \notin Sems /\ UNCHANGED semVars),
         MsgqInv' \/ UNCHANGED msgqVars,
         EventInv' \/ (o \notin EventObjs /\ UNCHANGED eventObjVars)
  PROVE  Keeps
<1>1. HandInv' /\ Hands({})
  BY HandKeeps DEF ObjInv
<1>2. NoMore(Queues) /\ NoMore(Stacks) /\ NoMore(Slabs)
  BY NoMoreElsewhere, KindsApart DEF ObjectsStep, Waitables
<1> QED BY <1>1, <1>2, OthersKept

\* What is handed over of each kind of object.
LEMMA KindsOfThings ==
  /\ None \notin Items /\ None \notin Words /\ Items \cap Words = {}
  /\ \A l \in Slabs : /\ None \notin ToSet(Blocks[l])
                      /\ ToSet(Blocks[l]) \cap Items = {} /\ ToSet(Blocks[l]) \cap Words = {}
BY QueueAssumption, StackAssumption, MemSlabAssumption, PollAssumption

LEMMA NoMoreOf ==
  ASSUME NEW o, Locally(o)
  PROVE  /\ o \notin Queues => NoMore(Queues)
         /\ o \notin Stacks => NoMore(Stacks)
         /\ o \notin Slabs => NoMore(Slabs)
BY NoMoreElsewhere, KindsApart DEF Waitables

LEMMA SemStep ==
  ASSUME PollInv, ObjInv, NEW s \in Sems, ObjectsStep(s), SemInv', UNCHANGED notSemVars
  PROVE  Keeps
<1>1. s \notin Queues \cup Stacks \cup Slabs /\ s \notin EventObjs
  BY KindsApart
<1>2. UNCHANGED <<swap_data, data_q, pushed, slabVars, msgqVars, eventObjVars>>
  BY DEF notSemVars, queueVars, plainVars
<1>3. Held
  BY <1>1, HeldElsewhere DEF ObjectsStep
<1> QED BY <1>1, <1>2, <1>3, NothingHanded

LEMMA MsgqStep ==
  ASSUME PollInv, ObjInv, NEW m \in MsgQs, ObjectsStep(m), MsgqInv', UNCHANGED notMsgqVars
  PROVE  Keeps
<1>1. m \notin Queues \cup Stacks \cup Slabs /\ m \notin EventObjs /\ m \notin Sems
  BY KindsApart
<1>2. UNCHANGED <<swap_data, data_q, pushed, slabVars, semVars, eventObjVars>>
  BY DEF notMsgqVars, queueVars, plainVars
<1>3. Held
  BY <1>1, HeldElsewhere DEF ObjectsStep
<1> QED BY <1>1, <1>2, <1>3, NothingHanded

LEMMA EventStep ==
  ASSUME PollInv, ObjInv, NEW e \in EventObjs, ObjectsStep(e), EventInv', UNCHANGED notEventVars
  PROVE  Keeps
<1>1. e \notin Queues \cup Stacks \cup Slabs /\ e \notin Sems
  BY KindsApart
<1>2. UNCHANGED <<swap_data, data_q, pushed, slabVars, semVars, msgqVars>>
  BY DEF notEventVars, queueVars
<1>3. Held
  BY <1>1, HeldElsewhere DEF ObjectsStep
<1> QED BY <1>1, <1>2, <1>3, NothingHanded

LEMMA QueueStep ==
  ASSUME PollInv, ObjInv, NEW q \in Queues, ObjectsStep(q), HandInv', QueueInv', Hands(Items),
         UNCHANGED notQueueVars
  PROVE  Keeps
<1>1. q \notin Stacks /\ q \notin Slabs /\ q \notin Sems /\ q \notin EventObjs
  BY KindsApart
<1>2. NoMore(Stacks) /\ NoMore(Slabs)
  BY <1>1, NoMoreOf DEF ObjectsStep
<1>3. UNCHANGED <<pushed, slabVars, semVars, msgqVars, eventObjVars>>
  BY DEF notQueueVars, plainVars
<1>4. PICK x : x = Items
  OBVIOUS
<1>5. x \cap Words = {} /\ \A l \in Slabs : x \cap ToSet(Blocks[l]) = {}
  BY <1>4, KindsOfThings
<1>6. Hands(x)
  BY <1>4
<1> QED BY <1>1, <1>2, <1>3, <1>5, <1>6, OthersKept

LEMMA StackStep ==
  ASSUME PollInv, ObjInv, NEW k \in Stacks, ObjectsStep(k), HandInv', StackInv', Hands(Words),
         UNCHANGED notStackVars
  PROVE  Keeps
<1>1. k \notin Queues /\ k \notin Slabs /\ k \notin Sems /\ k \notin EventObjs
  BY KindsApart
<1>2. NoMore(Queues) /\ NoMore(Slabs)
  BY <1>1, NoMoreOf DEF ObjectsStep
<1>3. UNCHANGED <<data_q, slabVars, semVars, msgqVars, eventObjVars>>
  BY DEF notStackVars
<1>4. PICK x : x = Words
  OBVIOUS
<1>5. x \cap Items = {} /\ \A l \in Slabs : x \cap ToSet(Blocks[l]) = {}
  BY <1>4, KindsOfThings
<1>6. Hands(x)
  BY <1>4
<1> QED BY <1>1, <1>2, <1>3, <1>5, <1>6, OthersKept

LEMMA SlabStep ==
  ASSUME PollInv, ObjInv, NEW l \in Slabs, ObjectsStep(l), HandInv', SlabInv',
         Hands(ToSet(Blocks[l])), UNCHANGED notSlabVars
  PROVE  Keeps
<1>1. l \notin Queues /\ l \notin Stacks /\ l \notin Sems /\ l \notin EventObjs
  BY KindsApart
<1>2. NoMore(Queues) /\ NoMore(Stacks)
  BY <1>1, NoMoreOf DEF ObjectsStep
<1>3. UNCHANGED <<data_q, pushed, semVars, msgqVars, eventObjVars>>
  BY DEF notSlabVars
<1>4. PICK x : x = ToSet(Blocks[l])
  OBVIOUS
<1>5. x \cap Items = {} /\ x \cap Words = {}
  BY <1>4, KindsOfThings
<1>6. Hands(x)
  BY <1>4
<1> QED BY <1>1, <1>2, <1>3, <1>5, <1>6, OthersKept

LEMMA GivenStep ==
  ASSUME WaitInv, PollInv, ObjInv, NEW t \in Threads, GivenReturns(t),
         UNCHANGED <<semVars, msgqVars, data_q, lost, plainVars, signaled, twork, handler, used>>
  PROVE  Keeps
<1>1. PICK o : o = call[t].obj
  OBVIOUS
<1>2. PICK x : x = {None}
  OBVIOUS
<1>3. /\ ObjectsStep(o) /\ HandInv' /\ Hands(x) /\ wait_q' = wait_q
      /\ o \in Queues \cup Stacks \cup Slabs
  BY <1>1, <1>2, GivenGoes DEF ObjInv
<1>4. o \notin Sems /\ o \notin EventObjs
  BY <1>3, KindsApart
<1>5. NoMore(Queues) /\ NoMore(Stacks) /\ NoMore(Slabs)
  BY <1>3 DEF NoMore
<1>6. /\ x \cap Items = {} /\ x \cap Words = {}
      /\ \A l \in Slabs : x \cap ToSet(Blocks[l]) = {}
  BY <1>2, KindsOfThings
<1>7. UNCHANGED <<data_q, pushed, slabVars, semVars, msgqVars, eventObjVars>>
  BY DEF plainVars
<1> QED BY <1>3, <1>4, <1>5, <1>6, <1>7, OthersKept

-----------------------------------------------------------------------------
(* Steps that are not those of an object *)

LEMMA AsideStep ==
  ASSUME PollInv, ObjInv, ObjectsStep(poll_wait_q),
         UNCHANGED <<semVars, msgqVars, queueVars, plainVars>>
  PROVE  Keeps
<1>1. /\ poll_wait_q \notin Queues \cup Stacks \cup Slabs
      /\ poll_wait_q \notin EventObjs /\ poll_wait_q \notin Sems
  BY KindsApart
<1>2. UNCHANGED <<swap_data, data_q, pushed, slabVars, semVars, msgqVars, eventObjVars>>
  BY DEF queueVars, plainVars
<1>3. Held
  BY <1>1, HeldElsewhere DEF ObjectsStep
<1> QED BY <1>1, <1>2, <1>3, NothingHanded

\* A poller's own step.
LEMMA PollerStep ==
  ASSUME PollInv, ObjInv, PollersStep, UNCHANGED objectVars
  PROVE  Keeps
<1>1. UNCHANGED <<semVars, msgqVars, queueVars, plainVars, signaled, handling>>
  BY DEF objectVars
<1>2. Locally(poll_wait_q)
  BY DEF PollersStep, Locally, Uses
<1>3. \A a \in Pollables : is_condition_met(a)' <=> is_condition_met(a)
  BY <1>1, MetSame DEF semVars, msgqVars, queueVars
<1>4. \A a \in Pollables : Heard(a)
  BY <1>1, <1>3, HeardBefore DEF PollersStep
<1>5. ObjectsStep(poll_wait_q)
  BY <1>2, <1>4 DEF ObjectsStep, PollersStep
<1> QED BY <1>1, <1>5, AsideStep

\* The pollers of an object are told.
LEMMA TellingStep ==
  ASSUME PollInv, ObjInv, NEW o \in Pollables, NEW x, Telling(o, x), UNCHANGED call,
         \A a \in Pollables : Heard(a), UNCHANGED <<semVars, msgqVars, queueVars, plainVars>>
  PROVE  Keeps
<1>1. Locally(poll_wait_q)
  BY DEF Telling, OnlyPollers, Locally, Uses
<1>2. ObjectsStep(poll_wait_q)
  BY <1>1 DEF ObjectsStep, Telling
<1> QED BY <1>2, AsideStep

LEMMA HandleStep ==
  ASSUME WaitInv, PollInv, ObjInv, firing = None, tw_firing = {}, NEW o \in Pollables,
         handle_poll_events(o),
         UNCHANGED <<semVars, msgqVars, queueVars, plainVars, signaled, twork, handler, used>>
  PROVE  Keeps
<1>1. PICK x : x = handling[o]
  OBVIOUS
<1>2. /\ x \in {"AVAILABLE", "CANCELLED"} /\ z_handle_obj_poll_events(o, x)
      /\ handling' = [handling EXCEPT ![o] = None] /\ UNCHANGED <<prio, call, tworkVars>>
      /\ handling' \in [Pollables -> {None, "AVAILABLE", "CANCELLED"}]
      /\ \A a \in Pollables \ {o} : handling'[a] = handling[a]
  BY <1>1 DEF handle_poll_events, PollInv, PollerTypes
<1>3. Telling(o, x)
  BY <1>2, TellKeeps
<1>4. \A a \in Pollables : is_condition_met(a)' <=> is_condition_met(a)
  BY MetSame DEF semVars, msgqVars, queueVars
<1>5. \A a \in Pollables \ {o} : Heard(a)
  BY <1>2, <1>3, <1>4, HeardBefore DEF Telling
<1>6. Heard(o)
  <2>1. CASE x = "AVAILABLE"
    BY <1>3, <2>1 DEF Telling, Heard
  <2>2. CASE x = "CANCELLED"
    <3>1. poll_events'[o] # <<>> => poll_events[o] # <<>>
      <4>1. CASE poll_events[o] = <<>>
        BY <1>2, <4>1 DEF z_handle_obj_poll_events, eventVars
      <4> QED BY <4>1
    <3>2. handling[o] # "AVAILABLE"
      BY <1>1, <2>2
    <3> QED BY <1>4, <3>1, <3>2 DEF Heard
  <2> QED BY <1>2, <2>1, <2>2
<1> QED BY <1>2, <1>3, <1>5, <1>6, TellingStep

LEMMA RaiseStep ==
  ASSUME WaitInv, PollInv, ObjInv, firing = None, tw_firing = {}, NEW g \in Signals,
         DOMAIN signaled = Signals, k_poll_signal_raise(g), UNCHANGED used
  PROVE  Keeps /\ DOMAIN signaled' = Signals
<1>1. /\ z_handle_obj_poll_events(g, "AVAILABLE") /\ signaled' = [signaled EXCEPT ![g] = TRUE]
      /\ UNCHANGED <<semVars, msgqVars, queueVars, plainVars, handling>>
      /\ UNCHANGED <<prio, call, tworkVars, twork, handler, used>> /\ g \in Pollables
      /\ handling' \in [Pollables -> {None, "AVAILABLE", "CANCELLED"}]
  BY KindsApart DEF k_poll_signal_raise, restVars, PollInv, PollerTypes
<1>2. Telling(g, "AVAILABLE")
  BY <1>1, TellKeeps
<1>3. \A a \in Pollables \ {g} : is_condition_met(a)' <=> is_condition_met(a)
  <2>1. UNCHANGED <<count, used_msgs, data_q>> /\ \A h \in Signals \ {g} : signaled'[h] = signaled[h]
    BY <1>1 DEF semVars, msgqVars, queueVars
  <2> QED BY <2>1, MetElsewhere
<1>4. \A a \in Pollables \ {g} : Heard(a)
  BY <1>1, <1>2, <1>3, HeardBefore DEF Telling
<1>5. Heard(g)
  BY <1>2 DEF Telling, Heard
<1> QED BY <1>1, <1>2, <1>4, <1>5, TellingStep

LEMMA SignalResets ==
  ASSUME WaitInv, PollInv, ObjInv, NEW g \in Signals, DOMAIN signaled = Signals,
         k_poll_signal_reset(g), UNCHANGED used
  PROVE  Keeps /\ DOMAIN signaled' = Signals
<1>1. /\ signaled' = [signaled EXCEPT ![g] = FALSE] /\ g \in Pollables
      /\ UNCHANGED <<semVars, msgqVars, queueVars, plainVars, handling, waitVars, prio, call>>
      /\ UNCHANGED pollerVars /\ poll_events' = poll_events
      /\ handling' \in [Pollables -> {None, "AVAILABLE", "CANCELLED"}]
  BY KindsApart DEF k_poll_signal_reset, restVars, PollInv, PollerTypes, pollerVars, eventVars
<1>2. WaitInv' /\ PollInv' /\ Locally(poll_wait_q)
  BY <1>1, CallAlone
<1>3. \A a \in Pollables : Heard(a)
  <2>1. /\ UNCHANGED <<count, used_msgs, data_q>> /\ signaled'[g] = FALSE
        /\ \A h \in Signals \ {g} : signaled'[h] = signaled[h]
    BY <1>1 DEF semVars, msgqVars, queueVars
  <2>2. ~is_condition_met(g)'
    BY <2>1, MetIs
  <2> QED BY <1>1, <2>1, <2>2, HeardCall
<1>4. ObjectsStep(poll_wait_q)
  BY <1>2, <1>3 DEF ObjectsStep
<1> QED BY <1>1, <1>4, AsideStep

-----------------------------------------------------------------------------
(* Timeouts of threads *)

LEMMA ExpireStep ==
  ASSUME WaitInv, PollInv, ObjInv, NEW t \in Threads, ExpireWait(t), UNCHANGED used
  PROVE  Keeps /\ UNCHANGED signaled
<1>1. /\ t \in armed /\ armed' = armed \ {t} /\ firing = None /\ firing' = t
      /\ UNCHANGED <<prio, wait_q, pended_on, swap_retval, forever, call, handling, signaled>>
      /\ UNCHANGED pollerVars /\ poll_events' = poll_events
      /\ UNCHANGED <<semVars, msgqVars, queueVars, plainVars>>
  BY DEF ExpireWait, Expire, objectVars, pollerVars, eventVars
<1>2. WaitInv'
  <2>1. WaitLists'
    BY <1>1 DEF WaitInv, WaitLists, WaitTypeOK
  <2>2. ASSUME NEW u \in Threads PROVE Pends(u)'
    <3>1. (u \in armed' \/ u = firing') => (u \in armed \/ u = firing)
      BY <1>1
    <3>2. Pending(call[u], pended_on[u], swap_retval[u], u \in armed \/ u = firing)
      BY DEF WaitInv, Pends
    <3> QED BY <1>1, <3>1, <3>2 DEF Pends, Pending
  <2> QED BY <2>1, <2>2 DEF WaitInv
<1>3. PollInv'
  <2>1. /\ call' \in [Threads -> Calls]
        /\ handling' \in [Pollables -> {None, "AVAILABLE", "CANCELLED"}]
    BY <1>1 DEF PollInv, PollerTypes
  <2>2. \A u \in Threads : Aside(u)
    BY <1>1 DEF Aside
  <2> QED BY <1>1, <2>1, <2>2, ObjectStep
<1>4. \A a \in Pollables : Heard(a)
  BY <1>1, HeardNothing DEF semVars, msgqVars, queueVars
<1>5. ObjectsStep(poll_wait_q)
  BY <1>1, <1>2, <1>3, <1>4 DEF ObjectsStep, Locally
<1> QED BY <1>1, <1>5, AsideStep

LEMMA TimeoutStepKeeps ==
  ASSUME WaitInv, PollInv, ObjInv, z_thread_timeout,
         UNCHANGED <<eventVars, triggerVars, tworkVars, semVars, msgqVars, data_q, swap_data,
                     plainVars, signaled, handling, twork, handler, call, used>>
  PROVE  Keeps /\ UNCHANGED signaled
<1>0. PICK f : f = firing
  OBVIOUS
<1>1. /\ UNCHANGED <<call, handling, signaled, pollerVars, semVars, msgqVars, data_q, swap_data>>
      /\ UNCHANGED <<pushed, slabVars, eventObjVars>> /\ poll_events' = poll_events
  BY DEF pollerVars, eventVars, plainVars
<1>2. /\ WaitLists' /\ f \in Threads /\ firing' = None /\ pended_on[f] # None
      /\ \A u \in Threads : /\ pended_on'[u] = (IF u = f THEN None ELSE pended_on[u])
                             /\ swap_retval'[u] = swap_retval[u]
      /\ armed' = armed
      /\ \A a \in Objects : ToSet(wait_q'[a]) = ToSet(wait_q[a]) \ {f}
      /\ \A a \in Objects \ {pended_on[f]} : wait_q'[a] = wait_q[a]
      /\ f \notin armed
  BY <1>0, TimeoutWaits DEF WaitInv, WaitLists
<1>3. /\ Pending(call[f], pended_on[f], swap_retval[f], TRUE) /\ swap_retval[f] = "-EAGAIN"
      /\ call \in [Threads -> Calls] /\ None \notin Threads
  <2>1. Pending(call[f], pended_on[f], swap_retval[f], TRUE)
    BY <1>0, <1>2 DEF WaitInv, Pends
  <2> QED BY <1>2, <2>1, KindsDiffer DEF Pending, PollInv, PollerTypes
<1>4. WaitInv'
  <2>1. ASSUME NEW u \in Threads PROVE Pends(u)'
    <3>1. Pending(call[u], pended_on[u], swap_retval[u], u \in armed \/ u = f)
      BY <1>0 DEF WaitInv, Pends
    <3>2. CASE u # f
      BY <1>1, <1>2, <1>3, <3>1, <3>2 DEF Pends, Pending
    <3>3. CASE u = f
      BY <1>1, <1>2, <1>3, <3>1, <3>3 DEF Pends, Pending
    <3> QED BY <3>2, <3>3
  <2> QED BY <1>2, <2>1 DEF WaitInv
<1>5. PollInv'
  <2>1. PollerTypes' /\ ListsOK' /\ (tw_armed \cap tw_firing = {})'
    BY <1>1 DEF PollInv, PollerTypes, ListsOK, pollerVars, eventVars, triggerVars, tworkVars
  <2>2. \A x \in Pollers \ {f} : Unnoticed(x)
    BY <1>1, <1>2, SameSeen DEF Unnoticed
  <2>3. ThreadPolls(f)'
    <3>1. PollingThread(call[f], States(f), is_polling[f], Listed(f), pended_on[f] # None,
                        swap_retval[f])
      BY <1>2 DEF PollInv, ThreadPolls
    <3>2. PollingThread(call[f], States(f), is_polling[f], Listed(f), TRUE, "-EAGAIN")
      BY <1>2, <1>3, <3>1
    <3>3. call[f].op = "poll" => call[f].timeout = "ticks"
      BY <1>3 DEF Pending
    <3>4. PollingThread(call[f], States(f), is_polling[f], Listed(f), FALSE, "-EAGAIN")
      BY <3>2, <3>3, ThreadExpires
    <3>5. /\ States(f)' = States(f) /\ Listed(f)' = Listed(f) /\ is_polling'[f] = is_polling[f]
          /\ (pended_on'[f] # None) = FALSE /\ swap_retval'[f] = "-EAGAIN" /\ call'[f] = call[f]
      BY <1>1, <1>2, <1>3, SameSeen, KindsDiffer
    <3> QED BY <3>4, <3>5 DEF ThreadPolls
  <2>4. f \notin TWorks
    BY <1>2, KindsDiffer
  <2> QED BY <2>1, <2>2, <2>3, <2>4, OnePoller
<1>6. Locally(pended_on[f])
  <2>1. Uses(call[f], pended_on[f])
    BY <1>2, <1>3 DEF Pending, Uses
  <2> QED BY <1>1, <1>2, <2>1 DEF Locally
<1>7. \A a \in Pollables : Heard(a)
  BY <1>1, HeardNothing DEF semVars, msgqVars
<1>8. \A o \in Objects : wait_q'[o] # <<>> => wait_q[o] # <<>>
  <2> TAKE o \in Objects
  <2>1. wait_q'[o] \in Seq(Threads)
    BY <1>2 DEF WaitLists, WaitTypeOK
  <2> QED BY <1>2, <2>1, WaitQueueIs, NoElement
<1>9. NoMore(Sems) /\ NoMore(Queues) /\ NoMore(Stacks) /\ NoMore(Slabs)
  BY <1>8, KindsApart DEF NoMore, Waitables
<1>10. SemInv'
  <2>1. \A s \in Sems : Owed(s)' = Owed(s)
    BY <1>1, <1>2, <1>3 DEF Owed
  <2>2. \A s \in Sems : SemOK(s)'
    BY <1>1, <1>9, <2>1 DEF ObjInv, SemInv, SemOK, NoMore, semVars
  <2> QED BY <1>1, <2>2 DEF ObjInv, SemInv, semVars
<1>11. EventInv'
  <2>1. \A t \in Threads : EventWait(t)'
    <3> TAKE t \in Threads
    <3>1. EventWait(t)
      BY DEF ObjInv, EventInv
    <3>2. CASE t = f
      <4>1. pended_on'[t] = None /\ swap_retval'[t] # "0"
        BY <1>2, <1>3, <3>2
      <4> QED BY <4>1 DEF EventWait
    <3>3. CASE t # f
      BY <1>1, <1>2, <3>1, <3>3, SameEventWait DEF eventObjVars
    <3> QED BY <3>2, <3>3
  <2> QED BY <1>1, <2>1 DEF ObjInv, EventInv, eventObjVars
<1>12. HandInv' /\ Hands({})
  <2>1. Held
    BY <1>1, <1>2 DEF Held, Returning
  <2> QED BY <1>1, <2>1, HandKeeps DEF ObjInv
<1>13. Keeps
  <2>1. PICK o : o = pended_on[f]
    OBVIOUS
  <2>2. PICK x : x = {}
    OBVIOUS
  <2>3. ObjectsStep(o)
    BY <1>4, <1>5, <1>6, <1>7, <2>1 DEF ObjectsStep
  <2> QED BY <1>1, <1>9, <1>10, <1>11, <1>12, <2>2, <2>3, OthersKept
<1> QED BY <1>1, <1>13

-----------------------------------------------------------------------------
(* The invariant *)

Inv ==
  /\ WaitInv /\ PollInv /\ ObjInv /\ DOMAIN signaled = Signals
  /\ \A o \in Pollables : Tells(o)

LEMMA KeepsInv ==
  ASSUME Inv, Keeps, DOMAIN signaled' = Signals, NoteTold
  PROVE  Inv'
BY HeardTells DEF Inv, Keeps

LEMMA StutterInv ==
  ASSUME Inv, UNCHANGED vars
  PROVE  Inv'
<1>1. /\ UNCHANGED <<pollerVars, prio, waitVars, call, semVars, msgqVars, queueVars, plainVars>>
      /\ UNCHANGED <<poll_events, handling, signaled, told>>
      /\ handling' \in [Pollables -> {None, "AVAILABLE", "CANCELLED"}]
  BY DEF vars, objectVars, restVars, pollerVars, eventVars, Inv, PollInv, PollerTypes
<1>2. WaitInv' /\ PollInv' /\ Locally(poll_wait_q)
  BY <1>1, CallAlone DEF Inv
<1>3. \A a \in Pollables : Heard(a)
  BY <1>1, HeardNothing DEF semVars, msgqVars, queueVars
<1>4. Keeps
  BY <1>1, <1>2, <1>3, AsideStep DEF Inv, ObjectsStep
<1>5. \A a \in Pollables : Tells(a)'
  BY <1>1, MetSame DEF Inv, Tells, semVars, msgqVars, queueVars
<1> QED BY <1>1, <1>4, <1>5 DEF Inv, Keeps

LEMMA AnyCallKeeps ==
  ASSUME Inv, firing = None, tw_firing = {}, AnyCall, UNCHANGED used
  PROVE  Keeps /\ DOMAIN signaled' = Signals
<1> USE DEF Inv, ObjInv
<1>1. ASSUME NEW s \in Sems, k_sem_give(s) \/ k_sem_reset(s),
             UNCHANGED <<msgqVars, queueVars, plainVars, signaled, twork, handler>>
      PROVE  Keeps
  <2>1. UNCHANGED notSemVars
    BY <1>1 DEF notSemVars
  <2>2. ObjectsStep(s) /\ SemInv'
    BY <1>1, <2>1, SemGives, SemResets
  <2> QED BY <2>1, <2>2, SemStep
<1>2. ASSUME NEW m \in MsgQs, (\E msg \in Msgs : PutNow(m, msg)) \/ k_msgq_purge(m),
             UNCHANGED <<semVars, queueVars, plainVars, signaled, twork, handler>>
      PROVE  Keeps
  <2>1. UNCHANGED notMsgqVars
    BY <1>2 DEF notMsgqVars
  <2>2. ObjectsStep(m) /\ MsgqInv'
    BY <1>2, <2>1, MsgqPuts, MsgqPurges
  <2> QED BY <2>1, <2>2, MsgqStep
<1>3. ASSUME NEW q \in Queues,
             \/ \E i \in Items, prev \in ToSet(data_q[q]) \cup {None} : queue_insert(q, i, prev)
             \/ \E i \in Items : k_queue_remove(q, i)
             \/ \E items \in ItemLists :
                  /\ ShortLists \/ Len(wait_q[q]) <= Len(items)
                  /\ k_queue_append_list(q, items)
             \/ k_queue_cancel_wait(q),
             UNCHANGED <<semVars, msgqVars, plainVars, signaled, twork, handler>>
      PROVE  Keeps
  <2>1. UNCHANGED notQueueVars
    BY <1>3 DEF notQueueVars
  <2>2. CASE \E i \in Items, prev \in ToSet(data_q[q]) \cup {None} : queue_insert(q, i, prev)
    BY <2>1, <2>2, QueueInserts, QueueStep
  <2>3. CASE \E i \in Items : k_queue_remove(q, i)
    BY <2>1, <2>3, QueueRemoves, QueueStep
  <2>4. CASE \E items \in ItemLists : k_queue_append_list(q, items)
    <3>1. PICK items \in ItemLists : k_queue_append_list(q, items)
      BY <2>4
    <3>2. items \in Seq(Items) /\ Distinct(items)
      BY <3>1, ListsAre
    <3> QED BY <2>1, <3>1, <3>2, QueueAppends, QueueStep
  <2>5. CASE k_queue_cancel_wait(q)
    BY <2>1, <2>5, QueueCancels, QueueStep
  <2> QED BY <1>3, <2>2, <2>3, <2>4, <2>5
<1>4. ASSUME NEW k \in Stacks, NEW i \in Words, k_stack_push(k, i),
             UNCHANGED <<semVars, msgqVars, data_q, lost, slabVars, eventObjVars, signaled, twork, handler>>
      PROVE  Keeps
  <2>1. UNCHANGED notStackVars
    BY <1>4 DEF notStackVars
  <2> QED BY <1>4, <2>1, StackPushes, StackStep
<1>5. ASSUME NEW l \in Slabs, NEW b \in ToSet(Blocks[l]), k_mem_slab_free(l, b),
             UNCHANGED <<semVars, msgqVars, data_q, lost, pushed, eventObjVars, signaled, twork, handler>>
      PROVE  Keeps
  <2>1. UNCHANGED notSlabVars
    BY <1>5 DEF notSlabVars
  <2> QED BY <1>5, <2>1, SlabFrees, SlabStep
<1>6. ASSUME NEW e \in EventObjs, NEW mask \in SUBSET Bits, NEW posted \in SUBSET mask,
             k_event_post_internal(e, posted, mask),
             UNCHANGED <<semVars, msgqVars, queueVars, pushed, slabVars, signaled, twork, handler>>
      PROVE  Keeps
  <2>1. UNCHANGED notEventVars
    BY <1>6 DEF notEventVars
  <2> QED BY <1>6, <2>1, EventPosts, EventStep
<1>7. ASSUME NEW g \in Signals, k_poll_signal_raise(g) \/ k_poll_signal_reset(g)
      PROVE  Keeps /\ DOMAIN signaled' = Signals
  BY <1>7, RaiseStep, SignalResets
<1>8. ASSUME NEW o \in Pollables, handle_poll_events(o),
             UNCHANGED <<semVars, msgqVars, queueVars, plainVars, signaled, twork, handler>>
      PROVE  Keeps
  BY <1>8, HandleStep
<1> HIDE DEF Inv, ObjInv
<1>9. DOMAIN signaled = Signals
  BY DEF Inv
<1> QED BY <1>1, <1>2, <1>3, <1>4, <1>5, <1>6, <1>7, <1>8, <1>9 DEF AnyCall

LEMMA PollersKeep ==
  ASSUME Inv, PollersStep, UNCHANGED objectVars
  PROVE  Keeps /\ DOMAIN signaled' = Signals
BY PollerStep DEF Inv, objectVars

LEMMA ThreadStepKeeps ==
  ASSUME Inv, firing = None, NEW t \in Threads, ThreadStep(t), UNCHANGED used
  PROVE  Keeps /\ DOMAIN signaled' = Signals
<1>0. WaitInv /\ PollInv /\ ObjInv /\ DOMAIN signaled = Signals
  BY DEF Inv
<1>1. ASSUME \/ \E s \in Sems \cap used, timeout \in Timeout : k_sem_take(t, s, timeout)
             \/ TakeReturns(t),
             UNCHANGED <<msgqVars, queueVars, plainVars, signaled, twork, handler>>
      PROVE  Keeps
  <2>1. UNCHANGED notSemVars
    BY <1>1 DEF notSemVars
  <2>2. \E s \in Sems : ObjectsStep(s) /\ SemInv'
    BY <1>0, <1>1, <2>1, SemTakes, SemReturns DEF ObjInv
  <2> QED BY <1>0, <2>1, <2>2, SemStep
<1>2. ASSUME \/ \E m \in MsgQs \cap used, timeout \in Timeout :
                  \/ \E msg \in Msgs : PutWait(t, m, msg, timeout)
                  \/ k_msgq_get(t, m, timeout)
             \/ MsgQReturns(t),
             UNCHANGED <<semVars, queueVars, plainVars, signaled, twork, handler>>
      PROVE  Keeps
  <2>1. UNCHANGED notMsgqVars
    BY <1>2 DEF notMsgqVars
  <2>2. ASSUME NEW m \in MsgQs, NEW timeout, NEW msg, PutWait(t, m, msg, timeout)
        PROVE  ObjectsStep(m) /\ MsgqInv'
    <3>1. /\ Running(t) /\ Pend(t, m, timeout, "put")
          /\ UNCHANGED <<prio, used_msgs, handling, eventVars, triggerVars, tworkVars, notMsgqVars>>
      BY <2>1, <2>2 DEF PutWait, msgqVars
    <3> QED BY <1>0, <3>1, MsgqPends DEF ObjInv
  <2>3. \E m \in MsgQs : ObjectsStep(m) /\ MsgqInv'
    BY <1>0, <1>2, <2>1, <2>2, MsgqGets, MsgqReturns DEF ObjInv
  <2> QED BY <1>0, <2>1, <2>3, MsgqStep
<1>3. ASSUME NEW q \in Queues, NEW timeout, k_queue_get(t, q, timeout),
             UNCHANGED <<semVars, msgqVars, plainVars, signaled, twork, handler>>
      PROVE  Keeps
  <2>1. UNCHANGED notQueueVars
    BY <1>3 DEF notQueueVars
  <2> QED BY <1>0, <1>3, <2>1, QueueGets, QueueStep DEF ObjInv
<1>4. ASSUME NEW k \in Stacks, NEW timeout, k_stack_pop(t, k, timeout),
             UNCHANGED <<semVars, msgqVars, data_q, lost, slabVars, eventObjVars, signaled, twork, handler>>
      PROVE  Keeps
  <2>1. UNCHANGED notStackVars
    BY <1>4 DEF notStackVars
  <2> QED BY <1>0, <1>4, <2>1, StackPops, StackStep DEF ObjInv
<1>5. ASSUME NEW l \in Slabs, NEW timeout, k_mem_slab_alloc(t, l, timeout),
             UNCHANGED <<semVars, msgqVars, data_q, lost, pushed, eventObjVars, signaled, twork, handler>>
      PROVE  Keeps
  <2>1. UNCHANGED notSlabVars
    BY <1>5 DEF notSlabVars
  <2> QED BY <1>0, <1>5, <2>1, SlabAllocs, SlabStep DEF ObjInv
<1>6. ASSUME \/ \E e \in EventObjs \cap used, desired \in SUBSET Bits, all, reset \in BOOLEAN,
                  timeout \in Timeout : k_event_wait_internal(t, e, desired, all, reset, timeout)
             \/ EventReturns(t),
             UNCHANGED <<semVars, msgqVars, queueVars, pushed, slabVars, signaled, twork, handler>>
      PROVE  Keeps
  <2>1. UNCHANGED notEventVars
    BY <1>6 DEF notEventVars
  <2>2. \E e \in EventObjs : ObjectsStep(e) /\ EventInv'
    BY <1>0, <1>6, <2>1, EventWaits, EventGoes DEF ObjInv
  <2> QED BY <1>0, <2>1, <2>2, EventStep
<1>7. ASSUME GivenReturns(t),
             UNCHANGED <<semVars, msgqVars, data_q, lost, plainVars, signaled, twork, handler>>
      PROVE  Keeps
  BY <1>0, <1>7, GivenStep
<1>8. ASSUME \/ \E events \in Arrays, timeout \in Timeout \cup {"no_wait"} : k_poll(t, events, timeout)
             \/ PollRegister(t) \/ PollDecide(t) \/ PollClear(t) \/ PollDone(t)
      PROVE  Keeps /\ DOMAIN signaled' = Signals
  <2>1. PollersStep
    BY <1>0, <1>8, PollStarts, PollRegisters, PollDecides, PollClears, PollEnds
  <2>2. UNCHANGED objectVars
    BY <1>8 DEF k_poll, PollRegister, PollDecide, PollClear, PollDone
  <2> QED BY <2>1, <2>2, PollersKeep
<1> QED BY <1>0, <1>1, <1>2, <1>3, <1>4, <1>5, <1>6, <1>7, <1>8 DEF ThreadStep

LEMMA WorkStepKeeps ==
  ASSUME Inv, tw_firing = {}, NEW w \in TWorks, WorkStep(w), UNCHANGED used
  PROVE  Keeps /\ DOMAIN signaled' = Signals
<1>0. WaitInv /\ PollInv
  BY DEF Inv
<1>1. PollersStep
  BY <1>0, SubmitStarts, CancelStarts, CancelSteps, SubmitRegisters, SubmitDecides, SubmitClears,
     HandlerStarts, HandlerSteps, ExpireWorks DEF WorkStep
<1>2. UNCHANGED objectVars
  BY DEF WorkStep, k_work_poll_submit, k_work_poll_cancel, CancelStep, SubmitRegister, SubmitDecide,
         SubmitClear, HandlerStart, HandlerStep, ExpireWork
<1> QED BY <1>1, <1>2, PollersKeep

LEMMA InvStep ==
  ASSUME ~LateCallback, Inv, Next
  PROVE  Inv'
<1>0. WaitInv /\ PollInv /\ ObjInv /\ DOMAIN signaled = Signals
  BY DEF Inv
<1>1. CASE TimeoutStep
  <2>1. CASE /\ z_thread_timeout
             /\ lost' = lost \ {firing}
             /\ UNCHANGED <<eventVars, triggerVars, tworkVars, semVars, msgqVars, data_q, swap_data,
                            plainVars, signaled, handling, data, twork, handler, call>>
    BY <1>0, <2>1, TimeoutStepKeeps, KeepsInv DEF Next
  <2>2. CASE \E w \in TWorks : triggered_work_expiration_handler(w)
    <3>1. PollersStep /\ UNCHANGED objectVars
      BY <1>0, <2>2, WorkTimeouts DEF Next, triggered_work_expiration_handler
    <3> QED BY <3>1, PollersKeep, KeepsInv DEF Next
  <2> QED BY <1>1, <2>1, <2>2 DEF TimeoutStep
<1>2. CASE /\ (firing = None /\ tw_firing = {}) \/ LateCallback
           /\ \/ AnyCall
              \/ \E t \in Threads \cap used : ThreadStep(t) \/ ExpireWait(t)
              \/ \E w \in TWorks \cap used : WorkStep(w)
  <2>1. firing = None /\ tw_firing = {} /\ NoteTold /\ UNCHANGED used
    BY <1>2 DEF Next
  <2>2. ASSUME NEW t \in Threads, ExpireWait(t) PROVE Keeps /\ DOMAIN signaled' = Signals
    BY <1>0, <2>1, <2>2, ExpireStep
  <2>3. Keeps /\ DOMAIN signaled' = Signals
    BY <1>2, <2>1, <2>2, AnyCallKeeps, ThreadStepKeeps, WorkStepKeeps
  <2> QED BY <2>1, <2>3, KeepsInv
<1> QED BY <1>1, <1>2 DEF Next

LEMMA InitInv == PollInit => Inv
<1> SUFFICES ASSUME PollInit PROVE Inv
  OBVIOUS
<1>0. /\ WaitInit
      /\ poll_events = [o \in Pollables |-> <<>>] /\ state = [e \in Events |-> {}]
      /\ is_polling = [p \in Pollers |-> FALSE] /\ handling = [o \in Pollables |-> None]
      /\ call = [t \in Threads |-> Idle] /\ swap_data = [t \in Threads |-> None]
      /\ mode = [w \in TWorks |-> "NONE"] /\ workq = [w \in TWorks |-> FALSE]
      /\ poll_result = [w \in TWorks |-> "0"] /\ tw_armed = {} /\ tw_firing = {} /\ queued = {}
      /\ twork = [w \in TWorks |-> [pc |-> "none", events |-> <<>>]]
      /\ handler = [w \in TWorks |-> NotRunning] /\ used \in Systems
  BY DEF PollInit, PollEventsInit
<1>1. WaitInv
  <2>1. /\ prio = Base /\ wait_q = [o \in Objects |-> <<>>] /\ pended_on = [t \in Threads |-> None]
        /\ armed = {} /\ firing = None /\ swap_retval = [t \in Threads |-> "0"] /\ forever = {}
    BY <1>0 DEF WaitInit
  <2>2. <<>> \in Seq(Threads) /\ ToSet(<<>>) = {} /\ Distinct(<<>>)
    BY EmptyList
  <2>3. WaitTypeOK
    BY <2>1, <2>2, WaitQueueAssumption DEF WaitTypeOK
  <2>4. WaitLists
    BY <2>1, <2>2, <2>3, WaitQueueAssumption DEF WaitLists
  <2>5. \A t \in Threads : Pends(t)
    BY <2>1, WaitQueueAssumption DEF Pends, Pending
  <2> QED BY <2>4, <2>5 DEF WaitInv
<1>2. PollInv
  <2>1. <<>> \in Seq(Pollables) /\ <<>> \in Seq(Events) /\ ToSet(<<>>) = {} /\ Distinct(<<>>)
    BY EmptyList
  <2>2. PollerTypes
    <3>1. [pc |-> "none", events |-> <<>>] \in WorkCalls
      BY <2>1 DEF WorkCalls
    <3>2. Idle \in Calls
      BY DEF Calls
    <3> QED BY <1>0, <3>1, <3>2 DEF PollerTypes
  <2>3. ListsOK
    BY <1>0, <2>1 DEF ListsOK
  <2>4. \A p \in Pollers : Listed(p) = {} /\ \A o \in Pollables : States(p)[o] = {}
    BY <1>0, <2>1 DEF Listed, On, States, Events
  <2>5. \A t \in Threads : ThreadPolls(t)
    <3> TAKE t \in Threads
    <3>1. call[t].op # "poll" /\ t \in Pollers
      BY <1>0, KindsDiffer DEF Idle
    <3> QED BY <2>4, <3>1 DEF ThreadPolls, PollingThread
  <2>6. \A w \in TWorks : WorkPolls(w)
    <3> TAKE w \in TWorks
    <3>1. PICK c : c = [pc |-> "none", events |-> <<>>]
      OBVIOUS
    <3>2. PICK i : i = Item(w)
      OBVIOUS
    <3>3. /\ ~i.workq /\ ~i.queued /\ ~i.timed /\ i.handler = NotRunning
          /\ c.pc = "none" /\ Distinct(c.events) /\ Len(c.events) = 0 /\ w \in Pollers
      <4>1. /\ i.workq = workq[w] /\ i.queued = (w \in queued) /\ i.handler = handler[w]
            /\ i.timed = (w \in tw_armed \cup tw_firing)
        BY <3>2 DEF Item
      <4>2. c.pc = "none" /\ c.events = <<>> /\ w \in Pollers
        BY <3>1, KindsDiffer
      <4>3. ~workq[w] /\ w \notin queued /\ w \notin tw_armed \cup tw_firing /\ handler[w] = NotRunning
        BY <1>0
      <4>4. ~i.workq /\ ~i.queued /\ ~i.timed /\ i.handler = NotRunning
        BY <4>1, <4>3
      <4> QED BY <2>1, <4>2, <4>4
    <3>4. PICK st : st = States(w)
      OBVIOUS
    <3>5. Holds(c.events, Extent(c, i), st, {})
      BY <3>3 DEF Holds, Extent
    <3>6. PollingWork(c, st, FALSE, {}, i)
      BY <3>3, <3>5 DEF PollingWork, Sleeps, Uncalled
    <3>7. twork[w] = c /\ is_polling[w] = FALSE /\ Listed(w) = {}
      BY <1>0, <2>4, <3>1, <3>3
    <3> QED BY <3>2, <3>4, <3>6, <3>7 DEF WorkPolls
  <2> QED BY <1>0, <2>2, <2>3, <2>5, <2>6 DEF PollInv
<1>3. /\ wait_q = [o \in Objects |-> <<>>] /\ \A o \in Waitables : wait_q[o] = <<>>
      /\ pended_on = [t \in Threads |-> None] /\ swap_retval = [t \in Threads |-> "0"]
  BY <1>0 DEF WaitInit, Waitables
<1>4. SemInv
  <2>1. /\ count = [s \in Sems |-> 0] /\ credit = [s \in Sems |-> 0]
    BY DEF PollInit, SemInit
  <2>2. \A s \in Sems : Owed(s) = {}
    BY <1>0 DEF Owed, Idle
  <2>3. Cardinality({}) = 0
    BY FS_EmptySet
  <2>4. \A s \in Sems : SemOK(s)
    BY <2>1, <2>2, <2>3 DEF SemOK
  <2> QED BY <2>1, <2>4 DEF SemInv
<1>5. MsgqInv
  BY DEF PollInit, MsgQInit, MsgqInv
<1>6. HandInv /\ HandedOver \subseteq {None}
  BY <1>0 DEF HandInv, HandedOver
<1>7. QueueInv
  <2>1. <<>> \in Seq(Items) /\ ToSet(<<>>) = {} /\ Distinct(<<>>)
    BY EmptyList
  <2> QED BY <2>1 DEF PollInit, QueueInit, QueueInv, ListOK
<1>8. StackInv
  <2>1. <<>> \in Seq(Words) /\ ToSet(<<>>) = {} /\ Distinct(<<>>)
    BY EmptyList
  <2> QED BY <2>1 DEF PollInit, StackInit, StackInv, ListOK
<1>9. SlabInv
  <2>1. free_list = [l \in Slabs |-> Blocks[l]] /\ num_used = [l \in Slabs |-> 0]
    BY DEF PollInit, SlabInit
  <2>2. ASSUME NEW l \in Slabs PROVE SlabOK(l)
    <3>1. PICK b : b = Blocks[l]
      OBVIOUS
    <3>2. PICK S : S = ToSet(b)
      OBVIOUS
    <3>3. b \in Seq(S) /\ IsInjective(b) /\ None \notin S
      BY <3>1, <3>2, MemSlabAssumption
    <3>4. Distinct(b) /\ Len(b) \in Nat
      BY <3>3, DistinctInjective
    <3>5. wait_q[l] = <<>>
      BY <1>3, KindsApart
    <3>6. S \cap HandedOver = {}
      BY <1>6, <3>3
    <3>7. ListOK(l, b)
      BY <3>2, <3>4, <3>5, <3>6 DEF ListOK
    <3>8. free_list[l] = b /\ num_used[l] = 0
      BY <2>1, <3>1
    <3> QED BY <3>1, <3>2, <3>3, <3>4, <3>7, <3>8 DEF SlabOK
  <2> QED BY <2>1, <2>2 DEF SlabInv
<1>10. EventInv
  <2>1. \A t \in Threads : call[t].op # "event"
    BY <1>0 DEF Idle
  <2> QED BY <2>1 DEF PollInit, EventInit, EventInv, EventWait
<1>11. \A o \in Pollables : Tells(o)
  BY <1>0 DEF Tells
<1>12. DOMAIN signaled = Signals
  BY DEF PollInit
<1> QED
  BY <1>1, <1>2, <1>4, <1>5, <1>6, <1>7, <1>8, <1>9, <1>10, <1>11, <1>12 DEF Inv, ObjInv

LEMMA Invariant == ASSUME ~LateCallback PROVE Spec => []Inv
<1>1. Inv /\ [Next]_vars => Inv'
  BY InvStep, StutterInv
<1> QED BY <1>1, InitInv, PTL DEF Spec

-----------------------------------------------------------------------------
(* The theorems *)

LEMMA InvNoStaleEvent == Inv => NoStaleEvent
<1> SUFFICES ASSUME Inv, NEW o \in Pollables
             PROVE  /\ IsInjective(poll_events[o])
                    /\ \A e \in ToSet(poll_events[o]) :
                         /\ e[2] = o
                         /\ IF e[1] \in Threads THEN call[e[1]].op = "poll" ELSE workq[e[1]]
  BY DEF NoStaleEvent
<1>1. poll_events[o] \in Seq(Events) /\ Distinct(poll_events[o])
      /\ \A e \in ToSet(poll_events[o]) : e[2] = o
  BY DEF Inv, PollInv, ListsOK
<1>2. IsInjective(poll_events[o])
  BY <1>1, DistinctInjective
<1>3. ASSUME NEW e \in ToSet(poll_events[o])
      PROVE  IF e[1] \in Threads THEN call[e[1]].op = "poll" ELSE workq[e[1]]
  <2>1. PICK p \in Pollers : e = <<p, o>>
    BY <1>1, ListElements DEF Events
  <2>2. e[1] = p /\ o \in Listed(p)
    BY <2>1 DEF Listed, On
  <2>3. CASE p \in Threads
    <3>1. PollingThread(call[p], States(p), is_polling[p], Listed(p), pended_on[p] # None,
                        swap_retval[p])
      BY <2>3 DEF Inv, PollInv, ThreadPolls
    <3> QED BY <2>2, <2>3, <3>1 DEF PollingThread
  <2>4. CASE p \in TWorks
    <3>1. PollingWork(twork[p], States(p), is_polling[p], Listed(p), Item(p))
      BY <2>4 DEF Inv, PollInv, WorkPolls
    <3>2. Item(p).workq = workq[p] /\ twork[p] \in WorkCalls
      BY <2>4 DEF Item, Inv, PollInv, PollerTypes
    <3>3. PICK i : i = Item(p)
      OBVIOUS
    <3>4. PICK events : events = twork[p].events
      OBVIOUS
    <3>5. ~i.workq => Holds(events, 0, States(p), Listed(p))
      BY <3>1, <3>3, <3>4 DEF PollingWork, Extent
    <3>6. i.workq
      BY <2>2, <3>5 DEF Holds
    <3>7. p \notin Threads
      BY <2>4, KindsDiffer
    <3> QED BY <2>2, <3>2, <3>3, <3>6, <3>7
  <2> QED BY <2>3, <2>4, KindsDiffer
<1> QED BY <1>1, <1>2, <1>3

LEMMA InvPollAnswer == Inv => PollAnswer
<1> SUFFICES ASSUME Inv, NEW t \in Threads, PollReturns(t)
             PROVE  LET states == {state[<<t, o>>] : o \in Polled(t)}
                    IN  CASE call[t].rc = "0"       -> states # {{}}
                          [] call[t].rc = "-EINTR"  -> "CANCELLED" \in UNION states
                          [] call[t].rc = "-EAGAIN" -> call[t].timeout # "forever"
  BY DEF PollAnswer
<1>1. PICK st : st = States(t)
  OBVIOUS
<1>2. PICK c : c = call[t]
  OBVIOUS
<1>3. c.op = "poll" /\ c.pc = "clear" /\ c \in Calls
  BY <1>2 DEF PollReturns, Stage, Inv, PollInv, PollerTypes
<1>4. Answered(c, st, c.rc)
  <2>1. PollingThread(c, st, is_polling[t], Listed(t), pended_on[t] # None, swap_retval[t])
    BY <1>1, <1>2 DEF Inv, PollInv, ThreadPolls
  <2> QED BY <1>3, <2>1 DEF PollingThread
<1>5. c.events \in Seq(Pollables)
  BY <1>3, PollCallIs DEF PollCalls
<1>6. Polled(t) = ToSet(c.events) /\ ToSet(c.events) \subseteq Pollables
  BY <1>2, <1>5, ListElements DEF Polled
<1>7. \A o \in Pollables : st[o] = state[<<t, o>>]
  BY <1>1 DEF States
<1>8. PICK states : states = {state[<<t, o>>] : o \in Polled(t)}
  OBVIOUS
<1>9. \A o \in ToSet(c.events) : st[o] \in states
  BY <1>6, <1>7, <1>8
<1>10. CASE c.rc = "0"
  <2>1. PICK o \in ToSet(c.events) : st[o] # {}
    BY <1>4, <1>10 DEF Answered, Ready
  <2>2. states # {{}}
    BY <1>9, <2>1
  <2> QED BY <1>2, <1>8, <1>10, <2>2
<1>11. CASE c.rc = "-EINTR"
  <2>1. PICK o \in ToSet(c.events) : "CANCELLED" \in st[o]
    BY <1>4, <1>11 DEF Answered
  <2>2. "CANCELLED" \in UNION states
    BY <1>9, <2>1
  <2> QED BY <1>2, <1>8, <1>11, <2>2
<1>12. CASE c.rc = "-EAGAIN"
  <2>1. c.timeout # "forever"
    BY <1>4, <1>12 DEF Answered
  <2> QED BY <1>2, <1>8, <1>12, <2>1
<1> QED BY <1>4, <1>10, <1>11, <1>12 DEF Answered

LEMMA InvTriggeredOnce == Inv => TriggeredOnce
<1> SUFFICES ASSUME Inv, NEW w \in TWorks
             PROVE  LET coming == w \in queued \/ handler[w] # NotRunning
                    IN  /\ workq[w] <=> twork[w].pc # "none" \/ Asleep(w) \/ coming \/ w \in tw_firing
                        /\ coming => /\ twork[w].pc = "none" /\ ~is_polling[w]
                                     /\ ~(w \in queued /\ handler[w] # NotRunning)
                                     /\ poll_result[w] \in {"0", "-EAGAIN"}
                                     /\ poll_result[w] = "0" => \E o \in Polled(w) : state[<<w, o>>] # {}
  BY DEF TriggeredOnce
<1>1. PICK c : c = twork[w]
  OBVIOUS
<1>2. PICK i : i = Item(w)
  OBVIOUS
<1>3. PICK st : st = States(w)
  OBVIOUS
<1>4. PollingWork(c, st, is_polling[w], Listed(w), i)
  BY <1>1, <1>2, <1>3 DEF Inv, PollInv, WorkPolls
<1>5. /\ c \in WorkCalls /\ w \notin Threads /\ is_polling[w] \in BOOLEAN /\ i \in WorkItems
      /\ PollerTypes
  BY <1>1, <1>2, KindsDiffer, ItemTypes DEF Inv, PollInv, PollerTypes
<1>6. /\ i.workq = workq[w] /\ i.mode = mode[w] /\ i.result = poll_result[w]
      /\ i.queued = (w \in queued) /\ i.timed = (w \in tw_armed \cup tw_firing)
      /\ i.handler = handler[w]
  BY <1>2 DEF Item
<1>7. Asleep(w) <=> Sleeps(c, is_polling[w], i)
  BY <1>1, <1>5, <1>6 DEF Asleep, Triggers, Sleeps
<1>8. w \in tw_firing => i.timed
  BY <1>6
<1>9. i.workq <=> c.pc # "none" \/ Sleeps(c, is_polling[w], i) \/ ~Uncalled(i) \/ w \in tw_firing
  BY <1>4, <1>5, <1>8 DEF PollingWork, Sleeps, Comes, Uncalled
<1>10. ASSUME ~Uncalled(i)
       PROVE  c.pc = "none" /\ Comes(c, st, is_polling[w], i)
  BY <1>4, <1>10 DEF PollingWork
<1>11. ASSUME ~Uncalled(i), i.result = "0" PROVE \E o \in Polled(w) : state[<<w, o>>] # {}
  <2>1. PICK o \in ToSet(c.events) : st[o] # {}
    BY <1>10, <1>11 DEF Comes, Learns, Ready
  <2>2. c.events \in Seq(Pollables)
    BY <1>5, WorkCallIs
  <2>3. o \in Pollables /\ o \in Polled(w)
    BY <1>1, <1>5, <2>1, <2>2, ListElements DEF Polled
  <2>4. st[o] = state[<<w, o>>]
    BY <1>3, <2>3 DEF States
  <2> QED BY <2>1, <2>3, <2>4
<1>12. ~Uncalled(i) <=> w \in queued \/ handler[w] # NotRunning
  BY <1>6 DEF Uncalled
<1>13. workq[w] <=> twork[w].pc # "none" \/ Asleep(w) \/ (w \in queued \/ handler[w] # NotRunning)
                      \/ w \in tw_firing
  BY <1>1, <1>6, <1>7, <1>9, <1>12
<1>14. ASSUME w \in queued \/ handler[w] # NotRunning
       PROVE  /\ twork[w].pc = "none" /\ ~is_polling[w]
              /\ ~(w \in queued /\ handler[w] # NotRunning)
              /\ poll_result[w] \in {"0", "-EAGAIN"}
              /\ poll_result[w] = "0" => \E o \in Polled(w) : state[<<w, o>>] # {}
  <2>1. c.pc = "none" /\ Comes(c, st, is_polling[w], i)
    BY <1>10, <1>12, <1>14
  <2>2. /\ ~is_polling[w] /\ (i.queued <=> i.handler = NotRunning)
        /\ i.result \in {"0", "-EAGAIN"}
    BY <2>1 DEF Comes, Learns
  <2> QED BY <1>1, <1>6, <1>11, <1>12, <1>14, <2>1, <2>2
<1> QED BY <1>13, <1>14

LEMMA InvNoMissedEvent == Inv => NoMissedEvent
<1> SUFFICES ASSUME Inv, NEW p \in Pollers, Asleep(p), NEW o \in Polled(p)
             PROVE  /\ <<p, o>> \in ToSet(poll_events[o])
                    /\ is_condition_met(o) /\ handling[o] = None => told[o] # {}
  BY DEF NoMissedEvent
<1>1. o \in Listed(p)
  <2>1. CASE p \in Threads
    <3>1. PICK c : c = call[p]
      OBVIOUS
    <3>2. c.op = "poll" /\ c.pc = "pended" /\ pended_on[p] # None /\ o \in ToSet(c.events)
      BY <2>1, <3>1, KindsDiffer DEF Asleep, Stage, Polled
    <3>3. PollingThread(c, States(p), is_polling[p], Listed(p), pended_on[p] # None, swap_retval[p])
      BY <2>1, <3>1 DEF Inv, PollInv, ThreadPolls
    <3> QED BY <3>2, <3>3 DEF PollingThread
  <2>2. CASE p \in TWorks
    <3>1. PICK c : c = twork[p]
      OBVIOUS
    <3>2. PICK i : i = Item(p)
      OBVIOUS
    <3>3. p \notin Threads /\ i.workq = workq[p] /\ i.mode = mode[p]
      BY <2>2, <3>2, KindsDiffer DEF Item
    <3>4. Sleeps(c, is_polling[p], i) /\ o \in ToSet(c.events)
      BY <3>1, <3>3 DEF Asleep, Triggers, Sleeps, Polled
    <3>5. PollingWork(c, States(p), is_polling[p], Listed(p), i)
      BY <2>2, <3>1, <3>2 DEF Inv, PollInv, WorkPolls
    <3> QED BY <3>4, <3>5 DEF PollingWork
  <2> QED BY <2>1, <2>2, KindsDiffer
<1>2. o \in Pollables /\ <<p, o>> \in ToSet(poll_events[o])
  BY <1>1 DEF Listed, On
<1>3. poll_events[o] # <<>>
  BY <1>2, NoElement DEF Inv, PollInv, ListsOK
<1>4. None # "AVAILABLE"
  BY PollEventsAssumption
<1> QED BY <1>2, <1>3, <1>4 DEF Inv, Tells

\* A thread is lost by the append of a list that is too short alone.
LEMMA AnyCallLoses ==
  ASSUME ~ShortLists, Inv, AnyCall, lost = {}
  PROVE  lost' = {}
<1>1. ASSUME NEW q \in Queues,
             \/ \E i \in Items, prev \in ToSet(data_q[q]) \cup {None} : queue_insert(q, i, prev)
             \/ \E i \in Items : k_queue_remove(q, i)
             \/ \E items \in ItemLists :
                  /\ ShortLists \/ Len(wait_q[q]) <= Len(items)
                  /\ k_queue_append_list(q, items)
             \/ k_queue_cancel_wait(q)
      PROVE  lost' = {}
  <2>1. CASE \E i \in Items, prev \in ToSet(data_q[q]) \cup {None} : queue_insert(q, i, prev)
    BY <2>1 DEF queue_insert
  <2>2. CASE \E i \in Items : k_queue_remove(q, i)
    BY <2>2 DEF k_queue_remove
  <2>3. ASSUME NEW items \in ItemLists, Len(wait_q[q]) <= Len(items), k_queue_append_list(q, items)
        PROVE  lost' = {}
    <3>1. items \in Seq(Items)
      BY ListsAre
    <3>2. wait_q[q] \in Seq(Threads)
      BY KindsApart DEF Waitables, Inv, WaitInv, WaitLists, WaitTypeOK
    <3>3. Len(items) + 1 \notin DOMAIN wait_q[q]
      BY <2>3, <3>1, <3>2
    <3>4. Excess(q, items) = {}
      BY <3>3 DEF Excess
    <3> QED BY <2>3, <3>4 DEF k_queue_append_list
  <2>4. CASE k_queue_cancel_wait(q)
    BY <2>4 DEF k_queue_cancel_wait, queueVars
  <2> QED BY <1>1, <2>1, <2>2, <2>3, <2>4
<1>2. ASSUME UNCHANGED queueVars \/ UNCHANGED lost PROVE lost' = {}
  BY <1>2 DEF queueVars
<1> QED BY <1>1, <1>2 DEF AnyCall, k_poll_signal_raise, k_poll_signal_reset

LEMMA NobodyLost ==
  ASSUME ~ShortLists, Inv, lost = {}, [Next]_vars
  PROVE  lost' = {}
<1>1. ASSUME UNCHANGED objectVars PROVE lost' = {}
  BY <1>1 DEF objectVars, queueVars
<1>2. CASE UNCHANGED vars
  BY <1>1, <1>2 DEF vars
<1>3. CASE TimeoutStep
  BY <1>1, <1>3 DEF TimeoutStep, triggered_work_expiration_handler
<1>4. CASE AnyCall
  BY <1>4, AnyCallLoses
<1>5. ASSUME NEW t \in Threads, ThreadStep(t) PROVE lost' = {}
  <2>1. ASSUME UNCHANGED queueVars \/ UNCHANGED lost PROVE lost' = {}
    BY <2>1 DEF queueVars
  <2>2. CASE \/ \E events \in Arrays, timeout \in Timeout \cup {"no_wait"} : k_poll(t, events, timeout)
             \/ PollRegister(t) \/ PollDecide(t) \/ PollClear(t) \/ PollDone(t)
    BY <1>1, <2>2 DEF k_poll, PollRegister, PollDecide, PollClear, PollDone
  <2>3. CASE \E q \in Queues \cap used, timeout \in Timeout : k_queue_get(t, q, timeout)
    BY <2>1, <2>3 DEF k_queue_get
  <2> QED BY <1>5, <2>1, <2>2, <2>3 DEF ThreadStep
<1>6. ASSUME NEW t \in Threads, ExpireWait(t) PROVE lost' = {}
  BY <1>1, <1>6 DEF ExpireWait
<1>7. ASSUME NEW w \in TWorks, WorkStep(w) PROVE lost' = {}
  BY <1>1, <1>7 DEF WorkStep, k_work_poll_submit, k_work_poll_cancel, CancelStep, SubmitRegister,
         SubmitDecide, SubmitClear, HandlerStart, HandlerStep, ExpireWork
<1> QED BY <1>2, <1>3, <1>4, <1>5, <1>6, <1>7 DEF Next

LEMMA InvNoIdleWaiter == Inv /\ lost = {} => NoIdleWaiter
<1> SUFFICES ASSUME Inv, lost = {} PROVE NoIdleWaiter
  OBVIOUS
<1>0. \A o \in Waitables : Waiters(o) = ToSet(wait_q[o]) /\ (Waiters(o) # {} => wait_q[o] # <<>>)
  <2> TAKE o \in Waitables
  <2>1. Waiters(o) = ToSet(wait_q[o])
    BY DEF Waiters
  <2>2. ToSet(<<>>) = {}
    BY EmptyList
  <2> QED BY <2>1, <2>2
<1>1. /\ \A s \in Sems : Waiters(s) # {} => count[s] = 0
      /\ \A q \in Queues : Waiters(q) # {} => data_q[q] = <<>>
      /\ \A k \in Stacks : Waiters(k) # {} => pushed[k] = <<>>
      /\ \A l \in Slabs : Waiters(l) # {} => free_list[l] = <<>>
  BY <1>0, KindsApart DEF Inv, ObjInv, SemInv, SemOK, QueueInv, StackInv, SlabInv, SlabOK, ListOK
<1>2. ASSUME NEW e \in EventObjs, NEW t \in Waiters(e)
      PROVE  ~are_wait_conditions_met(call[t].desired, tracked[e], call[t].all)
  <2>1. e \in Objects /\ e # poll_wait_q /\ None \notin Objects
    BY KindsApart, KindsDiffer DEF Waitables
  <2>6. t \in ToSet(wait_q[e])
    BY <1>0, <2>1 DEF Waitables
  <2>2. t \in Threads
    BY <2>1, <2>6, ListElements DEF Inv, WaitInv, WaitLists, WaitTypeOK
  <2>3. pended_on[t] = e
    BY <2>1, <2>2, <2>6 DEF Inv, WaitInv, WaitLists
  <2>4. call[t].op \notin {"idle", "poll"} /\ call[t].obj = e
    BY <2>1, <2>2, <2>3 DEF Inv, WaitInv, Pends, Pending
  <2>5. call[t].op = "event"
    BY <2>2, <2>4, WaitsFor DEF Inv, PollInv, PollerTypes
  <2> QED BY <2>1, <2>2, <2>3, <2>4, <2>5 DEF Inv, ObjInv, EventInv, EventWait
<1>3. ASSUME NEW t \in Threads, Returning(t, {"event"})
      PROVE  Received(t) # {} <=> swap_retval[t] = "0"
  BY <1>3 DEF Returning, Received, Inv, ObjInv, EventInv, EventWait
<1> QED BY <1>1, <1>2, <1>3 DEF NoIdleWaiter

LEMMA InvNothingLost == Inv => NothingLost
<1> SUFFICES ASSUME Inv PROVE NothingLost
  OBVIOUS
<1>1. SemConserved
  <2> SUFFICES ASSUME NEW s \in Sems
               PROVE  credit[s] = count[s]
                        + Cardinality({t \in Threads : /\ Returning(t, {"take"}) /\ call[t].obj = s
                                                       /\ swap_retval[t] = "0"})
    BY DEF SemConserved
  <2>1. Owed(s) = {t \in Threads : /\ Returning(t, {"take"}) /\ call[t].obj = s
                                   /\ swap_retval[t] = "0"}
    BY DEF Owed, Returning
  <2>2. credit[s] = count[s] + Cardinality(Owed(s))
    BY DEF Inv, ObjInv, SemInv, SemOK
  <2> QED BY <2>1, <2>2
<1>2. /\ \A t \in Threads : swap_data[t] # None => Returning(t, Giving) /\ swap_retval[t] = "0"
      /\ \A t, u \in Threads : swap_data[t] = swap_data[u] => t = u \/ swap_data[t] = None
  BY DEF Inv, ObjInv, HandInv
<1>3. \A q \in Queues : IsInjective(data_q[q]) /\ ToSet(data_q[q]) \cap HandedOver = {}
  BY DistinctInjective DEF Inv, ObjInv, QueueInv, ListOK
<1>4. \A k \in Stacks : IsInjective(pushed[k]) /\ ToSet(pushed[k]) \cap HandedOver = {}
  BY DistinctInjective DEF Inv, ObjInv, StackInv, ListOK
<1>5. \A l \in Slabs : /\ IsInjective(free_list[l]) /\ ToSet(free_list[l]) \cap HandedOver = {}
                       /\ num_used[l] + Len(free_list[l]) = Len(Blocks[l])
  <2> TAKE l \in Slabs
  <2>1. PICK f : f = free_list[l]
    OBVIOUS
  <2>2. PICK S : S = ToSet(Blocks[l])
    OBVIOUS
  <2>3. /\ f \in Seq(S) /\ Distinct(f) /\ ToSet(f) \cap HandedOver = {}
        /\ num_used[l] + Len(free_list[l]) = Len(Blocks[l])
    BY <2>1, <2>2 DEF Inv, ObjInv, SlabInv, SlabOK, ListOK
  <2> QED BY <2>1, <2>3, DistinctInjective
<1>6. \A list \in {data_q[q] : q \in Queues} \cup {pushed[k] : k \in Stacks}
                     \cup {free_list[l] : l \in Slabs} :
        IsInjective(list) /\ ToSet(list) \cap HandedOver = {}
  BY <1>3, <1>4, <1>5
<1> QED BY <1>1, <1>2, <1>5, <1>6 DEF NothingLost

\* However objects change while a poller registers its events one by one, one
\* that sleeps is on the list of each of its objects, and an available object
\* whose call has ended has told some poller so (k_poll, k_work_poll_submit,
\* z_handle_obj_poll_events).
THEOREM PollNoMissedEvent ==
  ASSUME ~LateCallback PROVE Spec => []NoMissedEvent
BY Invariant, InvNoMissedEvent, PTL

\* An event is on the list of its object once, and only while its poller polls:
\* every path through k_poll, the cancelling and the handler of a triggered
\* item clears what it registered (clear_event_registrations).
THEOREM PollNoStaleEvent ==
  ASSUME ~LateCallback PROVE Spec => []NoStaleEvent
BY Invariant, InvNoStaleEvent, PTL

\* What k_poll returns is what its events say: 0 with an event that is ready,
\* -EINTR with one that was cancelled, -EAGAIN only if a timeout was given.
THEOREM PollAnswers ==
  ASSUME ~LateCallback PROVE Spec => []PollAnswer
BY Invariant, InvPollAnswer, PTL

\* A triggered item belongs to its queue exactly while it is registered,
\* cancelled, watched, submitted or handled; it is submitted once, and its
\* handler learns an event or the end of its time (k_work_poll_submit,
\* signal_triggered_work, triggered_work_expiration_handler).
THEOREM PollTriggeredOnce ==
  ASSUME ~LateCallback PROVE Spec => []TriggeredOnce
BY Invariant, InvTriggeredOnce, PTL

\* No thread waits for a semaphore, item, word or block that is there, or for
\* events that were delivered, and who is woken by an event object gets one
\* of the events it waited for: unless k_queue_append_list is called with fewer
\* items than threads wait (queue.c:280).
THEOREM PollNoIdleWaiter ==
  ASSUME ~LateCallback, ~ShortLists PROVE Spec => []NoIdleWaiter
<1>1. PollInit => lost = {}
  BY DEF PollInit, QueueInit
<1>2. Inv /\ lost = {} /\ [Next]_vars => (lost = {})'
  BY NobodyLost
<1> QED BY <1>1, <1>2, Invariant, InvNoIdleWaiter, PTL DEF Spec

\* What was given is in one place: semaphores in the count or with a thread
\* woken for them, items, words and blocks on one list or in the swap_data of
\* one thread that will return them; num_used counts the blocks not free.
THEOREM PollNothingLost ==
  ASSUME ~LateCallback PROVE Spec => []NothingLost
BY Invariant, InvNothingLost, PTL

-----------------------------------------------------------------------------
(* The ring buffer of a message queue *)

\* The i-th slot behind slot r, and the messages in the n slots from r on.
Slot(r, i) == IF max_msgs - r <= i THEN i - (max_msgs - r) ELSE r + i

Ring(b, r, n) == [i \in 1 .. n |-> b[Slot(r, i - 1)]]

\* s is what is in the n slots of b from r on.
IsRing(s, S, b, r, n) ==
  /\ s \in Seq(S) /\ Len(s) = n
  /\ \A i \in 1 .. n : s[i] = b[Slot(r, i - 1)]

LEMMA SlotIs ==
  ASSUME NEW r \in Slots
  PROVE  /\ Slot(r, 0) = r /\ NextSlot(r) \in Slots
         /\ \A i \in 0 .. max_msgs : Slot(r, i) \in Slots
         /\ \A i, j \in 0 .. max_msgs - 1 : Slot(r, i) = Slot(r, j) => i = j
         /\ \A i \in 0 .. max_msgs - 1 : /\ NextSlot(Slot(r, i)) = Slot(r, i + 1)
                                         /\ Slot(NextSlot(r), i) = Slot(r, i + 1)
<1>1. max_msgs \in Nat /\ max_msgs > 0 /\ r \in Int /\ 0 <= r /\ r < max_msgs
  BY MsgQAssumption DEF Slots
<1>2. Slot(r, 0) = r /\ NextSlot(r) \in Slots
  BY <1>1 DEF Slot, NextSlot, Slots
<1>3. \A i \in 0 .. max_msgs : Slot(r, i) \in Slots
  BY <1>1 DEF Slot, Slots
<1>4. \A i, j \in 0 .. max_msgs - 1 : Slot(r, i) = Slot(r, j) => i = j
  BY <1>1 DEF Slot
<1>5. ASSUME NEW i \in 0 .. max_msgs - 1
      PROVE  NextSlot(Slot(r, i)) = Slot(r, i + 1) /\ Slot(NextSlot(r), i) = Slot(r, i + 1)
  <2>0. i \in Int /\ 0 <= i /\ i < max_msgs
    BY <1>1
  <2>1. CASE r + i >= max_msgs
    BY <1>1, <2>0, <2>1 DEF Slot, NextSlot
  <2>2. CASE r + i + 1 = max_msgs
    BY <1>1, <2>0, <2>2 DEF Slot, NextSlot
  <2>3. CASE r + i + 1 < max_msgs
    BY <1>1, <2>0, <2>3 DEF Slot, NextSlot
  <2> QED BY <1>1, <2>0, <2>1, <2>2, <2>3
<1> QED BY <1>2, <1>3, <1>4, <1>5

LEMMA RingIs ==
  ASSUME NEW S, NEW b \in [Slots -> S], NEW r \in Slots, NEW n \in 0 .. max_msgs
  PROVE  IsRing(Ring(b, r, n), S, b, r, n)
<1>1. n \in Nat /\ n <= max_msgs /\ max_msgs \in Nat
  BY MsgQAssumption
<1>2. \A i \in 1 .. n : i - 1 \in 0 .. max_msgs
  BY <1>1
<1>3. \A i \in 1 .. n : b[Slot(r, i - 1)] \in S
  BY <1>2, SlotIs
<1>4. Ring(b, r, n) \in [1 .. n -> S]
  BY <1>3 DEF Ring
<1> QED BY <1>1, <1>4 DEF Ring, IsRing

\* To write x behind the n messages from slot r on is to append it to them.
WriteAppends(b, r, n, x) ==
  Ring([b EXCEPT ![Slot(r, n)] = x], r, n + 1) = Append(Ring(b, r, n), x)

LEMMA RingPut ==
  ASSUME NEW S, NEW b \in [Slots -> S], NEW r \in Slots, NEW n \in 0 .. max_msgs - 1, NEW x \in S
  PROVE  WriteAppends(b, r, n, x)
<1>1. n \in Nat /\ n + 1 \in 0 .. max_msgs /\ n \in 0 .. max_msgs /\ max_msgs \in Nat
  BY MsgQAssumption
<1>2. PICK c : c = [b EXCEPT ![Slot(r, n)] = x]
  OBVIOUS
<1>3. /\ Slot(r, n) \in Slots /\ c \in [Slots -> S] /\ c[Slot(r, n)] = x
      /\ \A i \in 1 .. n : c[Slot(r, i - 1)] = b[Slot(r, i - 1)]
  <2>1. Slot(r, n) \in Slots
    BY <1>1, SlotIs
  <2>2. \A i \in 1 .. n : Slot(r, i - 1) \in Slots /\ Slot(r, i - 1) # Slot(r, n)
    <3> TAKE i \in 1 .. n
    <3>1. i - 1 \in 0 .. max_msgs - 1 /\ i - 1 \in 0 .. max_msgs /\ i - 1 # n
      BY <1>1
    <3> QED BY <3>1, SlotIs
  <2> QED BY <1>2, <2>1, <2>2
<1>4. PICK s : s = Ring(b, r, n)
  OBVIOUS
<1>5. PICK t : t = Ring(c, r, n + 1)
  OBVIOUS
<1>6. /\ s \in Seq(S) /\ Len(s) = n /\ \A i \in 1 .. n : s[i] = b[Slot(r, i - 1)]
  <2>1. IsRing(s, S, b, r, n)
    BY ONLY <1>1, <1>4, b \in [Slots -> S], r \in Slots, RingIs, Zenon
  <2> QED BY ONLY <2>1 DEF IsRing
<1>7. /\ t \in Seq(S) /\ Len(t) = n + 1 /\ \A i \in 1 .. n + 1 : t[i] = c[Slot(r, i - 1)]
  <2>1. PICK k \in 0 .. max_msgs : k = n + 1
    BY <1>1
  <2>2. IsRing(Ring(c, r, k), S, c, r, k)
    BY ONLY <1>3, <2>1, r \in Slots, RingIs, Zenon
  <2> QED BY ONLY <1>5, <2>1, <2>2 DEF IsRing
<1>8. /\ Append(s, x) \in Seq(S) /\ Len(Append(s, x)) = n + 1 /\ Append(s, x)[n + 1] = x
      /\ \A i \in 1 .. n : Append(s, x)[i] = s[i]
  BY <1>1, <1>6
<1>9. \A i \in 1 .. n + 1 : t[i] = Append(s, x)[i]
  <2> TAKE i \in 1 .. n + 1
  <2>1. CASE i = n + 1
    BY <1>1, <1>3, <1>7, <1>8, <2>1
  <2>2. CASE i \in 1 .. n
    <3>1. i \in 1 .. n + 1
      OBVIOUS
    <3>2. t[i] = c[Slot(r, i - 1)]
      BY <1>7, <3>1
    <3> QED BY <1>3, <1>6, <1>8, <2>2, <3>2
  <2>3. i = n + 1 \/ i \in 1 .. n
    BY ONLY <1>1, i \in 1 .. n + 1
  <2> QED BY ONLY <2>1, <2>2, <2>3
<1>10. t = Append(s, x)
  BY <1>7, <1>8, <1>9, SeqEqual
<1> QED BY <1>2, <1>4, <1>5, <1>10 DEF WriteAppends

\* The first message is read.
LEMMA RingGet ==
  ASSUME NEW S, NEW b \in [Slots -> S], NEW r \in Slots, NEW n \in 1 .. max_msgs
  PROVE  /\ Head(Ring(b, r, n)) = b[r] /\ Ring(b, r, n) # <<>>
         /\ Ring(b, NextSlot(r), n - 1) = Tail(Ring(b, r, n))
<1>1. n \in Nat /\ n >= 1 /\ n \in 0 .. max_msgs /\ n - 1 \in 0 .. max_msgs /\ max_msgs \in Nat
      /\ n - 1 \in Nat
  BY MsgQAssumption
<1>2. PICK s : s = Ring(b, r, n)
  OBVIOUS
<1>3. PICK t : t = Ring(b, NextSlot(r), n - 1)
  OBVIOUS
<1>4. /\ s \in Seq(S) /\ Len(s) = n /\ \A i \in 1 .. n : s[i] = b[Slot(r, i - 1)]
  <2>1. IsRing(s, S, b, r, n)
    BY ONLY <1>1, <1>2, b \in [Slots -> S], r \in Slots, RingIs, Zenon
  <2> QED BY ONLY <2>1 DEF IsRing
<1>5. /\ t \in Seq(S) /\ Len(t) = n - 1
      /\ \A i \in 1 .. n - 1 : t[i] = b[Slot(NextSlot(r), i - 1)]
  <2>1. PICK q \in Slots : q = NextSlot(r)
    BY SlotIs
  <2>2. PICK k \in 0 .. max_msgs : k = n - 1
    BY <1>1
  <2>3. IsRing(Ring(b, q, k), S, b, q, k)
    BY ONLY b \in [Slots -> S], q \in Slots, k \in 0 .. max_msgs, RingIs, Zenon
  <2> QED BY ONLY <1>3, <2>1, <2>2, <2>3 DEF IsRing
<1>6. s # <<>> /\ Head(s) = s[1] /\ s[1] = b[r]
  <2>1. s[1] = b[Slot(r, 1 - 1)]
    BY <1>1, <1>4
  <2>2. s[1] = b[r]
    BY <2>1, SlotIs
  <2> QED BY <1>1, <1>4, <2>2
<1>7. /\ Tail(s) \in Seq(S) /\ Len(Tail(s)) = n - 1 /\ \A i \in 1 .. n - 1 : Tail(s)[i] = s[i + 1]
  BY <1>1, <1>4, <1>6
<1>8. \A i \in 1 .. n - 1 : t[i] = Tail(s)[i]
  <2> TAKE i \in 1 .. n - 1
  <2>1. i - 1 \in 0 .. max_msgs - 1 /\ i + 1 \in 1 .. n /\ (i + 1) - 1 = (i - 1) + 1
    BY <1>1
  <2>2. Slot(NextSlot(r), i - 1) = Slot(r, (i + 1) - 1)
    BY <2>1, SlotIs
  <2>3. s[i + 1] = b[Slot(r, (i + 1) - 1)]
    BY <1>4, <2>1
  <2> QED BY <1>5, <1>7, <2>2, <2>3
<1>9. t = Tail(s)
  BY <1>5, <1>7, <1>8, SeqEqual
<1> QED BY <1>2, <1>3, <1>6, <1>9

-----------------------------------------------------------------------------
(* Message queues implement FifoSpec *)

\* A step of the abstract channels, or none.
FifoStep == [Fifo!Next]_(Fifo!vars)

\* The refinement mapping.
Chan == [m \in MsgQs |-> Contents(m)]

Prog == [t \in Threads |-> Progress(t)]

RingTypes ==
  /\ buffer \in [MsgQs -> [Slots -> Msgs \cup {None}]]
  /\ read_ptr \in [MsgQs -> Slots] /\ write_ptr \in [MsgQs -> Slots]
  /\ used_msgs \in [MsgQs -> 0 .. max_msgs]
  /\ data \in [Threads -> Msgs \cup {None}]

\* The slot to write is the one behind the messages.
RingInv == RingTypes /\ \A m \in MsgQs : write_ptr[m] = Slot(read_ptr[m], used_msgs[m])

\* Who waits for space waits for a queue that is full, who waits for a message
\* for one that is empty.
FullOrEmpty ==
  \A t \in Threads, m \in MsgQs :
    /\ Progress(t) = <<"put", m>> => used_msgs[m] = max_msgs
    /\ Progress(t) = <<"get", m>> => used_msgs[m] = 0

FifoInv == RingInv /\ FullOrEmpty

Resting == {<<"none">>, <<"done">>, <<"failed">>}

LEMMA StagesDiffer ==
  ASSUME NEW x \in {"put", "get"}, NEW y \in {"put", "get"}, NEW m, NEW n
  PROVE  /\ <<x, m>> \notin Resting
         /\ <<x, m>> = <<y, n>> <=> x = y /\ m = n
         /\ <<"none">> \notin {<<"done">>, <<"failed">>} /\ <<"done">> # <<"failed">>
<1>1. <<x, m>> # <<"none">> /\ <<x, m>> # <<"done">> /\ <<x, m>> # <<"failed">>
  OBVIOUS
<1>2. <<x, m>> = <<y, n>> <=> x = y /\ m = n
  OBVIOUS
<1>3. <<"none">> # <<"done">> /\ <<"none">> # <<"failed">> /\ <<"done">> # <<"failed">>
  OBVIOUS
<1> QED BY <1>1, <1>2, <1>3 DEF Resting

\* Who waits on a message queue.
LEMMA WaitsOn ==
  ASSUME WaitInv, PollInv, NEW t \in Threads, NEW m \in MsgQs
  PROVE  /\ t \in ToSet(wait_q[m]) <=> pended_on[t] = m
         /\ pended_on[t] = m => /\ call[t].op \in {"put", "get"} /\ call[t].obj = m
                                /\ Progress(t) = <<call[t].op, m>> /\ swap_retval[t] = "-EAGAIN"
         /\ Progress(t) \in {<<"put", m>>, <<"get", m>>} => pended_on[t] = m
<1>1. /\ m \in Objects /\ m # None /\ m # poll_wait_q /\ call[t] \in Calls
  BY KindsApart, KindsDiffer DEF Waitables, PollInv, PollerTypes
<1>2. t \in ToSet(wait_q[m]) <=> pended_on[t] = m
  BY <1>1 DEF WaitInv, WaitLists
<1>3. ASSUME pended_on[t] = m
      PROVE  /\ call[t].op \in {"put", "get"} /\ call[t].obj = m
             /\ Progress(t) = <<call[t].op, m>> /\ swap_retval[t] = "-EAGAIN"
  <2>1. Pending(call[t], pended_on[t], swap_retval[t], t \in armed \/ t = firing)
    BY DEF WaitInv, Pends
  <2>2. call[t].op \notin {"idle", "poll"} /\ call[t].obj = m /\ swap_retval[t] = "-EAGAIN"
    BY <1>1, <1>3, <2>1 DEF Pending
  <2>3. call[t].op \in {"put", "get"}
    BY <1>1, <2>2, WaitsFor
  <2> QED BY <1>3, <2>2, <2>3 DEF Progress
<1>4. ASSUME Progress(t) \in {<<"put", m>>, <<"get", m>>} PROVE pended_on[t] = m
  <2>1. PICK x \in {"put", "get"} : Progress(t) = <<x, m>>
    BY <1>4
  <2>2. Progress(t) \notin Resting
    BY <2>1, StagesDiffer
  <2>3. /\ call[t].op \in {"put", "get"} /\ pended_on[t] = call[t].obj
        /\ Progress(t) = <<call[t].op, call[t].obj>>
    BY <2>2 DEF Progress, Resting
  <2>4. call[t].obj = m
    BY <2>1, <2>3, StagesDiffer
  <2> QED BY <2>3, <2>4
<1> QED BY <1>2, <1>3, <1>4

\* Threads that are woken are done, or have failed.
LEMMA WokenProgress ==
  ASSUME WaitInv, PollInv, NEW m \in MsgQs, NEW ts \in SUBSET ToSet(wait_q[m]), NEW ret,
         UNCHANGED call, Woken(ts, m, ret), NEW u \in Threads
  PROVE  Progress(u)' = IF u \in ts THEN (IF ret = "0" THEN <<"done">> ELSE <<"failed">>)
                                    ELSE Progress(u)
<1>1. m # None
  BY KindsApart, KindsDiffer DEF Waitables
<1>2. /\ pended_on'[u] = (IF u \in ts THEN None ELSE pended_on[u])
      /\ swap_retval'[u] = (IF u \in ts THEN ret ELSE swap_retval[u])
      /\ call'[u] = call[u]
  BY DEF Woken, Unpended, Returns
<1>3. CASE u \in ts
  <2>1. call[u].op \in {"put", "get"} /\ call[u].obj = m
    BY <1>3, WaitsOn
  <2>2. pended_on'[u] = None /\ swap_retval'[u] = ret
    BY <1>2, <1>3
  <2> QED BY <1>1, <1>2, <1>3, <2>1, <2>2 DEF Progress
<1>4. CASE u \notin ts
  <2>1. pended_on'[u] = pended_on[u] /\ swap_retval'[u] = swap_retval[u]
    BY <1>2, <1>4
  <2> QED BY <1>2, <1>4, <2>1 DEF Progress
<1> QED BY <1>3, <1>4

LEMMA ChanIs ==
  ASSUME NEW m \in MsgQs
  PROVE  Chan[m] = Ring(buffer[m], read_ptr[m], used_msgs[m])
BY DEF Chan, Contents, k_msgq_peek_at, Ring, Slot

\* What becomes of the channels if m is the only queue that changes.
LEMMA ChanOnly ==
  ASSUME NEW m \in MsgQs, NEW s,
         \A a \in MsgQs \ {m} : /\ buffer'[a] = buffer[a] /\ read_ptr'[a] = read_ptr[a]
                                /\ used_msgs'[a] = used_msgs[a],
         Ring(buffer'[m], read_ptr'[m], used_msgs'[m]) = s
  PROVE  Chan' = [Chan EXCEPT ![m] = s]
<1>1. /\ Chan' = [a \in MsgQs |-> Ring(buffer'[a], read_ptr'[a], used_msgs'[a])]
      /\ Chan = [a \in MsgQs |-> Ring(buffer[a], read_ptr[a], used_msgs[a])]
  BY DEF Chan, Contents, k_msgq_peek_at, Ring, Slot
<1>2. \A a \in MsgQs : Ring(buffer'[a], read_ptr'[a], used_msgs'[a]) =
                         IF a = m THEN s ELSE Ring(buffer[a], read_ptr[a], used_msgs[a])
  OBVIOUS
<1> QED BY <1>1, <1>2, Zenon

LEMMA SameChan ==
  ASSUME UNCHANGED msgqVars
  PROVE  Chan' = Chan
BY DEF Chan, Contents, k_msgq_peek_at, msgqVars

\* The ring of one queue.
OneRing(m, b, r, w, n) ==
  /\ b = buffer[m] /\ r = read_ptr[m] /\ w = write_ptr[m] /\ n = used_msgs[m]
  /\ b \in [Slots -> Msgs \cup {None}] /\ r \in Slots /\ w \in Slots /\ n \in 0 .. max_msgs
  /\ w = Slot(r, n)
  /\ Chan[m] = Ring(b, r, n) /\ Chan[m] \in Seq(Msgs \cup {None}) /\ Len(Chan[m]) = n

LEMMA RingOf ==
  ASSUME RingInv, NEW m \in MsgQs
  PROVE  \E b, r, w, n : OneRing(m, b, r, w, n)
<1>1. PICK b, r, w, n : b = buffer[m] /\ r = read_ptr[m] /\ w = write_ptr[m] /\ n = used_msgs[m]
  OBVIOUS
<1>2. /\ b \in [Slots -> Msgs \cup {None}] /\ r \in Slots /\ w \in Slots /\ n \in 0 .. max_msgs
      /\ w = Slot(r, n)
  BY <1>1 DEF RingInv, RingTypes
<1>3. Chan[m] = Ring(b, r, n)
  BY <1>1, ChanIs
<1>4. PICK S : S = Msgs \cup {None}
  OBVIOUS
<1>5. Ring(b, r, n) \in Seq(S) /\ Len(Ring(b, r, n)) = n
  <2>1. b \in [Slots -> S]
    BY ONLY <1>2, <1>4
  <2>2. IsRing(Ring(b, r, n), S, b, r, n)
    BY ONLY <1>2, <2>1, RingIs, Zenon
  <2> QED BY ONLY <2>2 DEF IsRing
<1> QED BY <1>1, <1>2, <1>3, <1>4, <1>5 DEF OneRing

\* A message goes into the buffer.
LEMMA RingPuts ==
  ASSUME RingInv, NEW m \in MsgQs, NEW msg \in Msgs \cup {None}, used_msgs[m] < max_msgs,
         WriteMsg(m, msg), used_msgs' = [used_msgs EXCEPT ![m] = @ + 1], UNCHANGED <<read_ptr, data>>
  PROVE  RingInv' /\ Len(Chan[m]) < max_msgs /\ Chan' = [Chan EXCEPT ![m] = Append(@, msg)]
<1>1. PICK b, r, w, n : OneRing(m, b, r, w, n)
  BY RingOf
<1>2. /\ b = buffer[m] /\ r = read_ptr[m] /\ w = write_ptr[m] /\ n = used_msgs[m]
      /\ b \in [Slots -> Msgs \cup {None}] /\ r \in Slots /\ w \in Slots /\ n \in 0 .. max_msgs
      /\ w = Slot(r, n) /\ Chan[m] = Ring(b, r, n) /\ Len(Chan[m]) = n
  BY <1>1 DEF OneRing
<1>3. max_msgs \in Nat /\ n \in 0 .. max_msgs - 1 /\ n < max_msgs /\ n + 1 \in 0 .. max_msgs
  BY <1>2, MsgQAssumption
<1>4. PICK c : c = [b EXCEPT ![w] = msg]
  OBVIOUS
<1>5. PICK S : S = Msgs \cup {None}
  OBVIOUS
<1>6. Ring(c, r, n + 1) = Append(Ring(b, r, n), msg)
  <2>1. b \in [Slots -> S] /\ r \in Slots /\ n \in 0 .. max_msgs - 1 /\ msg \in S
    BY ONLY <1>2, <1>3, <1>5, msg \in Msgs \cup {None}
  <2>2. WriteAppends(b, r, n, msg)
    BY ONLY <2>1, RingPut
  <2> QED BY ONLY <1>2, <1>4, <2>2 DEF WriteAppends
<1>7. c \in [Slots -> Msgs \cup {None}]
  BY <1>2, <1>4
<1>8. PICK x \in Slots : x = Slot(r, n + 1) /\ x = NextSlot(w)
  BY <1>2, <1>3, SlotIs
<1>9. /\ buffer' = [buffer EXCEPT ![m] = c] /\ write_ptr' = [write_ptr EXCEPT ![m] = x]
      /\ used_msgs' = [used_msgs EXCEPT ![m] = n + 1]
  BY <1>2, <1>4, <1>8 DEF WriteMsg, RingInv, RingTypes
<1>10. /\ buffer'[m] = c /\ write_ptr'[m] = x /\ used_msgs'[m] = n + 1 /\ read_ptr'[m] = r
      /\ \A a \in MsgQs \ {m} : /\ buffer'[a] = buffer[a] /\ read_ptr'[a] = read_ptr[a]
                                /\ write_ptr'[a] = write_ptr[a] /\ used_msgs'[a] = used_msgs[a]
  BY <1>2, <1>9 DEF RingInv, RingTypes
<1>11. RingTypes'
  BY <1>3, <1>7, <1>9 DEF RingInv, RingTypes
<1>12. RingInv'
  <2>1. \A a \in MsgQs : write_ptr'[a] = Slot(read_ptr'[a], used_msgs'[a])
    BY <1>8, <1>10 DEF RingInv
  <2> QED BY <1>11, <2>1 DEF RingInv, Slot
<1>13. PICK s : s = Append(Chan[m], msg)
  OBVIOUS
<1>14. Chan' = [Chan EXCEPT ![m] = s]
  <2>1. Ring(buffer'[m], read_ptr'[m], used_msgs'[m]) = s
    BY <1>2, <1>6, <1>10, <1>13
  <2> QED BY ONLY m \in MsgQs, <1>10, <2>1, ChanOnly
<1> QED BY <1>2, <1>3, <1>12, <1>13, <1>14

\* The first message is taken out ...
LEMMA RingGets ==
  ASSUME RingInv, NEW m \in MsgQs, NEW t \in Threads, used_msgs[m] > 0,
         data' = [data EXCEPT ![t] = buffer[m][read_ptr[m]]],
         read_ptr' = [read_ptr EXCEPT ![m] = NextSlot(@)],
         used_msgs' = [used_msgs EXCEPT ![m] = @ - 1], UNCHANGED <<buffer, write_ptr>>
  PROVE  /\ RingInv' /\ Chan[m] # <<>> /\ Chan' = [Chan EXCEPT ![m] = Tail(@)]
         /\ data' = [data EXCEPT ![t] = Head(Chan[m])]
<1>1. PICK b, r, w, n : OneRing(m, b, r, w, n)
  BY RingOf
<1>2. /\ b = buffer[m] /\ r = read_ptr[m] /\ w = write_ptr[m] /\ n = used_msgs[m]
      /\ b \in [Slots -> Msgs \cup {None}] /\ r \in Slots /\ w \in Slots /\ n \in 0 .. max_msgs
      /\ w = Slot(r, n) /\ Chan[m] = Ring(b, r, n) /\ Len(Chan[m]) = n
  BY <1>1 DEF OneRing
<1>3. max_msgs \in Nat /\ n \in 1 .. max_msgs /\ n - 1 \in 0 .. max_msgs - 1 /\ n - 1 \in 0 .. max_msgs
      /\ (n - 1) + 1 = n
  BY <1>2, MsgQAssumption
<1>4. PICK k : k = n - 1
  OBVIOUS
<1>5. PICK x \in Slots : x = NextSlot(r) /\ w = Slot(x, k)
  BY <1>2, <1>3, <1>4, SlotIs
<1>6. PICK S : S = Msgs \cup {None}
  OBVIOUS
<1>7. Head(Chan[m]) = b[r] /\ Chan[m] # <<>> /\ Ring(b, x, k) = Tail(Chan[m])
  <2>1. /\ Head(Ring(b, r, n)) = b[r] /\ Ring(b, r, n) # <<>>
        /\ Ring(b, NextSlot(r), n - 1) = Tail(Ring(b, r, n))
    <3>1. b \in [Slots -> S] /\ n \in 1 .. max_msgs
      BY ONLY <1>2, <1>3, <1>6
    <3> QED BY ONLY <1>2, <3>1, RingGet, Zenon
  <2> QED BY ONLY <1>2, <1>4, <1>5, <2>1
<1>8. /\ read_ptr' = [read_ptr EXCEPT ![m] = x] /\ used_msgs' = [used_msgs EXCEPT ![m] = k]
      /\ buffer' = buffer /\ write_ptr' = write_ptr /\ data' = [data EXCEPT ![t] = b[r]]
  BY <1>2, <1>4, <1>5 DEF RingInv, RingTypes
<1>9. /\ buffer'[m] = b /\ write_ptr'[m] = w /\ used_msgs'[m] = k /\ read_ptr'[m] = x
      /\ \A a \in MsgQs \ {m} : /\ buffer'[a] = buffer[a] /\ read_ptr'[a] = read_ptr[a]
                                /\ write_ptr'[a] = write_ptr[a] /\ used_msgs'[a] = used_msgs[a]
  BY <1>2, <1>8 DEF RingInv, RingTypes
<1>10. RingTypes'
  BY <1>2, <1>3, <1>4, <1>8 DEF RingInv, RingTypes
<1>11. RingInv'
  <2>1. \A a \in MsgQs : write_ptr'[a] = Slot(read_ptr'[a], used_msgs'[a])
    BY <1>5, <1>9 DEF RingInv
  <2> QED BY <1>10, <2>1 DEF RingInv, Slot
<1>12. PICK s : s = Tail(Chan[m])
  OBVIOUS
<1>13. Chan' = [Chan EXCEPT ![m] = s]
  <2>1. Ring(buffer'[m], read_ptr'[m], used_msgs'[m]) = s
    BY ONLY <1>7, <1>9, <1>12
  <2> QED BY ONLY m \in MsgQs, <1>9, <2>1, ChanOnly
<1> QED BY <1>7, <1>8, <1>11, <1>12, <1>13

\* ... and that of a thread that waited for space is written behind the others.
LEMMA RingRefills ==
  ASSUME RingInv, NEW m \in MsgQs, NEW t \in Threads, NEW u \in Threads, used_msgs[m] > 0,
         data' = [data EXCEPT ![t] = buffer[m][read_ptr[m]]],
         read_ptr' = [read_ptr EXCEPT ![m] = NextSlot(@)],
         WriteMsg(m, data[u]), UNCHANGED used_msgs
  PROVE  /\ RingInv' /\ Chan[m] # <<>> /\ Chan' = [Chan EXCEPT ![m] = Append(Tail(@), data[u])]
         /\ data' = [data EXCEPT ![t] = Head(Chan[m])]
<1>1. PICK b, r, w, n : OneRing(m, b, r, w, n)
  BY RingOf
<1>2. /\ b = buffer[m] /\ r = read_ptr[m] /\ w = write_ptr[m] /\ n = used_msgs[m]
      /\ b \in [Slots -> Msgs \cup {None}] /\ r \in Slots /\ w \in Slots /\ n \in 0 .. max_msgs
      /\ w = Slot(r, n) /\ Chan[m] = Ring(b, r, n) /\ Len(Chan[m]) = n
  BY <1>1 DEF OneRing
<1>3. max_msgs \in Nat /\ n \in 1 .. max_msgs /\ n - 1 \in 0 .. max_msgs - 1 /\ n - 1 \in 0 .. max_msgs
      /\ (n - 1) + 1 = n
  BY <1>2, MsgQAssumption
<1>4. PICK k : k = n - 1
  OBVIOUS
<1>5. PICK x \in Slots : x = NextSlot(r) /\ w = Slot(x, k)
  BY <1>2, <1>3, <1>4, SlotIs
<1>6. PICK S : S = Msgs \cup {None}
  OBVIOUS
<1>7. PICK msg \in S : msg = data[u]
  BY <1>6 DEF RingInv, RingTypes
<1>8. Head(Chan[m]) = b[r] /\ Chan[m] # <<>> /\ Ring(b, x, k) = Tail(Chan[m])
  <2>1. /\ Head(Ring(b, r, n)) = b[r] /\ Ring(b, r, n) # <<>>
        /\ Ring(b, NextSlot(r), n - 1) = Tail(Ring(b, r, n))
    <3>1. b \in [Slots -> S] /\ n \in 1 .. max_msgs
      BY ONLY <1>2, <1>3, <1>6
    <3> QED BY ONLY <1>2, <3>1, RingGet, Zenon
  <2> QED BY ONLY <1>2, <1>4, <1>5, <2>1
<1>9. PICK c : c = [b EXCEPT ![w] = msg]
  OBVIOUS
<1>10. Ring(c, x, n) = Append(Tail(Chan[m]), msg)
  <2>1. k \in 0 .. max_msgs - 1 /\ k + 1 = n
    BY ONLY <1>3, <1>4
  <2>2. WriteAppends(b, x, k, msg)
    <3>1. b \in [Slots -> S] /\ x \in Slots /\ k \in 0 .. max_msgs - 1 /\ msg \in S
      BY <1>2, <1>6, <2>1
    <3> QED BY ONLY <3>1, RingPut
  <2> QED BY ONLY <1>5, <1>8, <1>9, <2>1, <2>2 DEF WriteAppends
<1>11. PICK y \in Slots : y = NextSlot(w) /\ y = Slot(x, n)
  <2>1. k \in 0 .. max_msgs - 1 /\ k + 1 = n /\ n \in 0 .. max_msgs
    BY ONLY <1>2, <1>3, <1>4
  <2>2. NextSlot(Slot(x, k)) = Slot(x, k + 1) /\ Slot(x, n) \in Slots
    BY ONLY <2>1, x \in Slots, SlotIs
  <2> QED BY ONLY <1>5, <2>1, <2>2
<1>12. /\ read_ptr' = [read_ptr EXCEPT ![m] = x] /\ used_msgs' = used_msgs
       /\ buffer' = [buffer EXCEPT ![m] = c] /\ write_ptr' = [write_ptr EXCEPT ![m] = y]
       /\ data' = [data EXCEPT ![t] = b[r]]
  BY <1>2, <1>5, <1>7, <1>9, <1>11 DEF RingInv, RingTypes, WriteMsg
<1>13. /\ buffer'[m] = c /\ write_ptr'[m] = y /\ used_msgs'[m] = n /\ read_ptr'[m] = x
       /\ \A a \in MsgQs \ {m} : /\ buffer'[a] = buffer[a] /\ read_ptr'[a] = read_ptr[a]
                                 /\ write_ptr'[a] = write_ptr[a] /\ used_msgs'[a] = used_msgs[a]
  BY <1>2, <1>12 DEF RingInv, RingTypes
<1>14. RingTypes'
  <2>1. c \in [Slots -> Msgs \cup {None}]
    BY <1>2, <1>6, <1>9
  <2> QED BY <1>2, <1>12, <2>1 DEF RingInv, RingTypes
<1>15. RingInv'
  <2>1. \A a \in MsgQs : write_ptr'[a] = Slot(read_ptr'[a], used_msgs'[a])
    BY <1>11, <1>13 DEF RingInv
  <2> QED BY <1>14, <2>1 DEF RingInv, Slot
<1>16. PICK s : s = Append(Tail(Chan[m]), msg)
  OBVIOUS
<1>17. Chan' = [Chan EXCEPT ![m] = s]
  <2>1. Ring(buffer'[m], read_ptr'[m], used_msgs'[m]) = s
    BY ONLY <1>10, <1>13, <1>16
  <2> QED BY ONLY m \in MsgQs, <1>13, <2>1, ChanOnly
<1> QED BY <1>7, <1>8, <1>12, <1>15, <1>16, <1>17

\* All messages are dropped.
LEMMA RingPurges ==
  ASSUME RingInv, NEW m \in MsgQs, used_msgs' = [used_msgs EXCEPT ![m] = 0],
         read_ptr' = [read_ptr EXCEPT ![m] = write_ptr[m]], UNCHANGED <<buffer, write_ptr, data>>
  PROVE  RingInv' /\ Chan' = [Chan EXCEPT ![m] = <<>>]
<1>1. PICK b, r, w, n : OneRing(m, b, r, w, n)
  BY RingOf
<1>2. /\ b = buffer[m] /\ w = write_ptr[m] /\ b \in [Slots -> Msgs \cup {None}] /\ w \in Slots
  BY <1>1 DEF OneRing
<1>3. max_msgs \in Nat /\ 0 \in 0 .. max_msgs /\ Slot(w, 0) = w
  BY <1>2, MsgQAssumption, SlotIs
<1>4. /\ buffer'[m] = b /\ write_ptr'[m] = w /\ used_msgs'[m] = 0 /\ read_ptr'[m] = w
      /\ \A a \in MsgQs \ {m} : /\ buffer'[a] = buffer[a] /\ read_ptr'[a] = read_ptr[a]
                                /\ write_ptr'[a] = write_ptr[a] /\ used_msgs'[a] = used_msgs[a]
  BY <1>2 DEF RingInv, RingTypes
<1>5. RingTypes'
  BY <1>2, <1>3 DEF RingInv, RingTypes
<1>6. RingInv'
  <2>1. \A a \in MsgQs : write_ptr'[a] = Slot(read_ptr'[a], used_msgs'[a])
    BY <1>3, <1>4 DEF RingInv
  <2> QED BY <1>5, <2>1 DEF RingInv, Slot
<1>7. Ring(b, w, 0) = <<>>
  <2>1. PICK S : S = Msgs \cup {None}
    OBVIOUS
  <2>2. PICK s : s = Ring(b, w, 0)
    OBVIOUS
  <2>3. s \in Seq(S) /\ Len(s) = 0
    <3>1. b \in [Slots -> S]
      BY ONLY <1>2, <2>1
    <3>2. IsRing(Ring(b, w, 0), S, b, w, 0)
      BY ONLY <1>2, <1>3, <3>1, RingIs, Zenon
    <3> QED BY ONLY <2>2, <3>2 DEF IsRing
  <2> QED BY ONLY <2>2, <2>3
<1>8. PICK s : s = <<>>
  OBVIOUS
<1>9. Chan' = [Chan EXCEPT ![m] = s]
  <2>1. Ring(buffer'[m], read_ptr'[m], used_msgs'[m]) = s
    BY ONLY <1>4, <1>7, <1>8
  <2> QED BY ONLY m \in MsgQs, <1>4, <2>1, ChanOnly
<1> QED BY <1>6, <1>8, <1>9

\* Steps of FifoSpec, in terms of the mapping.
LEMMA FifoStutters ==
  ASSUME Chan' = Chan, data' = data, \A t \in Threads : Progress(t)' = Progress(t)
  PROVE  FifoStep
<1>1. Prog' = Prog
  BY DEF Prog
<1> QED BY <1>1 DEF FifoStep, Fifo!vars, Chan, Prog

LEMMA FifoPuts ==
  ASSUME NEW m \in MsgQs, NEW msg \in Msgs, Len(Chan[m]) < max_msgs,
         \A t \in Threads : Progress(t) # <<"get", m>>, data' = data,
         Chan' = [Chan EXCEPT ![m] = Append(@, msg)], Prog' = Prog
  PROVE  FifoStep
<1>1. Fifo!Waiting("get", m) = {}
  BY DEF Fifo!Waiting
<1>2. Fifo!Put(m, msg)
  BY <1>1 DEF Fifo!Put, Chan, Prog
<1> QED BY <1>2 DEF FifoStep, Fifo!Next

LEMMA FifoHandsOver ==
  ASSUME NEW m \in MsgQs, NEW msg \in Msgs, Chan[m] = <<>>, NEW u \in Threads,
         Progress(u) = <<"get", m>>, data' = [data EXCEPT ![u] = msg],
         Chan' = Chan, Prog' = [Prog EXCEPT ![u] = <<"done">>]
  PROVE  FifoStep
<1>1. u \in Fifo!Waiting("get", m)
  BY DEF Fifo!Waiting
<1>2. Fifo!Put(m, msg)
  BY <1>1 DEF Fifo!Put, Fifo!Serve, Chan, Prog
<1> QED BY <1>2 DEF FifoStep, Fifo!Next

LEMMA FifoGets ==
  ASSUME NEW m \in MsgQs, NEW t \in Threads, Chan[m] # <<>>, data' = [data EXCEPT ![t] = Head(Chan[m])],
         \A u \in Threads : Progress(u) # <<"put", m>>,
         Chan' = [Chan EXCEPT ![m] = Tail(@)], Prog' = Prog
  PROVE  FifoStep
<1>1. Fifo!Waiting("put", m) = {}
  BY DEF Fifo!Waiting
<1>2. Fifo!Get(m, t)
  BY <1>1 DEF Fifo!Get, Chan, Prog
<1> QED BY <1>2 DEF FifoStep, Fifo!Next

LEMMA FifoRefills ==
  ASSUME NEW m \in MsgQs, NEW t \in Threads, Chan[m] # <<>>, data' = [data EXCEPT ![t] = Head(Chan[m])],
         NEW u \in Threads, Progress(u) = <<"put", m>>,
         Chan' = [Chan EXCEPT ![m] = Append(Tail(@), data[u])],
         Prog' = [Prog EXCEPT ![u] = <<"done">>]
  PROVE  FifoStep
<1>1. u \in Fifo!Waiting("put", m)
  BY DEF Fifo!Waiting
<1>2. Fifo!Get(m, t)
  BY <1>1 DEF Fifo!Get, Fifo!Serve, Chan, Prog
<1> QED BY <1>2 DEF FifoStep, Fifo!Next

LEMMA FifoWaitsPut ==
  ASSUME NEW m \in MsgQs, NEW t \in Threads, NEW msg \in Msgs, Progress(t) = <<"none">>,
         Len(Chan[m]) = max_msgs, data' = [data EXCEPT ![t] = msg], Chan' = Chan,
         Prog' = [Prog EXCEPT ![t] = <<"put", m>>]
  PROVE  FifoStep
<1>1. Fifo!Wait(m, t)
  BY DEF Fifo!Wait, Chan, Prog
<1> QED BY <1>1 DEF FifoStep, Fifo!Next

LEMMA FifoWaitsGet ==
  ASSUME NEW m \in MsgQs, NEW t \in Threads, Progress(t) = <<"none">>,
         Chan[m] = <<>>, data' = data, Chan' = Chan,
         Prog' = [Prog EXCEPT ![t] = <<"get", m>>]
  PROVE  FifoStep
<1>1. Fifo!Wait(m, t)
  BY DEF Fifo!Wait, Chan, Prog
<1> QED BY <1>1 DEF FifoStep, Fifo!Next

LEMMA FifoFails ==
  ASSUME NEW m \in MsgQs, NEW t \in Threads, Progress(t) \in {<<"put", m>>, <<"get", m>>},
         data' = data, Chan' = Chan, Prog' = [Prog EXCEPT ![t] = <<"failed">>]
  PROVE  FifoStep
<1>1. t \in Fifo!Waiting("put", m) \cup Fifo!Waiting("get", m)
  BY DEF Fifo!Waiting
<1>2. Fifo!Fail(m, t)
  BY <1>1 DEF Fifo!Fail, Chan, Prog
<1> QED BY <1>2 DEF FifoStep, Fifo!Next

LEMMA FifoReturns ==
  ASSUME NEW t \in Threads, Progress(t) \in {<<"done">>, <<"failed">>},
         data' = data, Chan' = Chan, Prog' = [Prog EXCEPT ![t] = <<"none">>]
  PROVE  FifoStep
<1>1. Fifo!Return(t)
  BY DEF Fifo!Return, Chan, Prog
<1> QED BY <1>1 DEF FifoStep, Fifo!Next

LEMMA FifoPurges ==
  ASSUME NEW m \in MsgQs, data' = data, Chan' = [Chan EXCEPT ![m] = <<>>],
         \A t \in Threads : Progress(t)' = IF Progress(t) \in {<<"put", m>>, <<"get", m>>}
                                           THEN <<"failed">> ELSE Progress(t)
  PROVE  FifoStep
<1>1. \A t \in Threads : t \in Fifo!Waiting("put", m) \cup Fifo!Waiting("get", m)
                           <=> Progress(t) \in {<<"put", m>>, <<"get", m>>}
  BY DEF Fifo!Waiting
<1>2. Prog' = [t \in Threads |-> IF t \in Fifo!Waiting("put", m) \cup Fifo!Waiting("get", m)
                                 THEN <<"failed">> ELSE Prog[t]]
  BY <1>1 DEF Prog
<1>3. Fifo!Purge(m)
  BY <1>2 DEF Fifo!Purge, Chan, Prog
<1> QED BY <1>3 DEF FifoStep, Fifo!Next

\* The progress of one thread changes.
LEMMA ProgOnly ==
  ASSUME NEW t \in Threads, NEW x, Progress(t)' = x, \A u \in Threads \ {t} : Progress(u)' = Progress(u)
  PROVE  Prog' = [Prog EXCEPT ![t] = x]
BY DEF Prog

\* Nobody begins to wait.
LEMMA StillFullOrEmpty ==
  ASSUME FullOrEmpty, NEW m \in MsgQs, \A a \in MsgQs \ {m} : used_msgs'[a] = used_msgs[a],
         \A t \in Threads : Progress(t)' = Progress(t) \/ Progress(t)' \in Resting,
         \/ used_msgs'[m] = used_msgs[m]
         \/ \A t \in Threads : Progress(t)' \notin {<<"put", m>>, <<"get", m>>}
  PROVE  FullOrEmpty'
<1> SUFFICES ASSUME NEW t \in Threads, NEW a \in MsgQs
             PROVE  /\ Progress(t)' = <<"put", a>> => used_msgs'[a] = max_msgs
                    /\ Progress(t)' = <<"get", a>> => used_msgs'[a] = 0
  BY DEF FullOrEmpty
<1>1. /\ Progress(t) = <<"put", a>> => used_msgs[a] = max_msgs
      /\ Progress(t) = <<"get", a>> => used_msgs[a] = 0
  BY DEF FullOrEmpty
<1>2. PICK x : x = Progress(t)'
  OBVIOUS
<1>3. x \in {<<"put", a>>, <<"get", a>>} => x = Progress(t)
  BY <1>2, StagesDiffer
<1>4. x \in {<<"put", a>>, <<"get", a>>} => used_msgs'[a] = used_msgs[a]
  BY <1>2
<1> QED BY ONLY <1>1, <1>2, <1>3, <1>4

\* The actions of message queues: a message is put ...
LEMMA PutRefines ==
  ASSUME WaitInv, PollInv, FifoInv, firing = None, NEW m \in MsgQs, NEW msg \in Msgs,
         PutNow(m, msg), UNCHANGED notMsgqVars
  PROVE  FifoInv' /\ FifoStep
<1>0. /\ RingInv /\ FullOrEmpty /\ used_msgs[m] \in 0 .. max_msgs /\ used_msgs[m] < max_msgs
      /\ max_msgs \in Nat
  BY MsgQAssumption DEF FifoInv, RingInv, RingTypes, PutNow
<1>1. /\ UNCHANGED <<prio, call, pollerVars>> /\ m \in Waitables /\ m \in Pollables
      /\ handling \in [Pollables -> {None, "AVAILABLE", "CANCELLED"}]
  BY KindsApart DEF PutNow, pollerVars, notMsgqVars, PollInv, PollerTypes
<1>2. CASE wait_q[m] # <<>>
  <2>1. /\ WakeWith({Head(wait_q[m])}, m, "0") /\ UNCHANGED msgqVars /\ handling' = handling
        /\ data' = [data EXCEPT ![Head(wait_q[m])] = msg]
    BY <1>2 DEF PutNow
  <2>2. PICK h \in Threads : h = Head(wait_q[m]) /\ Woken({h}, m, "0") /\ pended_on[h] = m
    BY <1>1, <1>2, <2>1, HeadWakes
  <2>3. {h} \in SUBSET ToSet(wait_q[m]) /\ Progress(h) \in {<<"put", m>>, <<"get", m>>}
    BY <2>2, WaitsOn
  <2>4. \A u \in Threads : Progress(u)' = IF u = h THEN <<"done">> ELSE Progress(u)
    <3> TAKE u \in Threads
    <3>1. PICK ts : ts = {h}
      OBVIOUS
    <3>2. Progress(u)' = IF u \in ts THEN (IF "0" = "0" THEN <<"done">> ELSE <<"failed">>)
                                     ELSE Progress(u)
      BY <1>1, <2>2, <2>3, <3>1, WokenProgress
    <3> QED BY ONLY <3>1, <3>2
  <2>5. Progress(h) = <<"get", m>> /\ used_msgs[m] = 0
    BY <1>0, <2>3 DEF FullOrEmpty
  <2>6. Chan[m] = <<>> /\ Chan' = Chan
    <3>1. PICK b, r, w, n : OneRing(m, b, r, w, n)
      BY <1>0, RingOf
    <3>2. Chan[m] \in Seq(Msgs \cup {None}) /\ Len(Chan[m]) = 0
      BY <2>5, <3>1 DEF OneRing
    <3>3. PICK s : s = Chan[m]
      OBVIOUS
    <3>4. s = <<>>
      BY ONLY <3>2, <3>3
    <3> QED BY <2>1, <3>3, <3>4, SameChan
  <2>7. FifoStep
    <3>1. Prog' = [Prog EXCEPT ![h] = <<"done">>]
      BY <2>4, ProgOnly
    <3>2. data' = [data EXCEPT ![h] = msg]
      BY <2>1, <2>2
    <3> QED BY <2>5, <2>6, <3>1, <3>2, FifoHandsOver
  <2>8. RingInv'
    <3>1. data' \in [Threads -> Msgs \cup {None}]
      BY <1>0, <2>1, <2>2 DEF RingInv, RingTypes
    <3> QED BY <1>0, <2>1, <3>1 DEF RingInv, RingTypes, msgqVars
  <2>9. FullOrEmpty'
    <3>1. used_msgs' = used_msgs
      BY <2>1 DEF msgqVars
    <3>2. \A t \in Threads : Progress(t)' = Progress(t) \/ Progress(t)' \in Resting
      BY <2>4 DEF Resting
    <3> QED BY <1>0, <3>1, <3>2, StillFullOrEmpty
  <2> QED BY <2>7, <2>8, <2>9 DEF FifoInv
<1>3. CASE wait_q[m] = <<>>
  <2>1. /\ WriteMsg(m, msg) /\ used_msgs' = [used_msgs EXCEPT ![m] = @ + 1]
        /\ UNCHANGED <<read_ptr, waitVars, data>>
    BY <1>3 DEF PutNow
  <2>2. RingInv' /\ Len(Chan[m]) < max_msgs /\ Chan' = [Chan EXCEPT ![m] = Append(@, msg)]
    BY <1>0, <2>1, RingPuts
  <2>3. \A t \in Threads : Progress(t)' = Progress(t)
    BY <1>1, <2>1 DEF Progress, waitVars
  <2>4. \A t \in Threads : Progress(t) \notin {<<"put", m>>, <<"get", m>>}
    <3> TAKE t \in Threads
    <3>1. t \notin ToSet(wait_q[m])
      BY <1>3, EmptyList
    <3> QED BY <3>1, WaitsOn
  <2>5. FifoStep
    <3>1. Prog' = Prog
      BY <2>3 DEF Prog
    <3> QED BY <2>1, <2>2, <2>4, <3>1, FifoPuts
  <2>6. FullOrEmpty'
    <3>1. \A a \in MsgQs \ {m} : used_msgs'[a] = used_msgs[a]
      BY <1>0, <2>1 DEF RingInv, RingTypes
    <3> QED BY <1>0, <2>3, <2>4, <3>1, StillFullOrEmpty
  <2> QED BY <2>2, <2>5, <2>6 DEF FifoInv
<1> QED BY <1>2, <1>3

\* A thread begins to wait.
LEMMA PendProgress ==
  ASSUME WaitInv, PollInv, firing = None, NEW m \in MsgQs, NEW t \in Threads, NEW timeout,
         NEW op \in {"put", "get"}, Running(t), Pend(t, m, timeout, op),
         UNCHANGED <<prio, handling, pollerVars>>
  PROVE  /\ Progress(t) = <<"none">>
         /\ \A u \in Threads : Progress(u)' = IF u = t THEN <<op, m>> ELSE Progress(u)
<1>1. PICK c : c = [op |-> op, obj |-> m]
  OBVIOUS
<1>2. z_pend_curr(t, m, timeout, prio) /\ call' = [call EXCEPT ![t] = c]
  BY <1>1 DEF Pend
<1>3. c \in WaitCalls \cup EventCalls /\ c.obj = m /\ c.op = op /\ m \in Waitables
  BY <1>1, KindsApart DEF WaitCalls
<1>4. Pended(t, m, timeout) /\ call'[t] = c
  BY <1>2, <1>3, CallPends
<1>5. Progress(t) = <<"none">>
  <2>1. call[t].op = "idle"
    BY DEF Running, Idle
  <2> QED BY <2>1 DEF Progress
<1>6. ASSUME NEW u \in Threads PROVE Progress(u)' = IF u = t THEN <<op, m>> ELSE Progress(u)
  <2>1. /\ pended_on'[u] = (IF u = t THEN m ELSE pended_on[u])
        /\ swap_retval'[u] = (IF u = t THEN "-EAGAIN" ELSE swap_retval[u])
    BY <1>4 DEF Pended
  <2>2. CASE u = t
    BY <1>3, <1>4, <2>1, <2>2 DEF Progress
  <2>3. CASE u # t
    <3>1. call'[u] = call[u]
      BY <1>2, <2>3 DEF PollInv, PollerTypes
    <3> QED BY <2>1, <2>3, <3>1 DEF Progress
  <2> QED BY <2>2, <2>3
<1> QED BY <1>5, <1>6

LEMMA PutWaitRefines ==
  ASSUME WaitInv, PollInv, FifoInv, firing = None, NEW m \in MsgQs, NEW t \in Threads, NEW timeout,
         NEW msg \in Msgs, PutWait(t, m, msg, timeout), UNCHANGED notMsgqVars
  PROVE  FifoInv' /\ FifoStep
<1>1. /\ RingInv /\ FullOrEmpty /\ used_msgs[m] = max_msgs /\ max_msgs \in Nat
      /\ data' = [data EXCEPT ![t] = msg] /\ UNCHANGED <<msgqVars, prio, handling, pollerVars>>
      /\ Running(t) /\ Pend(t, m, timeout, "put")
  BY MsgQAssumption DEF FifoInv, PutWait, pollerVars, notMsgqVars
<1>2. /\ Progress(t) = <<"none">>
      /\ \A u \in Threads : Progress(u)' = IF u = t THEN <<"put", m>> ELSE Progress(u)
  BY <1>1, PendProgress
<1>3. Len(Chan[m]) = max_msgs /\ Chan' = Chan
  <2>1. PICK b, r, w, n : OneRing(m, b, r, w, n)
    BY <1>1, RingOf
  <2> QED BY <1>1, <2>1, SameChan DEF OneRing
<1>4. FifoStep
  <2>1. Prog' = [Prog EXCEPT ![t] = <<"put", m>>]
    BY <1>2, ProgOnly
  <2> QED BY <1>1, <1>2, <1>3, <2>1, FifoWaitsPut
<1>5. RingInv'
  <2>1. data' \in [Threads -> Msgs \cup {None}]
    BY <1>1 DEF RingInv, RingTypes
  <2> QED BY <1>1, <2>1 DEF RingInv, RingTypes, msgqVars
<1>6. FullOrEmpty'
  <2> SUFFICES ASSUME NEW u \in Threads, NEW a \in MsgQs
               PROVE  /\ Progress(u)' = <<"put", a>> => used_msgs'[a] = max_msgs
                      /\ Progress(u)' = <<"get", a>> => used_msgs'[a] = 0
    BY DEF FullOrEmpty
  <2>1. used_msgs' = used_msgs
    BY <1>1 DEF msgqVars
  <2>2. CASE u = t
    <3>1. Progress(u)' = <<"put", m>>
      BY <1>2, <2>2
    <3>2. Progress(u)' = <<"put", a>> => a = m
      BY <3>1, StagesDiffer
    <3>3. Progress(u)' # <<"get", a>>
      BY <3>1, StagesDiffer
    <3> QED BY <1>1, <2>1, <3>2, <3>3
  <2>3. CASE u # t
    BY <1>1, <1>2, <2>1, <2>3 DEF FullOrEmpty
  <2> QED BY <2>2, <2>3
<1> QED BY <1>4, <1>5, <1>6 DEF FifoInv

LEMMA GetWaitRefines ==
  ASSUME WaitInv, PollInv, FifoInv, firing = None, NEW m \in MsgQs, NEW t \in Threads, NEW timeout,
         used_msgs[m] = 0, Running(t), Pend(t, m, timeout, "get"),
         UNCHANGED <<msgqVars, data, prio, handling, pollerVars>>
  PROVE  FifoInv' /\ FifoStep
<1>1. RingInv /\ FullOrEmpty
  BY DEF FifoInv
<1>2. /\ Progress(t) = <<"none">>
      /\ \A u \in Threads : Progress(u)' = IF u = t THEN <<"get", m>> ELSE Progress(u)
  BY PendProgress
<1>3. Chan[m] = <<>> /\ Chan' = Chan
  <2>1. PICK b, r, w, n : OneRing(m, b, r, w, n)
    BY <1>1, RingOf
  <2>2. PICK s : s = Chan[m]
    OBVIOUS
  <2>3. s \in Seq(Msgs \cup {None}) /\ Len(s) = 0
    BY <2>1, <2>2 DEF OneRing
  <2>4. s = <<>>
    BY ONLY <2>3
  <2> QED BY <2>2, <2>4, SameChan
<1>4. FifoStep
  <2>1. Prog' = [Prog EXCEPT ![t] = <<"get", m>>]
    BY <1>2, ProgOnly
  <2> QED BY <1>2, <1>3, <2>1, FifoWaitsGet
<1>5. RingInv'
  BY <1>1 DEF RingInv, RingTypes, msgqVars
<1>6. FullOrEmpty'
  <2> SUFFICES ASSUME NEW u \in Threads, NEW a \in MsgQs
               PROVE  /\ Progress(u)' = <<"put", a>> => used_msgs'[a] = max_msgs
                      /\ Progress(u)' = <<"get", a>> => used_msgs'[a] = 0
    BY DEF FullOrEmpty
  <2>1. used_msgs' = used_msgs
    BY DEF msgqVars
  <2>2. CASE u = t
    <3>1. Progress(u)' = <<"get", m>>
      BY <1>2, <2>2
    <3>2. Progress(u)' = <<"get", a>> => a = m
      BY <3>1, StagesDiffer
    <3>3. Progress(u)' # <<"put", a>>
      BY <3>1, StagesDiffer
    <3> QED BY <2>1, <3>2, <3>3
  <2>3. CASE u # t
    BY <1>1, <1>2, <2>1, <2>3 DEF FullOrEmpty
  <2> QED BY <2>2, <2>3
<1> QED BY <1>4, <1>5, <1>6 DEF FifoInv

LEMMA GetRefines ==
  ASSUME WaitInv, PollInv, FifoInv, firing = None, NEW m \in MsgQs, NEW t \in Threads, NEW timeout,
         k_msgq_get(t, m, timeout), UNCHANGED notMsgqVars
  PROVE  FifoInv' /\ FifoStep
<1>0. /\ RingInv /\ FullOrEmpty /\ used_msgs[m] \in Nat /\ used_msgs \in [MsgQs -> 0 .. max_msgs]
      /\ max_msgs \in Nat
  BY MsgQAssumption DEF FifoInv, RingInv, RingTypes
<1>1. /\ UNCHANGED <<prio, handling, pollerVars>> /\ m \in Waitables /\ Running(t)
      /\ handling' \in [Pollables -> {None, "AVAILABLE", "CANCELLED"}]
  BY KindsApart DEF k_msgq_get, pollerVars, notMsgqVars, PollInv, PollerTypes
<1>2. CASE used_msgs[m] = 0
  <2>1. Pend(t, m, timeout, "get") /\ UNCHANGED <<msgqVars, data>>
    BY <1>2 DEF k_msgq_get
  <2> QED BY <1>1, <1>2, <2>1, GetWaitRefines
<1>3. CASE used_msgs[m] > 0
  <2>1. /\ data' = [data EXCEPT ![t] = buffer[m][read_ptr[m]]]
        /\ read_ptr' = [read_ptr EXCEPT ![m] = NextSlot(@)]
        /\ Refill(m) /\ call' = call
    BY <1>0, <1>3 DEF k_msgq_get
  <2>2. CASE wait_q[m] # <<>>
    <3>1. /\ WriteMsg(m, data[Head(wait_q[m])]) /\ used_msgs' = used_msgs
          /\ WakeWith({Head(wait_q[m])}, m, "0")
      BY <2>1, <2>2 DEF Refill
    <3>2. PICK h \in Threads : h = Head(wait_q[m]) /\ Woken({h}, m, "0") /\ pended_on[h] = m
      BY <1>1, <2>1, <2>2, <3>1, HeadWakes
    <3>3. {h} \in SUBSET ToSet(wait_q[m]) /\ Progress(h) \in {<<"put", m>>, <<"get", m>>}
      BY <3>2, WaitsOn
    <3>4. \A u \in Threads : Progress(u)' = IF u = h THEN <<"done">> ELSE Progress(u)
      <4> TAKE u \in Threads
      <4>1. PICK ts : ts = {h}
        OBVIOUS
      <4>2. Progress(u)' = IF u \in ts THEN (IF "0" = "0" THEN <<"done">> ELSE <<"failed">>)
                                       ELSE Progress(u)
        BY <2>1, <3>2, <3>3, <4>1, WokenProgress
      <4> QED BY ONLY <4>1, <4>2
    <3>5. Progress(h) = <<"put", m>>
      BY <1>0, <1>3, <3>3 DEF FullOrEmpty
    <3>6. /\ RingInv' /\ Chan[m] # <<>> /\ Chan' = [Chan EXCEPT ![m] = Append(Tail(@), data[h])]
          /\ data' = [data EXCEPT ![t] = Head(Chan[m])]
      BY <1>0, <1>3, <2>1, <3>1, <3>2, RingRefills
    <3>7. FifoStep
      <4>1. Prog' = [Prog EXCEPT ![h] = <<"done">>]
        BY <3>4, ProgOnly
      <4> QED BY <3>5, <3>6, <4>1, FifoRefills
    <3>8. FullOrEmpty'
      <4>1. \A u \in Threads : Progress(u)' = Progress(u) \/ Progress(u)' \in Resting
        BY <3>4 DEF Resting
      <4> QED BY <1>0, <3>1, <4>1, StillFullOrEmpty
    <3> QED BY <3>6, <3>7, <3>8 DEF FifoInv
  <2>3. CASE wait_q[m] = <<>>
    <3>1. used_msgs' = [used_msgs EXCEPT ![m] = @ - 1] /\ UNCHANGED <<buffer, write_ptr, waitVars>>
      BY <2>1, <2>3 DEF Refill
    <3>2. /\ RingInv' /\ Chan[m] # <<>> /\ Chan' = [Chan EXCEPT ![m] = Tail(@)]
          /\ data' = [data EXCEPT ![t] = Head(Chan[m])]
      BY <1>0, <1>3, <2>1, <3>1, RingGets
    <3>3. \A u \in Threads : Progress(u)' = Progress(u)
      BY <2>1, <3>1 DEF Progress, waitVars
    <3>4. \A u \in Threads : Progress(u) \notin {<<"put", m>>, <<"get", m>>}
      <4> TAKE u \in Threads
      <4>1. u \notin ToSet(wait_q[m])
        BY <2>3, EmptyList
      <4> QED BY <4>1, WaitsOn
    <3>5. FifoStep
      <4>1. Prog' = Prog
        BY <3>3 DEF Prog
      <4> QED BY <3>2, <3>4, <4>1, FifoGets
    <3>6. FullOrEmpty'
      <4>1. \A a \in MsgQs \ {m} : used_msgs'[a] = used_msgs[a]
        BY <1>0, <3>1
      <4> QED BY <1>0, <3>3, <3>4, <4>1, StillFullOrEmpty
    <3> QED BY <3>2, <3>5, <3>6 DEF FifoInv
  <2> QED BY <2>2, <2>3
<1> QED BY <1>0, <1>2, <1>3

LEMMA PurgeRefines ==
  ASSUME WaitInv, PollInv, FifoInv, firing = None, NEW m \in MsgQs, k_msgq_purge(m)
  PROVE  FifoInv' /\ FifoStep
<1>0. RingInv /\ FullOrEmpty /\ used_msgs \in [MsgQs -> 0 .. max_msgs]
  BY DEF FifoInv, RingInv, RingTypes
<1>1. /\ UNCHANGED <<prio, call>> /\ WakeWith(ToSet(wait_q[m]), m, "-ENOMSG")
      /\ used_msgs' = [used_msgs EXCEPT ![m] = 0]
      /\ read_ptr' = [read_ptr EXCEPT ![m] = write_ptr[m]] /\ UNCHANGED <<buffer, write_ptr, data>>
  BY DEF k_msgq_purge, PurgedWaiters
<1>2. PICK ts : ts = ToSet(wait_q[m])
  OBVIOUS
<1>3. Woken(ts, m, "-ENOMSG")
  <2>1. "-ENOMSG" \in Rets /\ ts \in SUBSET ToSet(wait_q[m]) /\ WaitLists /\ m \in Objects
    BY <1>2, KindsApart DEF Rets, WaitInv, Waitables
  <2> QED BY <1>1, <1>2, <2>1, WakeWithWaits
<1>4. \A u \in Threads : Progress(u)' = IF u \in ts THEN <<"failed">> ELSE Progress(u)
  <2> TAKE u \in Threads
  <2>1. ts \in SUBSET ToSet(wait_q[m])
    BY <1>2
  <2>2. Progress(u)' = IF u \in ts THEN (IF "-ENOMSG" = "0" THEN <<"done">> ELSE <<"failed">>)
                                   ELSE Progress(u)
    BY <1>1, <1>3, <2>1, WokenProgress
  <2> QED BY ONLY <2>2
<1>5. \A u \in Threads : u \in ts <=> Progress(u) \in {<<"put", m>>, <<"get", m>>}
  <2> TAKE u \in Threads
  <2>1. /\ u \in ToSet(wait_q[m]) <=> pended_on[u] = m
        /\ pended_on[u] = m => call[u].op \in {"put", "get"} /\ Progress(u) = <<call[u].op, m>>
        /\ Progress(u) \in {<<"put", m>>, <<"get", m>>} => pended_on[u] = m
    BY WaitsOn
  <2> QED BY ONLY <1>2, <2>1
<1>6. RingInv' /\ Chan' = [Chan EXCEPT ![m] = <<>>]
  BY <1>0, <1>1, RingPurges
<1>7. FifoStep
  <2>1. \A t \in Threads : Progress(t)' = IF Progress(t) \in {<<"put", m>>, <<"get", m>>}
                                          THEN <<"failed">> ELSE Progress(t)
    BY <1>4, <1>5
  <2> QED BY <1>1, <1>6, <2>1, FifoPurges
<1>8. FullOrEmpty'
  <2>1. \A a \in MsgQs \ {m} : used_msgs'[a] = used_msgs[a]
    BY <1>0, <1>1
  <2>2. \A t \in Threads : Progress(t)' = Progress(t) \/ Progress(t)' \in Resting
    BY <1>4 DEF Resting
  <2>3. \A t \in Threads : Progress(t)' \notin {<<"put", m>>, <<"get", m>>}
    <3> TAKE t \in Threads
    <3>1. <<"failed">> \notin {<<"put", m>>, <<"get", m>>}
      BY StagesDiffer DEF Resting
    <3> QED BY <1>4, <1>5, <3>1
  <2> QED BY <1>0, <2>1, <2>2, <2>3, StillFullOrEmpty
<1> QED BY <1>6, <1>7, <1>8 DEF FifoInv

\* The queues stay as they are, and one thread goes on.
LEMMA RestsFifo ==
  ASSUME FifoInv, UNCHANGED <<msgqVars, data>>,
         \A t \in Threads : Progress(t)' = Progress(t) \/ Progress(t)' \in Resting
  PROVE  FifoInv' /\ Chan' = Chan
<1>1. RingInv /\ FullOrEmpty /\ used_msgs' = used_msgs
  BY DEF FifoInv, msgqVars
<1>2. RingInv'
  BY <1>1 DEF RingInv, RingTypes, msgqVars
<1>3. FullOrEmpty'
  <2>1. CASE MsgQs = {}
    BY <2>1 DEF FullOrEmpty
  <2>2. ASSUME NEW m \in MsgQs PROVE FullOrEmpty'
    BY <1>1, <2>2, StillFullOrEmpty
  <2> QED BY <2>1, <2>2
<1> QED BY <1>2, <1>3, SameChan DEF FifoInv

LEMMA ReturnRefines ==
  ASSUME WaitInv, PollInv, FifoInv, NEW t \in Threads, MsgQReturns(t)
  PROVE  FifoInv' /\ FifoStep
<1>1. /\ call[t].op \in {"put", "get"} /\ pended_on[t] = None /\ call' = [call EXCEPT ![t] = Idle]
      /\ UNCHANGED <<msgqVars, data, waitVars>> /\ call \in [Threads -> Calls]
  BY DEF MsgQReturns, Returning, PollInv, PollerTypes
<1>2. Progress(t) \in {<<"done">>, <<"failed">>}
  <2>1. call[t].obj \in MsgQs
    BY <1>1, WaitsFor
  <2>2. pended_on[t] # call[t].obj
    BY <1>1, <2>1, KindsApart, KindsDiffer DEF Waitables
  <2> QED BY <1>1, <2>2 DEF Progress
<1>3. Progress(t)' = <<"none">> /\ \A u \in Threads \ {t} : Progress(u)' = Progress(u)
  BY <1>1 DEF Progress, Idle, waitVars
<1>4. FifoInv' /\ Chan' = Chan
  BY <1>1, <1>3, RestsFifo DEF Resting
<1>5. Prog' = [Prog EXCEPT ![t] = <<"none">>]
  BY <1>3, ProgOnly
<1> QED BY <1>1, <1>2, <1>4, <1>5, FifoReturns

\* A step that does not concern message queues.
Elsewhere ==
  /\ PollInv' /\ UNCHANGED <<msgqVars, data>>
  /\ \E o : o \notin MsgQs /\ Locally(o)

LEMMA ElsewhereRefines ==
  ASSUME PollInv, FifoInv, Elsewhere
  PROVE  FifoInv' /\ FifoStep
<1>1. PICK o : o \notin MsgQs /\ Locally(o)
  BY DEF Elsewhere
<1>2. ASSUME NEW t \in Threads PROVE Progress(t)' = Progress(t)
  <2>1. CASE call'[t] = call[t] /\ pended_on'[t] = pended_on[t] /\ swap_retval'[t] = swap_retval[t]
    BY <2>1 DEF Progress
  <2>2. CASE Uses(call[t], o) /\ Uses(call'[t], o)
    <3>1. call[t] \in Calls /\ call'[t] \in Calls
      BY DEF PollInv, PollerTypes, Elsewhere
    <3>2. ASSUME NEW c \in Calls, Uses(c, o) PROVE c.op \notin {"put", "get"}
      BY <1>1, <3>2, WaitsFor DEF Uses
    <3>3. call[t].op \notin {"put", "get"} /\ call'[t].op \notin {"put", "get"}
      BY <2>2, <3>1, <3>2
    <3> QED BY <3>3 DEF Progress
  <2> QED BY <1>1, <2>1, <2>2 DEF Locally
<1>3. FifoInv' /\ Chan' = Chan
  BY <1>2, RestsFifo DEF Elsewhere
<1> QED BY <1>2, <1>3, FifoStutters DEF Elsewhere

LEMMA TimeoutRefines ==
  ASSUME WaitInv, PollInv, FifoInv, z_thread_timeout, UNCHANGED <<call, msgqVars, data>>
  PROVE  FifoInv' /\ FifoStep
<1>0. PICK f : f = firing
  OBVIOUS
<1>1. /\ f \in Threads /\ pended_on[f] # None
      /\ \A u \in Threads : /\ pended_on'[u] = (IF u = f THEN None ELSE pended_on[u])
                             /\ swap_retval'[u] = swap_retval[u]
  BY <1>0, TimeoutWaits
<1>2. UNCHANGED <<msgqVars, data>>
  OBVIOUS
<1>3. \A u \in Threads \ {f} : Progress(u)' = Progress(u)
  BY <1>1 DEF Progress
<1>4. CASE pended_on[f] \in MsgQs
  <2>1. PICK m \in MsgQs : pended_on[f] = m
    BY <1>4
  <2>2. /\ call[f].op \in {"put", "get"} /\ call[f].obj = m
        /\ Progress(f) = <<call[f].op, m>> /\ swap_retval[f] = "-EAGAIN" /\ m # None
    BY <1>1, <2>1, WaitsOn
  <2>3. Progress(f)' = <<"failed">>
    BY <1>1, <2>2 DEF Progress
  <2>4. FifoInv' /\ Chan' = Chan
    BY <1>2, <1>3, <2>3, RestsFifo DEF Resting
  <2>5. Prog' = [Prog EXCEPT ![f] = <<"failed">>]
    BY <1>1, <1>3, <2>3, ProgOnly
  <2>6. Progress(f) \in {<<"put", m>>, <<"get", m>>}
    BY <2>2
  <2> QED BY <1>1, <1>2, <2>4, <2>5, <2>6, FifoFails
<1>5. CASE pended_on[f] \notin MsgQs
  <2>1. Progress(f)' = Progress(f)
    <3>1. Pending(call[f], pended_on[f], swap_retval[f], f \in armed \/ f = firing)
      BY <1>1 DEF WaitInv, Pends
    <3>2. call[f] \in Calls
      BY <1>1 DEF PollInv, PollerTypes
    <3>3. call[f].op \notin {"put", "get"}
      BY <1>1, <1>5, <3>1, <3>2, WaitsFor DEF Pending
    <3> QED BY <1>1, <3>3 DEF Progress
  <2>2. \A u \in Threads : Progress(u)' = Progress(u)
    BY <1>3, <2>1
  <2>3. FifoInv' /\ Chan' = Chan
    BY <1>2, <2>2, RestsFifo
  <2> QED BY <1>2, <2>2, <2>3, FifoStutters
<1> QED BY <1>4, <1>5

LEMMA StepElsewhere ==
  ASSUME NEW o, ObjectsStep(o), o \notin MsgQs, UNCHANGED <<msgqVars, data>>
  PROVE  Elsewhere
BY DEF Elsewhere, ObjectsStep

LEMMA PollersElsewhere ==
  ASSUME PollersStep, UNCHANGED objectVars
  PROVE  Elsewhere
<1>1. Locally(poll_wait_q) /\ poll_wait_q \notin MsgQs
  BY KindsApart DEF PollersStep, Locally, Uses
<1>2. UNCHANGED <<msgqVars, data>> /\ PollInv'
  BY DEF objectVars, PollersStep
<1> QED BY <1>1, <1>2 DEF Elsewhere

LEMMA TellingElsewhere ==
  ASSUME NEW o, NEW x, Telling(o, x), UNCHANGED <<call, msgqVars, data>>
  PROVE  Elsewhere
<1>1. Locally(poll_wait_q) /\ poll_wait_q \notin MsgQs
  BY KindsApart DEF Telling, OnlyPollers, Locally, Uses
<1> QED BY <1>1 DEF Elsewhere, Telling

LEMMA AnyCallRefines ==
  ASSUME Inv, FifoInv, firing = None, tw_firing = {}, AnyCall, UNCHANGED used
  PROVE  FifoInv' /\ FifoStep
<1>0. WaitInv /\ PollInv /\ ObjInv /\ DOMAIN signaled = Signals
  BY DEF Inv
<1>1. ASSUME NEW s \in Sems, k_sem_give(s) \/ k_sem_reset(s),
             UNCHANGED <<msgqVars, queueVars, plainVars, signaled, twork, handler>>
      PROVE  Elsewhere
  <2>1. UNCHANGED notSemVars /\ data' = data /\ s \notin MsgQs
    BY <1>1, KindsApart DEF notSemVars, k_sem_give, k_sem_reset
  <2>2. ObjectsStep(s)
    BY <1>0, <1>1, <2>1, SemGives, SemResets DEF ObjInv
  <2> QED BY <1>1, <2>1, <2>2, StepElsewhere
<1>2. ASSUME NEW m \in MsgQs, (\E msg \in Msgs : PutNow(m, msg)) \/ k_msgq_purge(m),
             UNCHANGED <<semVars, queueVars, plainVars, signaled, twork, handler>>
      PROVE  FifoInv' /\ FifoStep
  <2>1. UNCHANGED notMsgqVars
    BY <1>2 DEF notMsgqVars
  <2> QED BY <1>0, <1>2, <2>1, PutRefines, PurgeRefines
<1>3. ASSUME NEW q \in Queues,
             \/ \E i \in Items, prev \in ToSet(data_q[q]) \cup {None} : queue_insert(q, i, prev)
             \/ \E i \in Items : k_queue_remove(q, i)
             \/ \E items \in ItemLists :
                  /\ ShortLists \/ Len(wait_q[q]) <= Len(items)
                  /\ k_queue_append_list(q, items)
             \/ k_queue_cancel_wait(q),
             UNCHANGED <<semVars, msgqVars, plainVars, signaled, twork, handler>>
      PROVE  Elsewhere
  <2>1. UNCHANGED notQueueVars /\ data' = data /\ q \notin MsgQs
    BY <1>3, KindsApart DEF notQueueVars, queue_insert, k_queue_remove, k_queue_append_list,
                            k_queue_cancel_wait
  <2>2. CASE \E i \in Items, prev \in ToSet(data_q[q]) \cup {None} : queue_insert(q, i, prev)
    BY <1>0, <1>3, <2>1, <2>2, QueueInserts, StepElsewhere DEF ObjInv
  <2>3. CASE \E i \in Items : k_queue_remove(q, i)
    BY <1>0, <1>3, <2>1, <2>3, QueueRemoves, StepElsewhere DEF ObjInv
  <2>4. CASE \E items \in ItemLists : k_queue_append_list(q, items)
    <3>1. PICK items \in ItemLists : k_queue_append_list(q, items)
      BY <2>4
    <3>2. items \in Seq(Items) /\ Distinct(items)
      BY <3>1, ListsAre
    <3>3. ObjectsStep(q)
      BY <1>0, <2>1, <3>1, <3>2, QueueAppends DEF ObjInv
    <3> QED BY <1>3, <2>1, <3>3, StepElsewhere
  <2>5. CASE k_queue_cancel_wait(q)
    BY <1>0, <1>3, <2>1, <2>5, QueueCancels, StepElsewhere DEF ObjInv
  <2> QED BY <1>3, <2>2, <2>3, <2>4, <2>5
<1>4. ASSUME NEW k \in Stacks, NEW i \in Words, k_stack_push(k, i),
             UNCHANGED <<semVars, msgqVars, data_q, lost, slabVars, eventObjVars, signaled, twork, handler>>
      PROVE  Elsewhere
  <2>1. UNCHANGED notStackVars /\ data' = data /\ k \notin MsgQs
    BY <1>4, KindsApart DEF notStackVars, k_stack_push
  <2> QED BY <1>0, <1>4, <2>1, StackPushes, StepElsewhere DEF ObjInv
<1>5. ASSUME NEW l \in Slabs, NEW b \in ToSet(Blocks[l]), k_mem_slab_free(l, b),
             UNCHANGED <<semVars, msgqVars, data_q, lost, pushed, eventObjVars, signaled, twork, handler>>
      PROVE  Elsewhere
  <2>1. UNCHANGED notSlabVars /\ data' = data /\ l \notin MsgQs
    BY <1>5, KindsApart DEF notSlabVars, k_mem_slab_free
  <2> QED BY <1>0, <1>5, <2>1, SlabFrees, StepElsewhere DEF ObjInv
<1>6. ASSUME NEW e \in EventObjs, NEW mask \in SUBSET Bits, NEW posted \in SUBSET mask,
             k_event_post_internal(e, posted, mask),
             UNCHANGED <<semVars, msgqVars, queueVars, pushed, slabVars, signaled, twork, handler>>
      PROVE  Elsewhere
  <2>1. UNCHANGED notEventVars /\ data' = data /\ e \notin MsgQs
    BY <1>6, KindsApart DEF notEventVars, k_event_post_internal
  <2> QED BY <1>0, <1>6, <2>1, EventPosts, StepElsewhere DEF ObjInv
<1>7. ASSUME NEW g \in Signals, k_poll_signal_raise(g) PROVE Elsewhere
  <2>1. /\ z_handle_obj_poll_events(g, "AVAILABLE") /\ UNCHANGED <<msgqVars, data, handling>>
        /\ UNCHANGED <<prio, call, tworkVars, twork, handler, used>> /\ g \in Pollables
        /\ handling' \in [Pollables -> {None, "AVAILABLE", "CANCELLED"}]
    BY <1>0, <1>7, KindsApart DEF k_poll_signal_raise, restVars, PollInv, PollerTypes
  <2>2. Telling(g, "AVAILABLE")
    BY <1>0, <2>1, TellKeeps
  <2> QED BY <2>1, <2>2, TellingElsewhere
<1>8. ASSUME NEW g \in Signals, k_poll_signal_reset(g) PROVE Elsewhere
  <2>1. /\ UNCHANGED <<msgqVars, data, waitVars, prio, call, pollerVars>>
        /\ handling' \in [Pollables -> {None, "AVAILABLE", "CANCELLED"}]
    BY <1>0, <1>8 DEF k_poll_signal_reset, restVars, PollInv, PollerTypes, pollerVars
  <2>2. PollInv' /\ Locally(poll_wait_q)
    BY <1>0, <2>1, CallAlone
  <2> QED BY <2>1, <2>2, KindsApart DEF Elsewhere
<1>9. ASSUME NEW o \in Pollables, handle_poll_events(o),
             UNCHANGED <<semVars, msgqVars, queueVars, plainVars, signaled, twork, handler>>
      PROVE  Elsewhere
  <2>1. PICK x : x = handling[o]
    OBVIOUS
  <2>2. /\ x \in {"AVAILABLE", "CANCELLED"} /\ z_handle_obj_poll_events(o, x)
        /\ UNCHANGED <<prio, call, tworkVars, data>>
        /\ handling' \in [Pollables -> {None, "AVAILABLE", "CANCELLED"}]
    BY <1>0, <1>9, <2>1 DEF handle_poll_events, PollInv, PollerTypes
  <2>3. Telling(o, x)
    BY <1>0, <1>9, <2>2, TellKeeps
  <2> QED BY <1>9, <2>2, <2>3, TellingElsewhere
<1>10. Elsewhere => FifoInv' /\ FifoStep
  BY <1>0, ElsewhereRefines
<1> QED BY <1>1, <1>2, <1>3, <1>4, <1>5, <1>6, <1>7, <1>8, <1>9, <1>10 DEF AnyCall

LEMMA ThreadStepRefines ==
  ASSUME Inv, FifoInv, firing = None, NEW t \in Threads, ThreadStep(t), UNCHANGED used
  PROVE  FifoInv' /\ FifoStep
<1>0. WaitInv /\ PollInv /\ ObjInv
  BY DEF Inv
<1>1. ASSUME \/ \E s \in Sems \cap used, timeout \in Timeout : k_sem_take(t, s, timeout)
             \/ TakeReturns(t),
             UNCHANGED <<msgqVars, queueVars, plainVars, signaled, twork, handler>>
      PROVE  Elsewhere
  <2>1. UNCHANGED notSemVars /\ data' = data
    BY <1>1 DEF notSemVars, k_sem_take, TakeReturns
  <2>2. \E s \in Sems : ObjectsStep(s)
    BY <1>0, <1>1, <2>1, SemTakes, SemReturns DEF ObjInv
  <2> QED BY <1>1, <2>1, <2>2, StepElsewhere, KindsApart
<1>2. ASSUME \/ \E m \in MsgQs \cap used, timeout \in Timeout :
                  \/ \E msg \in Msgs : PutWait(t, m, msg, timeout)
                  \/ k_msgq_get(t, m, timeout)
             \/ MsgQReturns(t),
             UNCHANGED <<semVars, queueVars, plainVars, signaled, twork, handler>>
      PROVE  FifoInv' /\ FifoStep
  <2>1. UNCHANGED notMsgqVars
    BY <1>2 DEF notMsgqVars
  <2> QED BY <1>0, <1>2, <2>1, PutWaitRefines, GetRefines, ReturnRefines
<1>3. ASSUME NEW q \in Queues, NEW timeout, k_queue_get(t, q, timeout),
             UNCHANGED <<semVars, msgqVars, plainVars, signaled, twork, handler>>
      PROVE  Elsewhere
  <2>1. UNCHANGED notQueueVars /\ data' = data /\ q \notin MsgQs
    BY <1>3, KindsApart DEF notQueueVars, k_queue_get
  <2> QED BY <1>0, <1>3, <2>1, QueueGets, StepElsewhere DEF ObjInv
<1>4. ASSUME NEW k \in Stacks, NEW timeout, k_stack_pop(t, k, timeout),
             UNCHANGED <<semVars, msgqVars, data_q, lost, slabVars, eventObjVars, signaled, twork, handler>>
      PROVE  Elsewhere
  <2>1. UNCHANGED notStackVars /\ data' = data /\ k \notin MsgQs
    BY <1>4, KindsApart DEF notStackVars, k_stack_pop
  <2> QED BY <1>0, <1>4, <2>1, StackPops, StepElsewhere DEF ObjInv
<1>5. ASSUME NEW l \in Slabs, NEW timeout, k_mem_slab_alloc(t, l, timeout),
             UNCHANGED <<semVars, msgqVars, data_q, lost, pushed, eventObjVars, signaled, twork, handler>>
      PROVE  Elsewhere
  <2>1. UNCHANGED notSlabVars /\ data' = data /\ l \notin MsgQs
    BY <1>5, KindsApart DEF notSlabVars, k_mem_slab_alloc
  <2> QED BY <1>0, <1>5, <2>1, SlabAllocs, StepElsewhere DEF ObjInv
<1>6. ASSUME \/ \E e \in EventObjs \cap used, desired \in SUBSET Bits, all, reset \in BOOLEAN,
                  timeout \in Timeout : k_event_wait_internal(t, e, desired, all, reset, timeout)
             \/ EventReturns(t),
             UNCHANGED <<semVars, msgqVars, queueVars, pushed, slabVars, signaled, twork, handler>>
      PROVE  Elsewhere
  <2>1. UNCHANGED notEventVars /\ data' = data
    BY <1>6 DEF notEventVars, k_event_wait_internal, EventReturns
  <2>2. \E e \in EventObjs : ObjectsStep(e)
    BY <1>0, <1>6, <2>1, EventWaits, EventGoes DEF ObjInv
  <2> QED BY <1>6, <2>1, <2>2, StepElsewhere, KindsApart
<1>7. ASSUME GivenReturns(t),
             UNCHANGED <<semVars, msgqVars, data_q, lost, plainVars, signaled, twork, handler>>
      PROVE  Elsewhere
  <2>1. PICK o : o = call[t].obj
    OBVIOUS
  <2>2. ObjectsStep(o) /\ o \in Queues \cup Stacks \cup Slabs /\ data' = data
    BY <1>0, <1>7, <2>1, GivenGoes DEF ObjInv, GivenReturns
  <2> QED BY <1>7, <2>2, StepElsewhere, KindsApart
<1>8. ASSUME \/ \E events \in Arrays, timeout \in Timeout \cup {"no_wait"} : k_poll(t, events, timeout)
             \/ PollRegister(t) \/ PollDecide(t) \/ PollClear(t) \/ PollDone(t)
      PROVE  Elsewhere
  <2>1. PollersStep
    BY <1>0, <1>8, PollStarts, PollRegisters, PollDecides, PollClears, PollEnds
  <2>2. UNCHANGED objectVars
    BY <1>8 DEF k_poll, PollRegister, PollDecide, PollClear, PollDone
  <2> QED BY <2>1, <2>2, PollersElsewhere
<1>9. Elsewhere => FifoInv' /\ FifoStep
  BY <1>0, ElsewhereRefines
<1> QED BY <1>1, <1>2, <1>3, <1>4, <1>5, <1>6, <1>7, <1>8, <1>9 DEF ThreadStep

LEMMA WorkStepRefines ==
  ASSUME Inv, FifoInv, tw_firing = {}, NEW w \in TWorks, WorkStep(w), UNCHANGED used
  PROVE  FifoInv' /\ FifoStep
<1>0. WaitInv /\ PollInv
  BY DEF Inv
<1>1. PollersStep
  BY <1>0, SubmitStarts, CancelStarts, CancelSteps, SubmitRegisters, SubmitDecides, SubmitClears,
     HandlerStarts, HandlerSteps, ExpireWorks DEF WorkStep
<1>2. UNCHANGED objectVars
  BY DEF WorkStep, k_work_poll_submit, k_work_poll_cancel, CancelStep, SubmitRegister, SubmitDecide,
         SubmitClear, HandlerStart, HandlerStep, ExpireWork
<1> QED BY <1>0, <1>1, <1>2, PollersElsewhere, ElsewhereRefines

\* Every step is a step of FifoSpec or changes nothing there.
LEMMA FifoNext ==
  ASSUME ~LateCallback, Inv, FifoInv, Next
  PROVE  FifoInv' /\ FifoStep
<1>0. WaitInv /\ PollInv /\ UNCHANGED used
  BY DEF Inv, Next
<1>1. CASE TimeoutStep
  <2>1. CASE /\ z_thread_timeout
             /\ lost' = lost \ {firing}
             /\ UNCHANGED <<eventVars, triggerVars, tworkVars, semVars, msgqVars, data_q, swap_data,
                            plainVars, signaled, handling, data, twork, handler, call>>
    BY <1>0, <2>1, TimeoutRefines
  <2>2. CASE \E w \in TWorks : triggered_work_expiration_handler(w)
    <3>1. PollersStep /\ UNCHANGED objectVars
      BY <1>0, <2>2, WorkTimeouts DEF triggered_work_expiration_handler
    <3> QED BY <1>0, <3>1, PollersElsewhere, ElsewhereRefines
  <2> QED BY <1>1, <2>1, <2>2 DEF TimeoutStep
<1>2. CASE /\ (firing = None /\ tw_firing = {}) \/ LateCallback
           /\ \/ AnyCall
              \/ \E t \in Threads \cap used : ThreadStep(t) \/ ExpireWait(t)
              \/ \E w \in TWorks \cap used : WorkStep(w)
  <2>1. firing = None /\ tw_firing = {}
    BY <1>2
  <2>2. ASSUME NEW t \in Threads, ExpireWait(t) PROVE FifoInv' /\ FifoStep
    <3>1. UNCHANGED <<pended_on, swap_retval, call, msgqVars, data>>
      BY <2>2 DEF ExpireWait, Expire, objectVars
    <3>2. \A u \in Threads : Progress(u)' = Progress(u)
      BY <3>1 DEF Progress
    <3> QED BY <3>1, <3>2, RestsFifo, FifoStutters
  <2> QED BY <1>0, <1>2, <2>1, <2>2, AnyCallRefines, ThreadStepRefines, WorkStepRefines
<1> QED BY <1>1, <1>2 DEF Next

LEMMA FifoInit ==
  ASSUME PollInit PROVE FifoInv /\ Fifo!Init
<1>1. /\ buffer = [m \in MsgQs |-> [i \in Slots |-> None]] /\ read_ptr = [m \in MsgQs |-> 0]
      /\ write_ptr = [m \in MsgQs |-> 0] /\ used_msgs = [m \in MsgQs |-> 0]
      /\ data = [t \in Threads |-> None] /\ call = [t \in Threads |-> Idle]
  BY DEF PollInit, PollEventsInit, MsgQInit
<1>2. max_msgs \in Nat /\ 0 \in Slots /\ 0 \in 0 .. max_msgs
  BY MsgQAssumption DEF Slots
<1>3. \A t \in Threads : Progress(t) = <<"none">>
  BY <1>1 DEF Progress, Idle
<1>4. RingInv
  <2>1. Slot(0, 0) = 0
    BY <1>2, SlotIs
  <2> QED BY <1>1, <1>2, <2>1 DEF RingInv, RingTypes
<1>5. FullOrEmpty
  <2> SUFFICES ASSUME NEW t \in Threads, NEW m \in MsgQs
               PROVE  Progress(t) # <<"put", m>> /\ Progress(t) # <<"get", m>>
    BY DEF FullOrEmpty
  <2>1. <<"put", m>> \notin Resting /\ <<"get", m>> \notin Resting
    BY StagesDiffer
  <2> QED BY <1>3, <2>1 DEF Resting
<1>6. \A m \in MsgQs : Chan[m] = <<>>
  <2> TAKE m \in MsgQs
  <2>1. PICK b, r, w, n : OneRing(m, b, r, w, n)
    BY <1>4, RingOf
  <2>2. PICK s : s = Chan[m]
    OBVIOUS
  <2>3. s \in Seq(Msgs \cup {None}) /\ Len(s) = 0
    BY <1>1, <2>1, <2>2 DEF OneRing
  <2>4. s = <<>>
    BY ONLY <2>3
  <2> QED BY <2>2, <2>4
<1>7. Chan = [m \in MsgQs |-> <<>>] /\ Prog = [t \in Threads |-> <<"none">>]
  BY <1>3, <1>6 DEF Chan, Prog
<1>8. Fifo!Init
  BY <1>7 DEF Fifo!Init, Chan, Prog
<1> QED BY <1>4, <1>5, <1>8 DEF FifoInv

LEMMA FifoStutter ==
  ASSUME FifoInv, UNCHANGED vars
  PROVE  FifoInv' /\ FifoStep
<1>1. UNCHANGED <<pended_on, swap_retval, call, msgqVars, data>>
  BY DEF vars, waitVars, objectVars
<1>2. \A u \in Threads : Progress(u)' = Progress(u)
  BY <1>1 DEF Progress
<1> QED BY <1>1, <1>2, RestsFifo, FifoStutters

\* Message queues are first-in first-out channels (ImplementsFifo), for any
\* number of threads, queues and slots: what is put is got once and in order,
\* through the ring buffer, past it (k_msgq_put to a waiting thread), or from a
\* thread that waited for space (k_msgq_get), and who fails has no effect.
THEOREM MsgqImplementsFifo ==
  ASSUME ~LateCallback PROVE Spec => ImplementsFifo
<1>1. PollInit => FifoInv /\ Fifo!Init
  BY FifoInit
<1>2. Inv /\ FifoInv /\ [Next]_vars => FifoInv' /\ [Fifo!Next]_(Fifo!vars)
  BY FifoNext, FifoStutter DEF FifoStep
<1> QED BY <1>1, <1>2, Invariant, PTL DEF Spec, ImplementsFifo, Fifo!Spec

=============================================================================
